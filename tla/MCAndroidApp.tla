---------------------------- MODULE MCAndroidApp ----------------------------
(* A small instance of AndroidApp: the main thread and one other thread.    *)
EXTENDS AndroidApp

CONSTANTS worker

MCThread == {Main, worker}
MCWorker == {worker}

=============================================================================
