------------------------------ MODULE Startup ------------------------------
(***************************************************************************)
(* How a node starts: load_or_create_keypair (identity.rs) and the listen  *)
(* step of apply_startup_config (network.rs), as the bootstrap node, the   *)
(* relay node and every peer with an identity file run them.  Several      *)
(* processes may be pointed at one file, a process may crash anywhere, and *)
(* saving may fail.                                                        *)
(*                                                                         *)
(* The file is tested for existence, then read or created.  Creating it    *)
(* (std::fs::write) truncates it first and writes its few bytes after; a   *)
(* process that fails to write them leaves an empty file.                  *)
(***************************************************************************)
EXTENDS FiniteSets

CONSTANTS
  Process,    \* the processes that use the identity file
  Key         \* the keypairs that may be generated: bounds how many are

ASSUME StartupAssumption == Key \cap {"absent", "partial", "none"} = {}

VARIABLES
  file,        \* "absent", "partial", or the key it holds
  pc,          \* pc[p]: where p is in its start
  key,         \* key[p]: the keypair p has in memory, or "none"
  used,        \* the keypairs generated so far
  \* Never read by an action.
  ran,         \* the keypairs under which processes have run
  overlap,     \* two processes found no file before either had written it
  cut          \* a process was stopped between truncating the file and writing

startupVars == <<file, pc, key, used, ran, overlap, cut>>

Point == {"off", "testing", "reading", "saving", "writing", "listening", "running"}

StartupInit ==
  /\ file = "absent"
  /\ pc = [p \in Process |-> "off"]
  /\ key = [p \in Process |-> "none"]
  /\ used = {}
  /\ ran = {}
  /\ overlap = FALSE
  /\ cut = FALSE

GoTo(p, point) == pc' = [pc EXCEPT ![p] = point]
End(p) == GoTo(p, "off") /\ key' = [key EXCEPT ![p] = "none"]

Launch(p) ==
  /\ pc[p] = "off"
  /\ GoTo(p, "testing")
  /\ UNCHANGED <<file, key, used, ran, overlap, cut>>

\* path.exists()
FindFile(p) ==
  /\ pc[p] = "testing" /\ file # "absent"
  /\ GoTo(p, "reading")
  /\ UNCHANGED <<file, key, used, ran, overlap, cut>>

\* There is none: a keypair is generated.
FindNoFile(p) ==
  /\ pc[p] = "testing" /\ file = "absent"
  /\ \E k \in Key \ used : key' = [key EXCEPT ![p] = k] /\ used' = used \union {k}
  /\ GoTo(p, "saving")
  /\ overlap' = (overlap \/ \E q \in Process \ {p} : pc[q] = "saving")
  /\ UNCHANGED <<file, ran, cut>>

ReadFile(p) ==
  /\ pc[p] = "reading" /\ file \in Key
  /\ key' = [key EXCEPT ![p] = file]
  /\ GoTo(p, "listening")
  /\ UNCHANGED <<file, used, ran, overlap, cut>>

\* A file that does not parse is an error, and the process ends.
ParseFails(p) ==
  /\ pc[p] = "reading" /\ file = "partial"
  /\ End(p)
  /\ UNCHANGED <<file, used, ran, overlap, cut>>

\* save_keypair: the file is opened and truncated, then written.
CreateFile(p) ==
  /\ pc[p] = "saving"
  /\ file' = "partial"
  /\ GoTo(p, "writing")
  /\ UNCHANGED <<key, used, ran, overlap, cut>>

\* Mutant: written to a buffer that is not flushed.
WriteFile_Unflushed(p) ==
  /\ pc[p] = "writing"
  /\ GoTo(p, "listening")
  /\ UNCHANGED <<file, key, used, ran, overlap, cut>>

WriteFile(p) ==
  /\ pc[p] = "writing"
  /\ file' = key[p]
  /\ GoTo(p, "listening")
  /\ UNCHANGED <<key, used, ran, overlap, cut>>

\* Mutant: the node goes on with a keypair it could not save.
SaveFails_Ignored(p) ==
  /\ pc[p] \in {"saving", "writing"}
  /\ GoTo(p, "listening")
  /\ cut' = (cut \/ pc[p] = "writing")
  /\ UNCHANGED <<file, key, used, ran, overlap>>

\* No directory, no permission, no space: an error, and the process ends.
SaveFails(p) ==
  /\ pc[p] \in {"saving", "writing"}
  /\ End(p)
  /\ cut' = (cut \/ pc[p] = "writing")
  /\ UNCHANGED <<file, used, ran, overlap>>

\* new_with_keypair, and listen_on of apply_startup_config.  Another process with
\* the same address is no obstacle: TCP listens with the port's reuse allowed.
Listen(p) ==
  /\ pc[p] = "listening"
  /\ ran' = ran \union {key[p]}
  /\ GoTo(p, "running")
  /\ UNCHANGED <<file, key, used, overlap, cut>>

\* A transport that cannot be built or an address that cannot be had is an error,
\* and the process ends.
ListenFails(p) ==
  /\ pc[p] = "listening"
  /\ End(p)
  /\ UNCHANGED <<file, used, ran, overlap, cut>>

\* The process ends, of itself or not.
Exit(p) ==
  /\ pc[p] # "off"
  /\ End(p)
  /\ cut' = (cut \/ pc[p] = "writing")
  /\ UNCHANGED <<file, used, ran, overlap>>

\* Every step of p before it runs.
StartStep(p) ==
  \/ Launch(p) \/ FindFile(p) \/ FindNoFile(p) \/ ReadFile(p) \/ ParseFails(p)
  \/ CreateFile(p) \/ WriteFile(p) \/ SaveFails(p) \/ ListenFails(p)

-----------------------------------------------------------------------------
\* The variables hold values of the expected kinds.
StartupTypeOK ==
  /\ file \in {"absent", "partial"} \union Key
  /\ pc \in [Process -> Point]
  /\ key \in [Process -> Key \union {"none"}]
  /\ used \subseteq Key /\ ran \subseteq Key
  /\ overlap \in BOOLEAN /\ cut \in BOOLEAN

\* identity.rs: "the identity survives restarts".  However often processes start,
\* fail and crash, all of them run under one keypair, unless two found no file at
\* the same time.
IdentitySurvives == ~overlap => \A j, k \in ran : j = k

\* save_keypair: the file is unreadable only while a process is writing it, or
\* after one was stopped in between.  (Then it stays so, and no process starts
\* any more.)
UnreadableOnlyIfCut ==
  file = "partial" => cut \/ \E p \in Process : pc[p] = "writing"

=============================================================================
