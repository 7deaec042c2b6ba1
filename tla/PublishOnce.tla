---------------------------- MODULE PublishOnce ----------------------------
(***************************************************************************)
(* What the protected publication of ONE product photo promises, with no   *)
(* database, lease, file descriptor or process in sight: the photo is      *)
(* committed at most once, only by the execution that holds the            *)
(* publication authority, only after every artifact carries the sealed     *)
(* bytes, and the authority moves only away from an execution that has     *)
(* ended.  PhotoOperation is the protocol of the code that implements it.  *)
(***************************************************************************)
EXTENDS FiniteSets

CONSTANTS
  Exec,     \* executions: one handled request each
  Art,      \* artifacts of the photo (main, thumbnail)
  None      \* no execution

VARIABLES
  status,   \* none, open, authorized, committed, review
  holder,   \* the execution that holds the publication authority
  running,  \* executions that may still act
  files,    \* what the public name of each artifact holds
  photos    \* executions whose photo row was committed

avars == <<status, holder, running, files, photos>>

FileKinds == {"none", "sealed", "foreign"}

ATypeOK ==
  /\ status \in {"none", "open", "authorized", "committed", "review"}
  /\ holder \in Exec \union {None}
  /\ running \subseteq Exec
  /\ files \in [Art -> FileKinds]
  /\ photos \subseteq Exec

AInit ==
  /\ status = "none"
  /\ holder = None
  /\ running = {}
  /\ files = [a \in Art |-> "none"]
  /\ photos = {}

\* Requests arrive and end at any time.
Others == running' \subseteq Exec /\ UNCHANGED <<status, holder, files, photos>>

Open ==
  /\ status = "none"
  /\ status' = "open"
  /\ running' \subseteq Exec
  /\ UNCHANGED <<holder, files, photos>>

Authorize(e) ==
  /\ status = "open"
  /\ e \in running
  /\ status' = "authorized"
  /\ holder' = e
  /\ UNCHANGED <<running, files, photos>>

Handover(e) ==
  /\ status = "authorized"
  /\ holder \notin running
  /\ e \in running
  /\ holder' = e
  /\ UNCHANGED <<status, running, files, photos>>

Publish(a) ==
  /\ status = "authorized"
  /\ holder \in running
  /\ files[a] = "none"
  /\ files' = [files EXCEPT ![a] = "sealed"]
  /\ UNCHANGED <<status, holder, running, photos>>

\* Something outside the protocol takes an unused public name.
Obstruct(a) ==
  /\ files[a] = "none"
  /\ files' = [files EXCEPT ![a] = "foreign"]
  /\ UNCHANGED <<status, holder, running, photos>>

\* The photo row and the commit of the operation appear together.
Commit ==
  /\ status = "authorized"
  /\ \A a \in Art : files[a] = "sealed"
  /\ status' = "committed"
  /\ photos' = photos \union {holder}
  /\ running' \subseteq Exec
  /\ UNCHANGED <<holder, files>>

Review ==
  /\ status \in {"open", "authorized"}
  /\ status' = "review"
  /\ running' \subseteq Exec
  /\ UNCHANGED <<holder, files, photos>>

ANext ==
  \/ Others
  \/ Open
  \/ \E e \in Exec : Authorize(e) \/ Handover(e)
  \/ \E a \in Art : Publish(a) \/ Obstruct(a)
  \/ Commit
  \/ Review

ASpec == AInit /\ [][ANext]_avars
=============================================================================
