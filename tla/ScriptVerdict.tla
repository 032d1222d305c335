--------------------------- MODULE ScriptVerdict ---------------------------
(***************************************************************************)
(* What the parallel script checker promises the thread that connects a    *)
(* block: it opens a session, hands in checks, closes the session, and is  *)
(* told whether all of the checks it handed in are good.  No threads, no   *)
(* counters, no condition variables: CheckQueue implements this module.    *)
(***************************************************************************)
CONSTANT Checks   \* the script checks a block can give rise to

VARIABLES
  control,   \* "none": no session; "open": taking checks; "closing": waiting
  added,     \* the checks handed in during the session
  bad,       \* the checks of the session's block that evaluate to false
  verdict    \* what the last session reported

abstractVars == <<control, added, bad, verdict>>

AbstractInit ==
  /\ control = "none"
  /\ added = {}
  /\ bad = {}
  /\ verdict = TRUE

(* A new block is connected; which of its checks fail is up to the block. *)
OpenSession ==
  /\ control = "none"
  /\ control' = "open"
  /\ added' = {}
  /\ bad' \in SUBSET Checks
  /\ UNCHANGED verdict

HandIn(S) ==
  /\ control = "open"
  /\ S \subseteq Checks \ added
  /\ added' = added \cup S
  /\ UNCHANGED <<control, bad, verdict>>

CloseSession ==
  /\ control = "open"
  /\ control' = "closing"
  /\ UNCHANGED <<added, bad, verdict>>

Report ==
  /\ control \in {"open", "closing"}
  /\ control' = "none"
  /\ verdict' = (added \cap bad = {})
  /\ UNCHANGED <<added, bad>>

AbstractNext ==
  \/ OpenSession
  \/ \E S \in SUBSET Checks : HandIn(S)
  \/ CloseSession
  \/ Report

AbstractSpec == AbstractInit /\ [][AbstractNext]_abstractVars
=============================================================================
