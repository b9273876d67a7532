---------------------------- MODULE MCOvertaken ----------------------------
(***************************************************************************)
(* One behaviour of Handoff in which the publisher overtakes two           *)
(* compactions, with enough files for the compactor to delete one that the *)
(* owner still needs: the instances TLC can search in full are too small.  *)
(* script is the number of the next step.                                  *)
(***************************************************************************)
EXTENDS MCHandoff

VARIABLE script

Small == [t \in Times |-> {1}]

File(t) == Gen1File(t, t, 1)
Pair(f, g) == {f, g}

Ingests(t) == <<"ingest", t>>
Merges(g) == <<"merge", g>>
Leaves(g) == <<"leave", g>>

(* A merged group up to the stored queue; Late has a snapshot take a number
   above the compaction's, and be published, before its manifest is stored. *)
Timely == <<"swap", "reserve", "persist", "publish", "sync", "schedule", "save", "reclaim">>
Late(t) ==
  <<"swap", "reserve", Ingests(t), "publish", "sync", "persist", "schedule", "save", "reclaim">>

(* 3 and 4, then 5 and 6, are merged and stay in the index, so that 4 and 5 are
   merged next; that output is merged with 4, and 4 and 5 again.           *)
Script ==
  LET ab == Pair(File(1), File(2)) cd == Pair(File(3), File(4)) ef == Pair(File(5), File(6))
      de == Pair(File(4), File(5)) fg == Pair(File(6), File(7))
      abc == Pair(MergedFile(ab), File(3))
  IN <<"load", Ingests(1), Ingests(2), Ingests(3), Ingests(4), "publish", "sync">>
     \o <<"pass", Leaves(ab), Merges(cd)>> \o Late(5)
     \o <<Ingests(6), "publish", "sync", "pass", Leaves(ab), Leaves(cd), Merges(ef)>> \o Late(7)
     \o <<"pass", Leaves(cd), Leaves(ef), Merges(ab)>> \o Timely
     \o <<"pass", Leaves(abc), Leaves(fg), Merges(de)>> \o Timely
     \o <<"pass", Leaves(abc), Leaves(ef), Merges(Pair(File(4), MergedFile(de)))>> \o Timely
     \o <<"pass", Leaves(abc), Leaves(fg), Merges(de)>> \o Timely

Does(step) ==
  CASE step = "load" -> LoadQueue
    [] step = "publish" -> Publish
    [] step = "sync" -> SyncIndex
    [] step = "pass" -> PassStart
    [] step = "swap" -> HandlerSwap
    [] step = "reserve" -> \E h \in handlers : HandlerReserve(h)
    [] step = "persist" -> \E h \in handlers : HandlerPersist(h)
    [] step = "schedule" -> Schedule
    [] step = "save" -> Save
    [] step = "reclaim" -> Reclaim
    [] OTHER -> CASE step[1] = "ingest" -> Ingest(step[2], 1)
                  [] step[1] = "leave" -> MergeFails(step[2])
                  [] step[1] = "merge" -> Merge(step[2])

OvertakenInit == Init /\ script = 1
OvertakenNext ==
  /\ script \in DOMAIN Script
  /\ Next /\ Does(Script[script])
  /\ script' = script + 1
=============================================================================
