------------------------------- MODULE CubeSync -------------------------------
(***************************************************************************)
(* internal/cubesync: carrying the rows of one scope from the source       *)
(* branch's cube to the target branch, all of them or those that changed   *)
(* since a watermark.                                                      *)
(*                                                                         *)
(* A round is started by the scheduler's callback or by hand.  It reads    *)
(* page after page while the source goes on changing, hands the rows to    *)
(* the importer and only then moves the watermark, to the time it started  *)
(* less an overlap.  The watermark and the time of the last full round are *)
(* in a file of their own, saved one after the other.                      *)
(*                                                                         *)
(* The scope is products (catalog's ArchiveService.Import, overwrite): a   *)
(* row is its id, in whose order it is exported, and a version.  A chunk   *)
(* is one row, as the importer writes rows one by one.  Scopes share only  *)
(* the order they are carried in.  Names, tokens and reports are left out. *)
(***************************************************************************)
EXTENDS Integers, Sequences, FiniteSets, FiniteSetsExt

CONSTANTS
  Rows,        \* row ids, in the order of exportOrderFor
  Kinds,       \* who starts a round
  PageSize,    \* rows of a page
  Overlap,     \* WatermarkOverlapSeconds and IncrementalLag together
  Delay,       \* how long a change may take to show after it is stamped
  MaxTime,     \* bound: the clock
  MaxMoves,    \* bound: changes at the source
  MaxFaults    \* bound: calls, saves and writes that fail, restarts

(* ChangedMemberLag: a lag below the source's delay would lose rows.        *)
ASSUME SyncAssumption ==
  /\ Rows \subseteq Nat /\ IsFiniteSet(Rows) /\ Kinds \subseteq {"job", "manual"}
  /\ PageSize \in Nat \ {0} /\ MaxTime \in Nat /\ MaxMoves \in Nat /\ MaxFaults \in Nat
  /\ Delay \in Nat /\ Overlap \in Nat /\ Delay < Overlap

VARIABLES
  now,       \* the time
  src,       \* per row what the cube shows: version, updated_at, whether it is there
  open,      \* per row a change that is stamped and does not show yet
  target,    \* per row the version in the target branch (0: none)
  mark,      \* the file's watermark
  full,      \* the file's full_sync_at: never, fresh, or older than the maximum age
  running,   \* the handler's gate
  round,     \* per kind the round in progress
  lost,      \* history: rows a round passed over, or whose write failed
  faults, moves

source == <<now, src, open>>
file == <<mark, full>>
vars == <<source, target, file, running, round, lost, faults, moves>>

NoMark == -1
NoChange == [ver |-> 0, at |-> 0]
Idle == [pc |-> "idle", full |-> FALSE, since |-> NoMark, mark |-> NoMark, offset |-> 0, rows |-> <<>>]

Init ==
  /\ now = Overlap
  /\ src = [r \in Rows |-> [ver |-> 1, at |-> 0, here |-> TRUE]]
  /\ open = [r \in Rows |-> NoChange]
  /\ target = [r \in Rows |-> 0]
  /\ mark = NoMark /\ full = "never"
  /\ running = FALSE /\ round = [k \in Kinds |-> Idle]
  /\ lost = {} /\ faults = 0 /\ moves = 0

Fault == faults < MaxFaults /\ faults' = faults + 1
Set(k, r) == round' = [round EXCEPT ![k] = r]

-----------------------------------------------------------------------------
(* The source.                                                              *)

(* exportScopeFilters: everything, or what changed after since.             *)
Matching(since) == {r \in Rows : src[r].here /\ (since = NoMark \/ src[r].at > since)}
Before(since, r) == Cardinality({q \in Matching(since) : q < r})
Ordered(since) ==
  [i \in 1..Cardinality(Matching(since)) |-> CHOOSE r \in Matching(since) : Before(since, r) = i - 1]

(* A row is written: its time is stamped before the change shows.           *)
Change(r) ==
  /\ moves < MaxMoves /\ moves' = moves + 1
  /\ src[r].here /\ open[r] = NoChange
  /\ open' = [open EXCEPT ![r] = [ver |-> src[r].ver + 1, at |-> now]]
  /\ UNCHANGED <<now, src, target, file, running, round, lost, faults>>

Show(r) ==
  /\ open[r] # NoChange
  /\ src' = [src EXCEPT ![r] = [ver |-> open[r].ver, at |-> open[r].at, here |-> TRUE]]
  /\ open' = [open EXCEPT ![r] = NoChange]
  /\ UNCHANGED <<now, target, file, running, round, lost, faults, moves>>

(* The row a round that has read past r would have read next moves up by    *)
(* one and is passed over.                                                  *)
PassedOver(k, r) ==
  {q \in Matching(round[k].since) :
     round[k].pc = "page" /\ r \in Matching(round[k].since) /\ r < q
       /\ Before(round[k].since, q) = round[k].offset}

Withdraw(r) ==
  /\ moves < MaxMoves /\ moves' = moves + 1
  /\ src[r].here /\ open[r] = NoChange
  /\ src' = [src EXCEPT ![r].here = FALSE]
  /\ lost' = lost \union UNION {PassedOver(k, r) : k \in Kinds}
  /\ UNCHANGED <<now, open, target, file, running, round, faults>>

Tick ==
  /\ now < MaxTime /\ now' = now + 1
  /\ \A r \in Rows : open[r] = NoChange \/ now < open[r].at + Delay
  /\ UNCHANGED <<src, open, target, file, running, round, lost, faults, moves>>

(* ShouldFullRefresh: the last full round is older than WatermarkMaxAgeDays.*)
GrowOld ==
  /\ full = "fresh" /\ full' = "old"
  /\ UNCHANGED <<source, target, mark, running, round, lost, faults, moves>>

-----------------------------------------------------------------------------
(* A round.                                                                 *)

(* Mutant: no overlap.                                                      *)
NowAt_Exact == now

NowAt == now - Overlap

(* trigger, beginRun, and the start of syncScope.  Only a round started by  *)
(* hand may be forced to be full.                                           *)
Start(k, force) ==
  LET since == IF force \/ full \in {"never", "old"} THEN NoMark ELSE mark
  IN Set(k, [Idle EXCEPT !.pc = "page", !.full = (since = NoMark), !.since = since, !.mark = NowAt])

(* Mutant: a round started by hand does not look at the gate.               *)
Begin_Ungated(k, force) ==
  /\ round[k].pc = "idle" /\ (force => k = "manual")
  /\ running' = TRUE /\ Start(k, force)
  /\ UNCHANGED <<source, target, file, lost, faults, moves>>

Begin(k, force) ==
  /\ ~running /\ round[k].pc = "idle" /\ (force => k = "manual")
  /\ running' = TRUE /\ Start(k, force)
  /\ UNCHANGED <<source, target, file, lost, faults, moves>>

(* One page.  The last one is known by the total, or by its being empty.    *)
(* A full round that finds nothing is an error; any other one goes on to    *)
(* move the watermark.                                                      *)
ReadPage(k) ==
  LET all  == Ordered(round[k].since)
      page == SubSeq(all, round[k].offset + 1, Min({Len(all), round[k].offset + PageSize}))
      got  == round[k].rows \o [i \in DOMAIN page |-> [row |-> page[i], ver |-> src[page[i]].ver]]
      next == round[k].offset + Len(page)
      last == page = <<>> \/ next >= Len(all)
  IN /\ round[k].pc = "page"
     /\ IF last /\ got = <<>> /\ round[k].full
        THEN Set(k, Idle) /\ running' = FALSE
        ELSE /\ Set(k, [round[k] EXCEPT !.rows = got, !.offset = next,
                                        !.pc = IF last THEN "import" ELSE "page"])
             /\ UNCHANGED running
     /\ UNCHANGED <<source, target, file, lost, faults, moves>>

(* importProducts: one row is overwritten.                                  *)
Import(k) ==
  /\ round[k].pc = "import" /\ round[k].rows # <<>>
  /\ LET got == Head(round[k].rows)
     IN /\ target' = [target EXCEPT ![got.row] = got.ver]
        /\ lost' = IF got.ver = src[got.row].ver THEN lost \ {got.row} ELSE lost
  /\ Set(k, [round[k] EXCEPT !.rows = Tail(@)])
  /\ UNCHANGED <<source, file, running, faults, moves>>

(* Its write fails: it is counted as skipped, and the import is answered    *)
(* with success.                                                            *)
SkipRow(k) ==
  /\ round[k].pc = "import" /\ round[k].rows # <<>> /\ Fault
  /\ lost' = lost \union {Head(round[k].rows).row}
  /\ Set(k, [round[k] EXCEPT !.rows = Tail(@)])
  /\ UNCHANGED <<source, target, file, running, moves>>

(* A call fails, or its answer is lost, or the round's time is up.          *)
Fail(k) ==
  /\ round[k].pc \in {"page", "import"} /\ Fault
  /\ Set(k, Idle) /\ running' = FALSE
  /\ UNCHANGED <<source, target, file, lost, moves>>

(* WatermarkStore.Set, and MarkFullSync after a full round.                 *)
SetMark(k) ==
  /\ round[k].pc = "import" /\ round[k].rows = <<>>
  /\ mark' = round[k].mark
  /\ Set(k, [round[k] EXCEPT !.pc = "saved"])
  /\ UNCHANGED <<source, target, full, running, lost, faults, moves>>

(* The file cannot be written, which is no error.                           *)
SetMarkFails(k) ==
  /\ round[k].pc = "import" /\ round[k].rows = <<>> /\ Fault
  /\ Set(k, [round[k] EXCEPT !.pc = "saved"])
  /\ UNCHANGED <<source, target, file, running, lost, moves>>

(* Mutant: every round counts as a full one.                                *)
MarkFullSync_Always(k) ==
  /\ round[k].pc = "saved"
  /\ full' = "fresh"
  /\ Set(k, Idle) /\ running' = FALSE
  /\ UNCHANGED <<source, target, mark, lost, faults, moves>>

MarkFullSync(k) ==
  /\ round[k].pc = "saved"
  /\ full' = IF round[k].full THEN "fresh" ELSE full
  /\ Set(k, Idle) /\ running' = FALSE
  /\ UNCHANGED <<source, target, mark, lost, faults, moves>>

Restart ==
  /\ Fault
  /\ round' = [k \in Kinds |-> Idle] /\ running' = FALSE
  /\ UNCHANGED <<source, target, file, lost, moves>>

(* The file is lost or cannot be read.                                      *)
LoseFile ==
  /\ Fault /\ mark # NoMark
  /\ mark' = NoMark /\ full' = "never"
  /\ UNCHANGED <<source, target, running, round, lost, moves>>

Step(k) == Begin(k, FALSE) \/ ReadPage(k) \/ Import(k) \/ SetMark(k) \/ MarkFullSync(k)

Next ==
  \/ \E r \in Rows : Change(r) \/ Show(r) \/ Withdraw(r)
  \/ Tick \/ GrowOld \/ Restart \/ LoseFile
  \/ \E k \in Kinds : Step(k) \/ Begin(k, TRUE) \/ SkipRow(k) \/ Fail(k) \/ SetMarkFails(k)

Spec == Init /\ [][Next]_vars

(* The source shows a change in time, a full round grows old, the scheduler *)
(* calls back, and a round goes on.                                         *)
Fairness ==
  /\ \A r \in Rows : WF_vars(Show(r))
  /\ WF_vars(GrowOld)
  /\ WF_vars(\E k \in Kinds : Step(k))

FairSpec == Spec /\ Fairness

-----------------------------------------------------------------------------
InTarget(r) == target[r] = src[r].ver

(* What the watermark has passed is in the target as it shows at the        *)
(* source, whatever changed while pages were read and whatever failed, but  *)
(* for the rows that were passed over and those whose write failed.         *)
NothingBehindWatermark ==
  \A r \in Rows : src[r].here /\ src[r].at <= mark => InTarget(r) \/ r \in lost

(* No row of the target goes back to an older version, whoever starts       *)
(* rounds and when.                                                         *)
NeverBackwards == [][\A r \in Rows : target'[r] >= target[r]]_vars

(* What was passed over or failed is made good by a full round: once the    *)
(* source is at rest the target has all of it.                              *)
TargetHeals == <>[](\A r \in Rows : src[r].here => InTarget(r))

===============================================================================
