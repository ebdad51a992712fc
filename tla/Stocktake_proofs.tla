-------------------------- MODULE Stocktake_proofs --------------------------
(***************************************************************************)
(* What Stocktake promises, for every set of headers, lines, requests and  *)
(* workers: proofs by one inductive invariant, IInv.                       *)
(***************************************************************************)
EXTENDS Stocktake, SumLemmas

LineKinds == {"overwrite", "accumulate", "reason", "deleteLine"}

(* The clock: operations are numbered by it, nobody is ahead of it.         *)
TimesOK ==
  /\ \A o \in ops : o.began <= o.opAt /\ o.opAt < o.at /\ o.at <= clock
  /\ \A o, q \in ops : o.at = q.at => o = q
  /\ \A i \in plan : i.began <= clock
  /\ default.began <= clock
  /\ \A h \in Headers : mark[h].erased <= clock /\ mark[h].summed <= clock
  /\ \A w \in Workers : began[w] <= clock /\ first[w] <= clock

(* An id is given to one line, of one header.                               *)
LinesOK ==
  /\ \A l \in LineIds : line[l] # NoLine => l \in used
  /\ \A o \in ops : o.line \in used
  /\ \A o \in ops : line[o.line] # NoLine => line[o.line].header = o.header
  /\ \A o, q \in ops : o.line = q.line => o.header = q.header

OfLine(w) == pc[w] # "idle" /\ job[w].kind \in LineKinds

(* What a handler knows of the header it looked at ...                      *)
HeaderKnown(w) ==
  LET h == target[w].header  kind == job[w].kind IN
  /\ job[w] \in Requests /\ h \in Headers /\ header[h].status # "none"
  /\ kind = "add" => job[w].n >= 0
  /\ kind # "plan" /\ header[h].status = "approved" => began[w] < mark[h].approved
  /\ kind \notin {"approve", "deleteHeader", "plan"} /\ header[h].status \in {"adjusted", "approved"}
       => began[w] < mark[h].submitted
  /\ header[h].status = "deleted" => began[w] < mark[h].deleted
  /\ kind = "approve" => header[h].status # "counting"
  /\ pc[w] = "sum" => kind = "submit"
  /\ pc[w] = "erased" => kind = "deleteHeader"

(* q was committed last; x is the result of the operation committed last    *)
(* up to t, if there is one: no q up to t is later than it.                 *)
LastOf(l, q) == \A m \in OpsOf(l) : m.at <= q.at
ResultAt(l, t, x) ==
  \A q \in OpsOf(l) : q.at <= t => \E c \in OpsOf(l) : q.at <= c.at /\ c.at <= t /\ c.new = x

(* ... of the line: the quantity it saw is the result of the last operation *)
(* up to then ...                                                           *)

LineKnown(w) ==
  LET l == target[w].line IN
  /\ l \in used
  /\ Result(job[w], target[w].seen.actual) >= 0
  /\ line[l] # NoLine => line[l].header = target[w].header /\ line[l].book = target[w].seen.book
  /\ \A o \in ops : o.line = l => o.header = target[w].header
  /\ ResultAt(l, began[w], target[w].seen.actual)

(* ... and of the sum: it is still right when no operation came after it.   *)
SumKnown(w) ==
  LET h == target[w].header IN
  pc[w] = "write" /\ job[w].kind = "submit" /\ header[h].status # "deleted"
  /\ (\A o \in ops : o.header = h => o.at <= first[w]) => sum[w] = SumDiff(h)

WorkersOK ==
  /\ \A w \in Workers : pc[w] # "idle" => HeaderKnown(w)
  /\ \A w \in Workers : OfLine(w) => LineKnown(w)
  /\ \A w \in Workers : pc[w] # "idle" => SumKnown(w)
  /\ \A v, w \in Workers : OfLine(v) /\ OfLine(w) /\ target[v].line = target[w].line
       => target[v].header = target[w].header

(* AuditTrail in the order of the commits: the line is the result of the    *)
(* last operation, and every operation continues from the last one that was *)
(* committed when it read the line.                                         *)
Explained(l) ==
  /\ \E o \in OpsOf(l) : LastOf(l, o) /\ line[l].actual = o.new
  /\ line[l].diff = line[l].actual - line[l].book
  /\ line[l].actual >= 0

Continued(l) == \A o \in OpsOf(l) : ResultAt(l, o.began, o.prev)

TrailOK ==
  /\ \A l \in LineIds : line[l] # NoLine => Explained(l)
  /\ \A l \in LineIds : Continued(l)

IInv ==
  /\ TypeOK /\ TimesOK /\ LinesOK /\ WorkersOK
  /\ TrailOK /\ SubmitFreezesTotal /\ OrphansOnlyByOverlap

-----------------------------------------------------------------------------
(* The handler of w is over, the others are where they were.                *)
LEMMA Ended ==
  ASSUME TypeOK, NEW w \in Workers, End(w)
  PROVE  /\ pc' \in [Workers -> {"idle", "sum", "write", "erased"}]
         /\ job' \in [Workers -> Requests \union {NoJob}]
         /\ target' \in [Workers -> TargetType]
         /\ began' \in [Workers -> Nat] /\ first' \in [Workers -> Nat] /\ sum' \in [Workers -> Int]
         /\ pc'[w] = "idle" /\ began'[w] = 0 /\ first'[w] = 0
         /\ \A v \in Workers \ {w} : /\ pc'[v] = pc[v] /\ job'[v] = job[v] /\ target'[v] = target[v]
                                     /\ began'[v] = began[v] /\ sum'[v] = sum[v] /\ first'[v] = first[v]
<1>1. NoTarget \in TargetType
  <2>1. NoLine \in LineType
    BY DEF NoLine, LineType
  <2>2. QED
    BY <2>1 DEF NoTarget, TargetType
<1>2. QED
  BY <1>1 DEF TypeOK, End

LEMMA SumDiffInt ==
  ASSUME TypeOK, NEW h
  PROVE  SumDiff(h) \in Int
<1>1. IsFiniteSet(LinesOf(h)) /\ LinesOf(h) \subseteq LineIds
  BY StocktakeAssumption, FS_Subset DEF LinesOf
<1>2. \A l \in LinesOf(h) : [k \in LineIds |-> line[k].diff][l] \in Int
  BY <1>1 DEF TypeOK, LineType
<1>3. QED
  BY <1>1, <1>2, SumInt DEF SumDiff

(* The total of a header changes with its own lines only.                   *)
LEMMA SumSame ==
  ASSUME TypeOK, NEW h,
         \A l \in LineIds : \/ line'[l] = line[l]
                            \/ line'[l].header # h /\ line[l].header # h
  PROVE  SumDiff(h)' = SumDiff(h)
<1> DEFINE f == [l \in LineIds |-> line[l].diff]
<1> DEFINE e == [l \in LineIds |-> line'[l].diff]
<1>1. LinesOf(h)' = LinesOf(h)
  BY DEF LinesOf
<1>2. IsFiniteSet(LinesOf(h)) /\ LinesOf(h) \subseteq LineIds
  BY StocktakeAssumption, FS_Subset DEF LinesOf
<1>3. \A l \in LinesOf(h) : f[l] \in Int /\ f[l] = e[l]
  BY <1>2 DEF TypeOK, LineType, LinesOf
<1>4. SumFunctionOnSet(f, LinesOf(h)) = SumFunctionOnSet(e, LinesOf(h))
  <2> HIDE DEF f, e
  <2>1. QED
    BY <1>2, <1>3, SumCongruence
<1>5. QED
  BY <1>1, <1>4 DEF SumDiff

(* From the order of the commits to the order of the trail.                 *)
LEMMA TrailIsAudited ==
  ASSUME TypeOK, TimesOK, TrailOK
  PROVE  AuditTrail
<1>1. \A l \in LineIds : \A o \in OpsOf(l) :
        /\ o \in ops /\ o.at \in Nat /\ o.opAt \in Nat /\ o.began \in Nat
        /\ o.began <= o.opAt /\ o.opAt < o.at
  BY DEF OpsOf, TypeOK, OpType, TimesOK
<1>2. ASSUME NEW l \in LineIds, line[l] # NoLine, NEW o \in LastOps(l)
      PROVE  \/ line[l].actual = o.new
             \/ \E c \in OpsOf(l) : Overtook(o, c) /\ line[l].actual = c.new
  <2>1. PICK c \in OpsOf(l) : LastOf(l, c) /\ line[l].actual = c.new
    BY <1>2 DEF TrailOK, Explained
  <2>2. o \in OpsOf(l) /\ c.opAt <= o.opAt /\ o.at <= c.at
    BY <2>1 DEF LastOps, LastOf
  <2>3. CASE o.at = c.at
    <3>1. o = c
      BY <1>1, <2>1, <2>2, <2>3 DEF TimesOK
    <3>2. QED
      BY <2>1, <3>1
  <2>4. CASE o.at < c.at
    BY <2>1, <2>2, <2>4 DEF Overtook
  <2>5. QED
    BY <1>1, <2>1, <2>2, <2>3, <2>4
<1>3. ASSUME NEW l \in LineIds, NEW o \in OpsOf(l), NEW q \in RightBefore(l, o)
      PROVE  \/ o.prev = q.new
             \/ o.began < q.at
             \/ \E c \in OpsOf(l) : Overtook(q, c) /\ o.prev = c.new
  <2>1. /\ q \in OpsOf(l) /\ q.opAt <= o.opAt
        /\ \A m \in OpsOf(l) : m.opAt <= q.opAt \/ o.opAt <= m.opAt
    BY DEF RightBefore
  <2>2. CASE q.at <= o.began
    <3>1. PICK c \in OpsOf(l) : q.at <= c.at /\ c.at <= o.began /\ c.new = o.prev
      BY <2>1, <2>2 DEF TrailOK, Continued, ResultAt
    <3>2. c.opAt <= q.opAt
      BY <1>1, <2>1, <3>1
    <3>3. CASE q.at = c.at
      <4>1. q = c
        BY <1>1, <2>1, <3>1, <3>3 DEF TimesOK
      <4>2. QED
        BY <3>1, <4>1
    <3>4. CASE q.at < c.at
      BY <3>1, <3>2, <3>4 DEF Overtook
    <3>5. QED
      BY <1>1, <2>1, <3>1, <3>3, <3>4
  <2>3. QED
    BY <1>1, <2>1, <2>2
<1>4. QED
  BY <1>2, <1>3 DEF AuditTrail, TrailOK, Explained

-----------------------------------------------------------------------------
LEMMA InitIInv == Init => IInv
<1> SUFFICES ASSUME Init PROVE IInv
  OBVIOUS
<1>1. TypeOK
  <2>1. NoLine \in LineType /\ NoTarget \in TargetType
    BY DEF NoLine, NoTarget, LineType, TargetType
  <2>2. line \in [LineIds -> LineType] /\ target \in [Workers -> TargetType]
    BY <2>1 DEF Init
  <2>3. mark \in [Headers -> MarkType]
    BY DEF Init, MarkType
  <2>4. \A l \in LineIds : line[l].header = NoHeader <=> line[l] = NoLine
    BY DEF Init, NoLine
  <2>5. default = NoDefault
    BY DEF Init
  <2>6. header \in [Headers -> [status : {"none", "counting", "adjusted", "approved", "deleted"},
                                total : Int]]
    BY DEF Init
  <2>7. QED
    BY <2>2, <2>3, <2>4, <2>5, <2>6 DEF Init, TypeOK
<1>2. TimesOK /\ LinesOK /\ WorkersOK
  BY DEF Init, TimesOK, LinesOK, WorkersOK, OfLine, NoDefault
<1>3. TrailOK
  BY DEF Init, TrailOK, Continued, OpsOf
<1>4. SubmitFreezesTotal /\ OrphansOnlyByOverlap
  BY DEF Init, SubmitFreezesTotal, OrphansOnlyByOverlap
<1>5. QED
  BY <1>1, <1>2, <1>3, <1>4 DEF IInv

-----------------------------------------------------------------------------
LEMMA OpIs ==
  ASSUME NEW w \in Workers, NEW l \in LineIds, NEW prev \in Int, NEW new \in Int,
         NEW t \in Stamps(w), target[w].header \in Headers, began[w] \in Nat, clock \in Nat
  PROVE  /\ Op(w, l, prev, new, t) \in OpType
         /\ Op(w, l, prev, new, t).header = target[w].header /\ Op(w, l, prev, new, t).line = l
         /\ Op(w, l, prev, new, t).began = began[w] /\ Op(w, l, prev, new, t).at = clock + 1
         /\ began[w] <= Op(w, l, prev, new, t).opAt /\ Op(w, l, prev, new, t).opAt <= clock
         /\ Op(w, l, prev, new, t).prev = prev /\ Op(w, l, prev, new, t).new = new
         /\ Op(w, l, prev, new, t).sets <=> job[w].kind # "reason"
<1>1. PICK b \in BOOLEAN : b <=> job[w].kind # "reason"
  OBVIOUS
<1>2. b = (job[w].kind # "reason")
  BY <1>1
<1>3. Op(w, l, prev, new, t) = [header |-> target[w].header, line |-> l, prev |-> prev, new |-> new,
                             sets |-> b, opAt |-> t, began |-> began[w], at |-> clock + 1]
  BY <1>2, Zenon DEF Op
<1>4. /\ Op(w, l, prev, new, t) \in OpType
      /\ Op(w, l, prev, new, t).header = target[w].header /\ Op(w, l, prev, new, t).line = l
      /\ Op(w, l, prev, new, t).began = began[w] /\ Op(w, l, prev, new, t).at = clock + 1
      /\ Op(w, l, prev, new, t).opAt = t
      /\ Op(w, l, prev, new, t).prev = prev /\ Op(w, l, prev, new, t).new = new
      /\ Op(w, l, prev, new, t).sets = b
  BY <1>3 DEF OpType, Stamps
<1>5. QED
  BY <1>1, <1>4 DEF Stamps

(* An operation is written, and with it at most its line.                   *)
LEMMA OpWritten ==
  ASSUME IInv, NEW w \in Workers, pc[w] = "write", job[w].kind \in LineKinds \union {"add"},
         End(w), NEW l \in LineIds, NEW o \in OpType,
         o.header = target[w].header, o.line = l, o.began = began[w], o.at = clock + 1,
         began[w] <= o.opAt, o.opAt <= clock,
         ops' = ops \union {o}, clock' = clock + 1, used' = used \union {l},
         UNCHANGED <<header, plan, default, mark, made>>,
         line' \in [LineIds -> LineType],
         \A k \in LineIds \ {l} : line'[k] = line[k],
         line'[l] = NoLine \/ line'[l].header = target[w].header,
         line'[l] # NoLine => /\ Present(target[w].header)
                              /\ o.sets => line'[l].actual = o.new
                              /\ ~o.sets => line'[l] = line[l]
                              /\ line'[l].diff = line'[l].actual - line'[l].book
                              /\ line'[l].actual >= 0,
         job[w].kind = "add" => l \notin used,
         job[w].kind # "add" => /\ target[w].line = l /\ o.prev = target[w].seen.actual
                                /\ line'[l] # NoLine => line[l] # NoLine /\ line'[l].book = line[l].book
  PROVE  IInv'
<1> DEFINE h == target[w].header
<1>1. HeaderKnown(w) /\ h \in Headers
  BY DEF IInv, WorkersOK, HeaderKnown
<1>2. job[w].kind # "add" => LineKnown(w) /\ OfLine(w)
  BY DEF IInv, WorkersOK, OfLine
<1>3. TypeOK /\ clock \in Nat
  BY DEF IInv, TypeOK
<1>4. line[l] = NoLine \/ line[l].header = h
  <2>1. CASE job[w].kind = "add"
    BY <2>1 DEF IInv, LinesOK
  <2>2. CASE job[w].kind # "add"
    BY <1>2, <2>2 DEF LineKnown
  <2>3. QED
    BY <2>1, <2>2
<1>5. NoLine.header = NoHeader /\ NoHeader \notin Headers
  BY StocktakeAssumption DEF NoLine
<1>6. ASSUME NEW k, k # h, k \in Headers PROVE SumDiff(k)' = SumDiff(k)
  <2>1. \A j \in LineIds : line'[j] = line[j] \/ (line'[j].header # k /\ line[j].header # k)
    BY <1>4, <1>5, <1>6
  <2>2. QED
    BY <1>3, <2>1, SumSame
<1>7. /\ pc' \in [Workers -> {"idle", "sum", "write", "erased"}]
      /\ job' \in [Workers -> Requests \union {NoJob}]
      /\ target' \in [Workers -> TargetType]
      /\ began' \in [Workers -> Nat] /\ first' \in [Workers -> Nat] /\ sum' \in [Workers -> Int]
      /\ pc'[w] = "idle" /\ began'[w] = 0 /\ first'[w] = 0
      /\ \A v \in Workers \ {w} : /\ pc'[v] = pc[v] /\ job'[v] = job[v] /\ target'[v] = target[v]
                                  /\ began'[v] = began[v] /\ sum'[v] = sum[v] /\ first'[v] = first[v]
  BY <1>3, Ended
<1>8. TypeOK'
  <2>1. \A k \in LineIds : line'[k].header = NoHeader <=> line'[k] = NoLine
    BY <1>1, <1>3, <1>5 DEF TypeOK
  <2>2. QED
    BY <1>3, <1>7, <2>1 DEF TypeOK
<1>9. TimesOK'
  <2>1. began[w] \in Nat /\ began[w] <= clock
    BY <1>3 DEF IInv, TimesOK, TypeOK
  <2>2. \A q \in ops : q.at \in Nat /\ q.began <= q.opAt /\ q.opAt < q.at /\ q.at <= clock
    BY <1>3 DEF IInv, TimesOK, TypeOK, OpType
  <2>3. /\ \A q \in ops' : q.began <= q.opAt /\ q.opAt < q.at /\ q.at <= clock'
        /\ \A q, p \in ops' : q.at = p.at => q = p
    <3>1. o.opAt \in Nat /\ clock' = clock + 1
      BY DEF OpType
    <3>2. \A q \in ops' : q.began <= q.opAt /\ q.opAt < q.at /\ q.at <= clock'
      BY <1>3, <2>1, <2>2, <3>1
    <3>3. \A q, p \in ops' : q.at = p.at => q = p
      BY <1>3, <2>2 DEF IInv, TimesOK
    <3>4. QED
      BY <3>2, <3>3
  <2>4. /\ \A i \in plan' : i.began <= clock'
        /\ default'.began <= clock'
        /\ \A k \in Headers : mark'[k].erased <= clock' /\ mark'[k].summed <= clock'
    BY <1>3 DEF IInv, TimesOK, TypeOK, MarkType, NoDefault
  <2>5. \A v \in Workers : began'[v] <= clock' /\ first'[v] <= clock'
    BY <1>3, <1>7 DEF IInv, TimesOK, TypeOK
  <2>6. QED
    BY <2>3, <2>4, <2>5 DEF TimesOK
<1>10. LinesOK'
  <2>1. ASSUME NEW q \in ops', line'[q.line] # NoLine PROVE line'[q.line].header = q.header
    <3>1. CASE q = o
      BY <2>1, <3>1
    <3>2. CASE q \in ops /\ q.line # l
      BY <2>1, <3>2, <1>3 DEF IInv, LinesOK, TypeOK, OpType
    <3>3. CASE q \in ops /\ q.line = l
      <4>1. job[w].kind # "add"
        BY <3>3 DEF IInv, LinesOK
      <4>2. q.header = h
        BY <1>2, <3>3, <4>1 DEF LineKnown
      <4>3. QED
        BY <2>1, <3>3, <4>2
    <3>4. QED
      BY <3>1, <3>2, <3>3
  <2>2. ASSUME NEW q \in ops, q.line = l PROVE q.header = h
    <3>1. job[w].kind # "add"
      BY <2>2 DEF IInv, LinesOK
    <3>2. QED
      BY <1>2, <2>2, <3>1 DEF LineKnown
  <2>3. QED
    BY <2>1, <2>2 DEF IInv, LinesOK
<1>11. ASSUME NEW v \in Workers, pc'[v] # "idle"
       PROVE  v # w /\ HeaderKnown(v)' /\ SumKnown(v)'
  <2>1. v # w /\ pc[v] # "idle" /\ HeaderKnown(v) /\ SumKnown(v)
    BY <1>7, <1>11 DEF IInv, WorkersOK
  <2>2. HeaderKnown(v)'
    BY <1>7, <2>1 DEF HeaderKnown
  <2>3. SumKnown(v)'
    <3>1. CASE target[v].header = h
      <4>1. first[v] <= clock /\ first[v] \in Nat
        BY <1>3 DEF IInv, TimesOK, TypeOK
      <4>2. o \in ops' /\ o.header = target'[v].header /\ ~(o.at <= first'[v])
        BY <1>3, <1>7, <2>1, <3>1, <4>1
      <4>3. QED
        BY <4>2 DEF SumKnown
    <3>2. CASE target[v].header # h
      <4>1. target[v].header \in Headers
        BY <2>1 DEF HeaderKnown
      <4>2. ASSUME NEW k, k = target[v].header PROVE SumDiff(k)' = SumDiff(k)
        BY <1>6, <3>2, <4>1, <4>2
      <4>3. QED
        BY <1>7, <2>1, <4>2 DEF SumKnown, SumDiff, LinesOf
    <3>3. QED
      BY <3>1, <3>2
  <2>4. QED
    BY <2>1, <2>2, <2>3
<1>12. ASSUME NEW v \in Workers, OfLine(v)'
       PROVE  LineKnown(v)'
  <2>1. v # w /\ OfLine(v) /\ LineKnown(v)
    BY <1>7, <1>12 DEF IInv, WorkersOK, OfLine
  <2> DEFINE k == target[v].line
  <2>2. /\ target'[v] = target[v] /\ job'[v] = job[v] /\ began'[v] = began[v]
        /\ began[v] \in Nat /\ began[v] <= clock /\ k \in used
    BY <1>3, <1>7, <2>1 DEF LineKnown, IInv, TimesOK, TypeOK
  <2>3. k = l => job[w].kind # "add" /\ target[v].header = h
    BY <1>2, <2>1, <2>2 DEF IInv, WorkersOK
  <2>4. line'[k] # NoLine => line'[k].header = target[v].header /\ line'[k].book = target[v].seen.book
    <3>1. k \in LineIds
      BY <1>3, <2>2 DEF TypeOK
    <3>2. CASE k = l
      BY <2>1, <2>3, <3>2 DEF LineKnown
    <3>3. CASE k # l
      BY <2>1, <3>1, <3>3 DEF LineKnown
    <3>4. QED
      BY <3>2, <3>3
  <2>5. \A q \in ops' : q.line = k => q.header = target[v].header
    BY <2>1, <2>3 DEF LineKnown
  <2>6. ResultAt(k, began[v], target[v].seen.actual)'
    <3>1. \A q \in OpsOf(k)' : q \in OpsOf(k) \/ q = o
      BY <2>2 DEF OpsOf
    <3>2. \A q \in OpsOf(k) : q \in OpsOf(k)'
      BY <2>2 DEF OpsOf
    <3>3. ~(o.at <= began[v])
      BY <1>3, <2>2
    <3>4. ResultAt(k, began[v], target[v].seen.actual)
      BY <2>1 DEF LineKnown
    <3>5. QED
      BY <2>2, <3>1, <3>2, <3>3, <3>4 DEF ResultAt
  <2>7. QED
    BY <2>1, <2>2, <2>4, <2>5, <2>6 DEF LineKnown, ResultAt, OpsOf, Result
<1>13. WorkersOK'
  <2>1. \A v, u \in Workers : OfLine(v)' /\ OfLine(u)' /\ target'[v].line = target'[u].line
          => target'[v].header = target'[u].header
    BY <1>7 DEF IInv, WorkersOK, OfLine
  <2>2. QED
    BY <1>11, <1>12, <2>1 DEF WorkersOK
<1>14. TrailOK'
  <2>1. \A k \in LineIds \ {l} : OpsOf(k)' = OpsOf(k)
    BY DEF OpsOf
  <2>2. OpsOf(l)' = IF o.sets THEN OpsOf(l) \union {o} ELSE OpsOf(l)
    BY DEF OpsOf
  <2>3. \A q \in OpsOf(l) : q.at <= clock /\ q.at \in Nat
    BY <1>3 DEF IInv, TimesOK, OpsOf, TypeOK, OpType
  <2>4. ASSUME NEW k \in LineIds, line'[k] # NoLine PROVE Explained(k)'
    <3>1. CASE k # l
      BY <2>1, <2>4, <3>1 DEF IInv, TrailOK, Explained, LastOf
    <3>2. CASE k = l /\ o.sets
      <4>1. o \in OpsOf(l)' /\ \A m \in OpsOf(l)' : m.at <= o.at
        BY <1>3, <2>2, <2>3, <3>2
      <4>2. QED
        BY <2>4, <3>2, <4>1 DEF Explained, LastOf
    <3>3. CASE k = l /\ ~o.sets
      BY <2>2, <2>4, <3>3 DEF IInv, TrailOK, Explained, LastOf
    <3>4. QED
      BY <3>1, <3>2, <3>3
  <2>5. ASSUME NEW k \in LineIds PROVE Continued(k)'
    <3>1. CASE k # l
      BY <2>1, <3>1 DEF IInv, TrailOK, Continued, ResultAt
    <3>2. CASE k = l /\ ~o.sets
      BY <2>2, <3>2 DEF IInv, TrailOK, Continued, ResultAt
    <3>3. CASE k = l /\ o.sets
      <4>1. ASSUME NEW x \in OpsOf(l) \union {o}, NEW q \in OpsOf(l) \union {o}, q.at <= x.began
            PROVE  \E c \in OpsOf(l) \union {o} : q.at <= c.at /\ c.at <= x.began /\ c.new = x.prev
        <5>1. x.began \in Nat /\ x.began <= clock
          BY <1>3, <2>3 DEF IInv, TimesOK, TypeOK, OpType, OpsOf
        <5>2. q \in OpsOf(l) /\ q \in ops /\ q.line = l
          BY <1>3, <4>1, <5>1 DEF OpsOf
        <5>3. CASE x = o
          <6>1. job[w].kind # "add"
            BY <5>2 DEF IInv, LinesOK
          <6>2. QED
            BY <1>2, <4>1, <5>2, <5>3, <6>1 DEF LineKnown, ResultAt
        <5>4. CASE x # o
          BY <4>1, <5>2, <5>4 DEF IInv, TrailOK, Continued, ResultAt
        <5>5. QED
          BY <5>3, <5>4
      <4>2. QED
        BY <2>2, <3>3, <4>1 DEF Continued, ResultAt
    <3>4. QED
      BY <3>1, <3>2, <3>3
  <2>6. QED
    BY <2>4, <2>5 DEF TrailOK
<1>15. SubmitFreezesTotal'
  <2>1. ASSUME NEW k \in Headers, header[k].status \in {"adjusted", "approved"}
        PROVE  /\ \A q \in ops' : q.header = k => q.began < mark[k].submitted
               /\ (\A q \in ops' : q.header = k => q.at <= mark[k].summed) => header[k].total = SumDiff(k)'
    <3>1. \A q \in ops' : q.header = k => q.began < mark[k].submitted
      BY <1>1, <2>1 DEF IInv, SubmitFreezesTotal, HeaderKnown, LineKinds
    <3>2. CASE k = h
      <4>1. mark[k].summed \in Nat /\ mark[k].summed <= clock
        BY <1>3 DEF IInv, TimesOK, TypeOK, MarkType
      <4>2. o \in ops' /\ o.header = k /\ ~(o.at <= mark[k].summed)
        BY <1>3, <3>2, <4>1
      <4>3. QED
        BY <3>1, <4>2
    <3>3. CASE k # h
      <4>1. SumDiff(k)' = SumDiff(k)
        BY <1>6, <3>3
      <4>2. QED
        BY <2>1, <3>1, <4>1 DEF IInv, SubmitFreezesTotal
    <3>4. QED
      BY <3>2, <3>3
  <2>2. QED
    BY <2>1 DEF SubmitFreezesTotal
<1>16. OrphansOnlyByOverlap'
  <2>1. Present(h) \/ (began[w] < mark[h].deleted /\ clock + 1 > mark[h].erased)
    BY <1>1, <1>3 DEF HeaderKnown, Present, IInv, TimesOK, TypeOK, MarkType
  <2>2. \A k \in Headers : Present(k)' <=> Present(k)
    BY DEF Present
  <2>3. \A k \in LineIds : line'[k] # NoLine => Present(line'[k].header)
    BY DEF IInv, OrphansOnlyByOverlap
  <2>4. QED
    BY <2>1, <2>2, <2>3 DEF IInv, OrphansOnlyByOverlap, Present
<1>17. QED
  BY <1>8, <1>9, <1>10, <1>13, <1>14, <1>15, <1>16 DEF IInv

-----------------------------------------------------------------------------
(* One worker moves and nothing is written.                                 *)
LEMMA OneMoves ==
  ASSUME IInv, NEW w \in Workers,
         UNCHANGED <<db, mark, clock, used>>, made' \subseteq Requests,
         pc' \in [Workers -> {"idle", "sum", "write", "erased"}],
         job' \in [Workers -> Requests \union {NoJob}],
         target' \in [Workers -> TargetType],
         began' \in [Workers -> Nat], first' \in [Workers -> Nat], sum' \in [Workers -> Int],
         \A v \in Workers \ {w} : /\ pc'[v] = pc[v] /\ job'[v] = job[v] /\ target'[v] = target[v]
                                  /\ began'[v] = began[v] /\ sum'[v] = sum[v] /\ first'[v] = first[v],
         began'[w] <= clock, first'[w] <= clock,
         pc'[w] # "idle" => HeaderKnown(w)' /\ SumKnown(w)',
         OfLine(w)' => LineKnown(w)' /\ \A v \in Workers \ {w} :
                         OfLine(v) /\ target[v].line = target'[w].line
                         => target[v].header = target'[w].header
  PROVE  IInv'
<1>1. /\ header' = header /\ line' = line /\ ops' = ops /\ plan' = plan /\ default' = default
      /\ mark' = mark /\ clock' = clock /\ used' = used
  BY DEF db
<1>2. TypeOK'
  BY <1>1 DEF IInv, TypeOK
<1>3. TimesOK' /\ LinesOK'
  BY <1>1 DEF IInv, TimesOK, LinesOK
<1>4. ASSUME NEW v \in Workers, v # w
      PROVE  /\ pc'[v] # "idle" => HeaderKnown(v)' /\ SumKnown(v)'
             /\ OfLine(v)' => OfLine(v) /\ LineKnown(v)'
  <2>1. /\ pc'[v] = pc[v] /\ job'[v] = job[v] /\ target'[v] = target[v]
        /\ began'[v] = began[v] /\ sum'[v] = sum[v] /\ first'[v] = first[v]
    BY <1>4
  <2>2. pc'[v] # "idle" => HeaderKnown(v)'
    BY <1>1, <2>1 DEF IInv, WorkersOK, HeaderKnown
  <2>3. pc'[v] # "idle" => SumKnown(v)'
    <3>1. LinesOf(target[v].header)' = LinesOf(target[v].header)
      BY <1>1, <2>1 DEF LinesOf
    <3>2. SumDiff(target[v].header)' = SumDiff(target[v].header)
      BY <1>1, <3>1 DEF SumDiff
    <3>3. QED
      BY <1>1, <2>1, <3>2 DEF IInv, WorkersOK, SumKnown
  <2>4. OfLine(v)' => OfLine(v) /\ LineKnown(v)'
    BY <1>1, <2>1 DEF IInv, WorkersOK, OfLine, LineKnown, ResultAt, OpsOf, Result
  <2>5. QED
    BY <2>2, <2>3, <2>4
<1>5. WorkersOK'
  <2>1. ASSUME NEW u \in Workers, NEW v \in Workers, OfLine(u)', OfLine(v)',
               target'[u].line = target'[v].line
        PROVE  target'[u].header = target'[v].header
    BY <1>4, <2>1 DEF IInv, WorkersOK
  <2>2. QED
    BY <1>4, <2>1 DEF WorkersOK
<1>6. TrailOK' /\ SubmitFreezesTotal' /\ OrphansOnlyByOverlap'
  <2>1. TrailOK'
    BY <1>1 DEF IInv, TrailOK, Explained, Continued, ResultAt, LastOf, OpsOf
  <2>2. OrphansOnlyByOverlap'
    BY <1>1 DEF IInv, OrphansOnlyByOverlap, Present
  <2>3. \A k \in Headers : SumDiff(k)' = SumDiff(k)
    <3>1. ASSUME NEW k \in Headers PROVE SumDiff(k)' = SumDiff(k)
      BY <1>1, SumSame DEF IInv
    <3>2. QED
      BY <3>1
  <2>4. SubmitFreezesTotal'
    BY <1>1, <2>3 DEF IInv, SubmitFreezesTotal
  <2>5. QED
    BY <2>1, <2>2, <2>4
<1>7. QED
  BY <1>2, <1>3, <1>5, <1>6 DEF IInv

LEMMA EndStep ==
  ASSUME IInv, NEW w \in Workers, End(w), UNCHANGED <<db, mark, clock, made, used>>
  PROVE  IInv'
<1>1. /\ pc' \in [Workers -> {"idle", "sum", "write", "erased"}]
      /\ job' \in [Workers -> Requests \union {NoJob}]
      /\ target' \in [Workers -> TargetType]
      /\ began' \in [Workers -> Nat] /\ first' \in [Workers -> Nat] /\ sum' \in [Workers -> Int]
      /\ pc'[w] = "idle" /\ began'[w] = 0 /\ first'[w] = 0
      /\ \A v \in Workers \ {w} : /\ pc'[v] = pc[v] /\ job'[v] = job[v] /\ target'[v] = target[v]
                                  /\ began'[v] = began[v] /\ sum'[v] = sum[v] /\ first'[v] = first[v]
  BY Ended DEF IInv
<1>2. made' \subseteq Requests /\ 0 <= clock
  BY DEF IInv, TypeOK
<1>3. ~OfLine(w)'
  BY <1>1 DEF OfLine
<1>4. QED
  BY <1>1, <1>2, <1>3, OneMoves

(* A handler looks at its header, and at its line.                          *)
LEMMA LookStep ==
  ASSUME IInv, NEW w \in Workers, NEW r \in Requests, NEW h \in Headers, NEW l \in LineIds,
         NEW b \in Int, NEW next \in {"sum", "write"}, Look(w, r, h, l, b, next),
         header[h].status \in Asked(r.kind),
         r.kind = "add" => r.n >= 0,
         next = "sum" <=> r.kind = "submit",
         r.kind \in LineKinds => line[l] # NoLine /\ line[l].header = h /\ Result(r, line[l].actual) >= 0
  PROVE  IInv'
<1> DEFINE t == [header |-> h, line |-> l, seen |-> line[l], book |-> b]
<1>1. /\ pc' = [pc EXCEPT ![w] = next] /\ job' = [job EXCEPT ![w] = r]
      /\ target' = [target EXCEPT ![w] = t] /\ began' = [began EXCEPT ![w] = clock]
      /\ made' = made \union {r}
      /\ UNCHANGED <<db, sum, first, mark, clock, used>>
  BY DEF Look
<1>2. TypeOK
  BY DEF IInv
<1>3. t \in TargetType
  BY <1>2 DEF TypeOK, TargetType
<1>4. t.header = h /\ t.line = l /\ t.seen = line[l]
  OBVIOUS
<1> HIDE DEF t
<1>5. /\ pc' \in [Workers -> {"idle", "sum", "write", "erased"}]
      /\ job' \in [Workers -> Requests \union {NoJob}]
      /\ target' \in [Workers -> TargetType]
      /\ began' \in [Workers -> Nat] /\ first' \in [Workers -> Nat] /\ sum' \in [Workers -> Int]
      /\ made' \subseteq Requests
  BY <1>1, <1>2, <1>3 DEF TypeOK
<1>6. /\ \A v \in Workers \ {w} : /\ pc'[v] = pc[v] /\ job'[v] = job[v] /\ target'[v] = target[v]
                                  /\ began'[v] = began[v] /\ sum'[v] = sum[v] /\ first'[v] = first[v]
      /\ pc'[w] = next /\ job'[w] = r /\ target'[w] = t /\ began'[w] = clock /\ first'[w] = first[w]
  BY <1>1, <1>2 DEF TypeOK
<1>7. /\ header' = header /\ line' = line /\ ops' = ops /\ mark' = mark /\ used' = used /\ clock' = clock
  BY <1>1 DEF db
<1>8. /\ header[h].status \in {"counting", "adjusted", "approved"}
      /\ r.kind # "plan" => header[h].status # "approved"
      /\ r.kind \notin {"approve", "deleteHeader", "plan"} => header[h].status = "counting"
      /\ r.kind = "approve" => header[h].status = "adjusted"
  BY DEF Asked
<1>9. HeaderKnown(w)'
  BY <1>4, <1>6, <1>7, <1>8 DEF HeaderKnown
<1>10. SumKnown(w)'
  BY <1>6 DEF SumKnown
<1>11. ASSUME OfLine(w)'
       PROVE  LineKnown(w)' /\ \A v \in Workers \ {w} :
                OfLine(v) /\ target[v].line = target'[w].line => target[v].header = target'[w].header
  <2>1. r.kind \in LineKinds
    BY <1>6, <1>11 DEF OfLine
  <2>2. line[l] # NoLine /\ line[l].header = h /\ Result(r, line[l].actual) >= 0 /\ l \in used
    BY <2>1 DEF IInv, LinesOK
  <2>3. \A o \in ops : o.line = l => o.header = h
    BY <2>2 DEF IInv, LinesOK
  <2>4. ResultAt(l, clock, line[l].actual)
    <3>1. PICK o \in OpsOf(l) : LastOf(l, o) /\ line[l].actual = o.new
      BY <2>2 DEF IInv, TrailOK, Explained
    <3>2. o.at <= clock
      BY <3>1 DEF IInv, TimesOK, OpsOf
    <3>3. QED
      BY <3>1, <3>2 DEF ResultAt, LastOf
  <2>5. LineKnown(w)'
    BY <1>4, <1>6, <1>7, <2>2, <2>3, <2>4 DEF LineKnown, ResultAt, OpsOf, Result
  <2>6. \A v \in Workers \ {w} : OfLine(v) /\ target[v].line = l => target[v].header = h
    BY <2>2 DEF IInv, WorkersOK, LineKnown
  <2>7. QED
    BY <1>4, <1>6, <2>5, <2>6
<1>12. began'[w] <= clock /\ first'[w] <= clock
  BY <1>2, <1>6 DEF IInv, TimesOK, TypeOK
<1>13. QED
  BY <1>1, <1>5, <1>6, <1>9, <1>10, <1>11, <1>12, OneMoves

LEMMA LookSteps ==
  ASSUME IInv, NEW w \in Workers, NEW r \in Requests
  PROVE  /\ \A h \in Headers : LookAdd(w, r, h) \/ LookHeader(w, r, h) => IInv'
         /\ \A l \in LineIds : LookLine(w, r, l) => IInv'
<1>1. AnyLine \in LineIds
  BY StocktakeAssumption DEF AnyLine
<1>2. ASSUME NEW h \in Headers, LookAdd(w, r, h) PROVE IInv'
  <2>1. PICK b \in Book : Look(w, r, h, AnyLine, b, "write")
    BY <1>2 DEF LookAdd
  <2>2. r.kind = "add" /\ r.n >= 0 /\ header[h].status \in Asked(r.kind) /\ b \in Int
    BY <1>2, StocktakeAssumption DEF LookAdd
  <2>3. QED
    BY <1>1, <2>1, <2>2, LookStep DEF LineKinds
<1>3. ASSUME NEW h \in Headers, LookHeader(w, r, h) PROVE IInv'
  <2>1. /\ r.kind \in {"submit", "approve", "deleteHeader", "plan", "setDefault"}
        /\ header[h].status \in Asked(r.kind)
    BY <1>3 DEF LookHeader
  <2>2. PICK next \in {"sum", "write"} : /\ Look(w, r, h, AnyLine, 0, next)
                                         /\ next = "sum" <=> r.kind = "submit"
    BY <1>3 DEF LookHeader
  <2>3. QED
    BY <1>1, <2>1, <2>2, LookStep DEF LineKinds
<1>4. ASSUME NEW l \in LineIds, LookLine(w, r, l) PROVE IInv'
  <2>1. /\ r.kind \in LineKinds /\ line[l] # NoLine /\ header[line[l].header].status \in Asked(r.kind)
        /\ Result(r, line[l].actual) >= 0
        /\ Look(w, r, line[l].header, l, line[l].book, "write")
    BY <1>4 DEF LookLine, LineKinds
  <2>2. line[l].header \in Headers /\ line[l].book \in Int
    BY <2>1 DEF IInv, TypeOK, LineType
  <2>3. QED
    BY <2>1, <2>2, LookStep DEF LineKinds
<1>5. QED
  BY <1>2, <1>3, <1>4

LEMMA InsertLineStep ==
  ASSUME IInv, NEW w \in Workers, InsertLine(w)
  PROVE  IInv'
<1> DEFINE h == target[w].header
<1>1. /\ pc[w] = "write" /\ job[w].kind = "add" /\ End(w)
      /\ UNCHANGED <<header, plan, default, mark, made>>
  BY DEF InsertLine
<1>2. HeaderKnown(w) /\ TypeOK
  BY <1>1 DEF IInv, WorkersOK
<1>3. CASE ~Present(h)
  <2>1. UNCHANGED <<line, ops, clock, used>>
    BY <1>3 DEF InsertLine
  <2>2. QED
    BY <1>1, <2>1, EndStep DEF db
<1>4. CASE Present(h)
  <2> DEFINE l == NewLine
  <2>1. PICK p \in job[w].items, t \in Stamps(w) :
          /\ LineIds \ used # {}
          /\ line' = [line EXCEPT ![l] = [header |-> h, product |-> p, book |-> target[w].book,
                        actual |-> job[w].n, diff |-> job[w].n - target[w].book]]
          /\ ops' = ops \union {Op(w, l, 0, job[w].n, t)} /\ used' = used \union {l} /\ Tick
    BY <1>4 DEF InsertLine
  <2> DEFINE o == Op(w, l, 0, job[w].n, t)
  <2>2. l \in LineIds /\ l \notin used
    BY <2>1 DEF NewLine
  <2>3. /\ h \in Headers /\ job[w].n \in Int /\ job[w].n >= 0 /\ p \in Products
        /\ target[w].book \in Int /\ began[w] \in Nat /\ clock \in Nat
    BY <1>1, <1>2, StocktakeAssumption DEF HeaderKnown, TypeOK, TargetType
  <2>4. /\ o \in OpType /\ o.header = h /\ o.line = l /\ o.began = began[w] /\ o.at = clock + 1
        /\ began[w] <= o.opAt /\ o.opAt <= clock /\ o.new = job[w].n /\ o.sets
    <3>1. l \in LineIds /\ job[w].n \in Int /\ 0 \in Int /\ h \in Headers
      BY <2>2, <2>3
    <3>2. job[w].kind # "reason"
      BY <1>1
    <3> HIDE DEF l
    <3>3. /\ o \in OpType /\ o.header = h /\ o.line = l
          /\ o.began = began[w] /\ o.at = clock + 1 /\ o.new = job[w].n
          /\ began[w] <= o.opAt /\ o.opAt <= clock
      BY <2>3, <3>1, OpIs
    <3>4. o.sets <=> job[w].kind # "reason"
      BY <2>3, <3>1, OpIs
    <3>5. QED
      BY <3>2, <3>3, <3>4
  <2>7. ops' = ops \union {o}
    BY <2>1
  <2> HIDE DEF l, o
  <2>5. /\ line' \in [LineIds -> LineType] /\ \A k \in LineIds \ {l} : line'[k] = line[k]
        /\ line'[l].header = h /\ line'[l].actual = job[w].n
        /\ line'[l].diff = line'[l].actual - line'[l].book
    BY <1>2, <2>1, <2>2, <2>3 DEF TypeOK, LineType
  <2>6. QED
    BY <1>1, <1>4, <2>1, <2>2, <2>3, <2>4, <2>5, <2>7, OpWritten DEF Tick
<1>5. QED
  BY <1>3, <1>4

LEMMA UpdateLineStep ==
  ASSUME IInv, NEW w \in Workers, UpdateLine(w)
  PROVE  IInv'
<1> DEFINE l == target[w].line
<1> DEFINE prev == target[w].seen.actual
<1> DEFINE new == Result(job[w], prev)
<1>1. /\ pc[w] = "write" /\ job[w].kind \in LineKinds /\ job[w].kind # "add" /\ job[w].kind # "deleteLine"
      /\ End(w) /\ Tick /\ \E t \in Stamps(w) : ops' = ops \union {Op(w, l, prev, new, t)}
      /\ line' = IF line[l] = NoLine \/ job[w].kind = "reason" THEN line
                 ELSE [line EXCEPT ![l].actual = new, ![l].diff = new - target[w].seen.book]
      /\ UNCHANGED <<header, plan, default, mark, made, used>>
  BY DEF UpdateLine, LineKinds
<1>11. PICK t \in Stamps(w) : ops' = ops \union {Op(w, l, prev, new, t)}
  BY <1>1
<1> DEFINE o == Op(w, l, prev, new, t)
<1>2. HeaderKnown(w) /\ LineKnown(w) /\ TypeOK
  BY <1>1 DEF IInv, WorkersOK, OfLine
<1>3. /\ l \in used /\ l \in LineIds /\ target[w].header \in Headers /\ began[w] \in Nat /\ clock \in Nat
      /\ prev \in Int /\ target[w].seen.book \in Int /\ job[w].n \in Int /\ new >= 0
      /\ line[l] \in LineType
  BY <1>2, StocktakeAssumption DEF HeaderKnown, LineKnown, TypeOK, TargetType, LineType
<1>4. new \in Int
  BY <1>3 DEF Result
<1>5. line[l] # NoLine => /\ line[l].header = target[w].header /\ Present(target[w].header)
                          /\ line[l].book = target[w].seen.book
                          /\ line[l].diff = line[l].actual - line[l].book /\ line[l].actual >= 0
  BY <1>2, <1>3 DEF LineKnown, IInv, TrailOK, Explained, OrphansOnlyByOverlap
<1> HIDE DEF l, new
<1>6. /\ o \in OpType /\ o.header = target[w].header /\ o.line = l /\ o.began = began[w]
      /\ o.at = clock + 1 /\ began[w] <= o.opAt /\ o.opAt <= clock
      /\ o.prev = prev /\ o.new = new /\ (o.sets <=> job[w].kind # "reason")
  BY <1>3, <1>4, OpIs
<1>12. ops' = ops \union {o}
  BY <1>11
<1> HIDE DEF o, prev
<1>7. /\ line' \in [LineIds -> LineType] /\ \A k \in LineIds \ {l} : line'[k] = line[k]
      /\ line'[l] # NoLine => line[l] # NoLine /\ line'[l].book = line[l].book
                              /\ line'[l].header = line[l].header
                              /\ line'[l].diff = line'[l].actual - line'[l].book
                              /\ line'[l].actual >= 0
                              /\ (job[w].kind # "reason" => line'[l].actual = new)
                              /\ (job[w].kind = "reason" => line'[l] = line[l])
  <2>1. CASE line[l] = NoLine \/ job[w].kind = "reason"
    BY <1>1, <1>2, <1>5, <2>1 DEF TypeOK
  <2>2. CASE ~(line[l] = NoLine \/ job[w].kind = "reason")
    <3>1. line' = [line EXCEPT ![l].actual = new, ![l].diff = new - target[w].seen.book]
      BY <1>1, <2>2
    <3>2. new - target[w].seen.book \in Int
      BY <1>3, <1>4
    <3>3. /\ line'[l].actual = new /\ line'[l].diff = new - target[w].seen.book
          /\ line'[l].header = line[l].header /\ line'[l].book = line[l].book
          /\ \A k \in LineIds \ {l} : line'[k] = line[k]
          /\ line' \in [LineIds -> LineType]
      BY <1>2, <1>3, <1>4, <3>1, <3>2 DEF TypeOK, LineType
    <3>4. QED
      BY <1>3, <1>5, <2>2, <3>3 DEF new, prev, l
  <2>3. QED
    BY <2>1, <2>2
<1>8. used' = used \union {l} /\ clock' = clock + 1
  BY <1>1, <1>3 DEF Tick
<1>9. target[w].line = l /\ target[w].seen.actual = prev
  BY DEF l, prev
<1>10. QED
  BY <1>1, <1>3, <1>5, <1>6, <1>7, <1>8, <1>9, <1>12, OpWritten

LEMMA DeleteLineStep ==
  ASSUME IInv, NEW w \in Workers, DeleteLine(w)
  PROVE  IInv'
<1> DEFINE l == target[w].line
<1> DEFINE prev == target[w].seen.actual
<1>1. /\ pc[w] = "write" /\ job[w].kind = "deleteLine" /\ job[w].kind \in LineKinds
      /\ End(w) /\ Tick /\ \E t \in Stamps(w) : ops' = ops \union {Op(w, l, prev, 0, t)}
      /\ line' = [line EXCEPT ![l] = NoLine]
      /\ UNCHANGED <<header, plan, default, mark, made, used>>
  BY DEF DeleteLine, LineKinds
<1>11. PICK t \in Stamps(w) : ops' = ops \union {Op(w, l, prev, 0, t)}
  BY <1>1
<1> DEFINE o == Op(w, l, prev, 0, t)
<1>2. HeaderKnown(w) /\ LineKnown(w) /\ TypeOK
  BY <1>1 DEF IInv, WorkersOK, OfLine
<1>3. /\ l \in used /\ l \in LineIds /\ target[w].header \in Headers /\ began[w] \in Nat /\ clock \in Nat
      /\ prev \in Int
  BY <1>2 DEF HeaderKnown, LineKnown, TypeOK, TargetType, LineType
<1>4. NoLine \in LineType
  BY DEF NoLine, LineType
<1>5. /\ o \in OpType /\ o.header = target[w].header /\ o.line = l /\ o.began = began[w]
      /\ o.at = clock + 1 /\ began[w] <= o.opAt /\ o.opAt <= clock /\ o.prev = prev
  BY <1>3, OpIs
<1>12. ops' = ops \union {o}
  BY <1>11
<1> HIDE DEF o, prev, l
<1>6. /\ line' \in [LineIds -> LineType] /\ \A k \in LineIds \ {l} : line'[k] = line[k]
      /\ line'[l] = NoLine
  BY <1>1, <1>2, <1>3, <1>4 DEF TypeOK
<1>7. used' = used \union {l} /\ clock' = clock + 1
  BY <1>1, <1>3 DEF Tick
<1>8. target[w].line = l /\ target[w].seen.actual = prev
  BY DEF l, prev
<1>9. QED
  BY <1>1, <1>3, <1>5, <1>6, <1>7, <1>8, <1>12, OpWritten

LEMMA SumUpStep ==
  ASSUME IInv, NEW w \in Workers, SumUp(w)
  PROVE  IInv'
<1>1. /\ pc[w] = "sum" /\ pc' = [pc EXCEPT ![w] = "write"]
      /\ sum' = [sum EXCEPT ![w] = SumDiff(target[w].header)]
      /\ first' = [first EXCEPT ![w] = clock]
      /\ UNCHANGED <<db, job, target, began, mark, clock, made, used>>
  BY DEF SumUp
<1>2. TypeOK /\ HeaderKnown(w) /\ job[w].kind = "submit"
  BY <1>1 DEF IInv, WorkersOK, HeaderKnown
<1>3. SumDiff(target[w].header) \in Int
  BY <1>2, SumDiffInt
<1>4. /\ pc' \in [Workers -> {"idle", "sum", "write", "erased"}]
      /\ sum' \in [Workers -> Int] /\ first' \in [Workers -> Nat]
      /\ pc'[w] = "write" /\ sum'[w] = SumDiff(target[w].header) /\ first'[w] = clock
      /\ \A v \in Workers \ {w} : pc'[v] = pc[v] /\ sum'[v] = sum[v] /\ first'[v] = first[v]
  <2> HIDE DEF SumDiff
  <2>1. QED
    BY <1>1, <1>2, <1>3 DEF TypeOK
<1>5. /\ header' = header /\ line' = line /\ ops' = ops /\ mark' = mark /\ clock' = clock
      /\ job' = job /\ target' = target /\ began' = began
  BY <1>1 DEF db
<1>6. HeaderKnown(w)'
  BY <1>1, <1>2, <1>4, <1>5 DEF HeaderKnown
<1>7. SumKnown(w)'
  <2>1. LinesOf(target[w].header)' = LinesOf(target[w].header)
    BY <1>5 DEF LinesOf
  <2>2. SumDiff(target[w].header)' = SumDiff(target[w].header)
    BY <1>5, <2>1 DEF SumDiff
  <2>3. QED
    BY <1>4, <2>2 DEF SumKnown
<1>8. ~OfLine(w)'
  BY <1>2, <1>5 DEF OfLine, LineKinds
<1>9. /\ job' \in [Workers -> Requests \union {NoJob}] /\ target' \in [Workers -> TargetType]
      /\ began' \in [Workers -> Nat] /\ made' \subseteq Requests
      /\ began'[w] <= clock /\ first'[w] <= clock
  BY <1>1, <1>2, <1>4 DEF IInv, TimesOK, TypeOK
<1>10. QED
  BY <1>1, <1>4, <1>5, <1>6, <1>7, <1>8, <1>9, OneMoves

LEMMA EraseChildrenStep ==
  ASSUME IInv, NEW w \in Workers, EraseChildren(w)
  PROVE  IInv'
<1>1. /\ pc[w] = "write" /\ job[w].kind = "deleteHeader" /\ pc' = [pc EXCEPT ![w] = "erased"]
      /\ first' = [first EXCEPT ![w] = clock]
      /\ UNCHANGED <<db, job, target, began, sum, mark, clock, made, used>>
  BY DEF EraseChildren
<1>2. TypeOK /\ HeaderKnown(w)
  BY <1>1 DEF IInv, WorkersOK
<1>3. /\ pc' \in [Workers -> {"idle", "sum", "write", "erased"}]
      /\ first' \in [Workers -> Nat] /\ pc'[w] = "erased" /\ first'[w] = clock
      /\ \A v \in Workers \ {w} : pc'[v] = pc[v] /\ first'[v] = first[v]
  BY <1>1, <1>2 DEF TypeOK
<1>4. /\ header' = header /\ mark' = mark /\ clock' = clock
      /\ job' = job /\ target' = target /\ began' = began /\ sum' = sum
  BY <1>1 DEF db
<1>5. HeaderKnown(w)' /\ SumKnown(w)'
  BY <1>1, <1>2, <1>3, <1>4 DEF HeaderKnown, SumKnown
<1>6. ~OfLine(w)'
  BY <1>1, <1>4 DEF OfLine, LineKinds
<1>7. /\ job' \in [Workers -> Requests \union {NoJob}] /\ target' \in [Workers -> TargetType]
      /\ began' \in [Workers -> Nat] /\ made' \subseteq Requests /\ sum' \in [Workers -> Int]
      /\ began'[w] <= clock /\ first'[w] <= clock
  BY <1>1, <1>2, <1>3, <1>4 DEF IInv, TimesOK, TypeOK
<1>8. QED
  BY <1>1, <1>3, <1>4, <1>5, <1>6, <1>7, OneMoves

(* Status and marks of a header are written, everything else stays.         *)
LEMMA HeaderWritten ==
  ASSUME IInv, NEW w \in Workers, pc[w] = "write", End(w), clock' = clock + 1,
         NEW s \in {"adjusted", "approved"}, NEW total \in Int, NEW m \in MarkType,
         Present(target[w].header),
         header' = [header EXCEPT ![target[w].header] = [status |-> s, total |-> total]],
         mark' = [mark EXCEPT ![target[w].header] = m],
         m.summed <= clock, m.erased <= clock,
         m.erased = mark[target[w].header].erased, m.deleted = mark[target[w].header].deleted,
         \A v \in Workers \ {w} : pc[v] # "idle" /\ target[v].header = target[w].header =>
              /\ s = "approved" => began[v] < m.approved
              /\ job[v].kind \notin {"approve", "deleteHeader", "plan"} => began[v] < m.submitted,
         \A o \in ops : o.header = target[w].header => o.began < m.submitted,
         (\A o \in ops : o.header = target[w].header => o.at <= m.summed)
           => total = SumDiff(target[w].header),
         UNCHANGED <<line, ops, plan, default, made, used>>
  PROVE  IInv'
<1> DEFINE h == target[w].header
<1>1. TypeOK /\ HeaderKnown(w) /\ h \in Headers
  BY DEF IInv, WorkersOK, HeaderKnown
<1>2. /\ header' \in [Headers -> [status : {"none", "counting", "adjusted", "approved", "deleted"},
                                  total : Int]]
      /\ mark' \in [Headers -> MarkType]
      /\ header'[h].status = s /\ header'[h].total = total /\ mark'[h] = m
      /\ \A k \in Headers \ {h} : header'[k] = header[k] /\ mark'[k] = mark[k]
  BY <1>1 DEF TypeOK
<1>3. /\ pc' \in [Workers -> {"idle", "sum", "write", "erased"}]
      /\ job' \in [Workers -> Requests \union {NoJob}]
      /\ target' \in [Workers -> TargetType]
      /\ began' \in [Workers -> Nat] /\ first' \in [Workers -> Nat] /\ sum' \in [Workers -> Int]
      /\ pc'[w] = "idle" /\ began'[w] = 0 /\ first'[w] = 0
      /\ \A v \in Workers \ {w} : /\ pc'[v] = pc[v] /\ job'[v] = job[v] /\ target'[v] = target[v]
                                  /\ began'[v] = began[v] /\ sum'[v] = sum[v] /\ first'[v] = first[v]
  BY <1>1, Ended
<1>4. TypeOK'
  BY <1>1, <1>2, <1>3 DEF TypeOK
<1>5. TimesOK' /\ LinesOK'
  <2>1. clock \in Nat
    BY <1>1 DEF TypeOK
  <2>2. /\ \A q \in ops : q.began <= clock' /\ q.at <= clock'
        /\ \A i \in plan : i.began <= clock'
        /\ default.began <= clock'
    BY <1>1, <2>1 DEF IInv, TimesOK, TypeOK, OpType, NoDefault
  <2>3. \A k \in Headers : mark'[k].erased <= clock' /\ mark'[k].summed <= clock'
    BY <1>1, <1>2, <2>1 DEF IInv, TimesOK, TypeOK, MarkType
  <2>4. \A v \in Workers : began'[v] <= clock' /\ first'[v] <= clock'
    BY <1>1, <1>3, <2>1 DEF IInv, TimesOK, TypeOK
  <2>5. QED
    BY <2>2, <2>3, <2>4 DEF IInv, TimesOK, LinesOK
<1>6. \A k \in Headers : SumDiff(k)' = SumDiff(k)
  <2>1. ASSUME NEW k \in Headers PROVE SumDiff(k)' = SumDiff(k)
    BY <1>1, SumSame
  <2>2. QED
    BY <2>1
<1>7. ASSUME NEW v \in Workers, pc'[v] # "idle"
      PROVE  HeaderKnown(v)' /\ SumKnown(v)'
  <2>1. v # w /\ pc[v] # "idle" /\ HeaderKnown(v) /\ SumKnown(v)
    BY <1>3, <1>7 DEF IInv, WorkersOK
  <2>2. /\ pc'[v] = pc[v] /\ job'[v] = job[v] /\ target'[v] = target[v]
        /\ began'[v] = began[v] /\ sum'[v] = sum[v] /\ first'[v] = first[v]
        /\ target[v].header \in Headers
    BY <1>3, <2>1 DEF HeaderKnown
  <2>3. HeaderKnown(v)'
    <3>1. CASE target[v].header = h
      BY <1>2, <2>1, <2>2, <3>1 DEF HeaderKnown
    <3>2. CASE target[v].header # h
      BY <1>2, <2>1, <2>2, <3>2 DEF HeaderKnown
    <3>3. QED
      BY <3>1, <3>2
  <2>4. SumKnown(v)'
    <3>1. LinesOf(target[v].header)' = LinesOf(target[v].header)
      BY <2>2 DEF LinesOf
    <3>2. SumDiff(target[v].header)' = SumDiff(target[v].header)
      BY <3>1 DEF SumDiff
    <3>3. header'[target[v].header].status # "deleted" => header[target[v].header].status # "deleted"
      BY <1>2, <2>2 DEF Present
    <3>4. QED
      BY <2>1, <2>2, <3>2, <3>3 DEF SumKnown
  <2>5. QED
    BY <2>3, <2>4
<1>8. ASSUME NEW v \in Workers, OfLine(v)'
      PROVE  OfLine(v) /\ v # w /\ LineKnown(v)'
  <2>1. v # w /\ OfLine(v) /\ LineKnown(v)
    BY <1>3, <1>8 DEF IInv, WorkersOK, OfLine
  <2>2. target'[v] = target[v] /\ job'[v] = job[v] /\ began'[v] = began[v]
    BY <1>3, <2>1
  <2>3. QED
    BY <2>1, <2>2 DEF LineKnown, ResultAt, OpsOf, Result
<1>9. WorkersOK'
  <2>1. ASSUME NEW u \in Workers, NEW v \in Workers, OfLine(u)', OfLine(v)',
               target'[u].line = target'[v].line
        PROVE  target'[u].header = target'[v].header
    BY <1>3, <1>8, <2>1 DEF IInv, WorkersOK
  <2>2. QED
    BY <1>7, <1>8, <2>1 DEF WorkersOK
<1>10. TrailOK'
  BY DEF IInv, TrailOK, Explained, Continued, ResultAt, LastOf, OpsOf
<1>11. SubmitFreezesTotal'
  <2>1. ASSUME NEW k \in Headers, header'[k].status \in {"adjusted", "approved"}
        PROVE  /\ \A q \in ops : q.header = k => q.began < mark'[k].submitted
               /\ (\A q \in ops : q.header = k => q.at <= mark'[k].summed) => header'[k].total = SumDiff(k)'
    <3>1. SumDiff(k)' = SumDiff(k)
      BY <1>6
    <3>2. CASE k = h
      BY <1>2, <3>1, <3>2
    <3>3. CASE k # h
      BY <1>2, <2>1, <3>1, <3>3 DEF IInv, SubmitFreezesTotal
    <3>4. QED
      BY <3>2, <3>3
  <2>2. QED
    BY <2>1 DEF SubmitFreezesTotal
<1>12. OrphansOnlyByOverlap'
  <2>1. \A k \in Headers : /\ Present(k) => Present(k)'
                           /\ mark'[k].erased = mark[k].erased /\ mark'[k].deleted = mark[k].deleted
    BY <1>2 DEF Present
  <2>2. /\ \A o \in ops : o.header \in Headers
        /\ \A i \in plan : i.header \in Headers
        /\ default # NoDefault => default.header \in Headers
        /\ \A l \in LineIds : line[l] # NoLine => line[l].header \in Headers
    BY <1>1 DEF TypeOK, OpType, LineType
  <2>3. QED
    BY <2>1, <2>2 DEF IInv, OrphansOnlyByOverlap, Present
<1>13. QED
  BY <1>4, <1>5, <1>9, <1>10, <1>11, <1>12 DEF IInv

LEMMA SubmitStep ==
  ASSUME IInv, NEW w \in Workers, Submit(w)
  PROVE  IInv'
<1> DEFINE h == target[w].header
<1>1. pc[w] = "write" /\ job[w].kind = "submit" /\ End(w)
      /\ UNCHANGED <<line, ops, plan, default, made, used>>
  BY DEF Submit
<1>2. TypeOK /\ HeaderKnown(w) /\ SumKnown(w) /\ h \in Headers
  BY <1>1 DEF IInv, WorkersOK, HeaderKnown
<1>3. CASE ~Present(h)
  <2>1. UNCHANGED <<header, mark, clock>>
    BY <1>3 DEF Submit
  <2>2. QED
    BY <1>1, <2>1, EndStep DEF db
<1>4. CASE Present(h)
  <2> DEFINE m == [mark[h] EXCEPT !.summed = first[w], !.submitted = clock + 1]
  <2>1. /\ header' = [header EXCEPT ![h] = [status |-> "adjusted", total |-> sum[w]]]
        /\ mark' = [mark EXCEPT ![h].summed = first[w], ![h].submitted = clock + 1]
        /\ clock' = clock + 1
    BY <1>4 DEF Submit, Tick
  <2>2. /\ mark[h] \in MarkType /\ first[w] \in Nat /\ clock \in Nat /\ sum[w] \in Int
        /\ first[w] <= clock /\ mark[h].erased <= clock
    BY <1>2 DEF TypeOK, IInv, TimesOK
  <2>3. /\ m \in MarkType /\ m.summed = first[w] /\ m.submitted = clock + 1
        /\ m.erased = mark[h].erased /\ m.deleted = mark[h].deleted
    <3>1. clock + 1 \in Nat
      BY <2>2
    <3>2. QED
      BY <2>2, <3>1 DEF MarkType
  <2>4. mark' = [mark EXCEPT ![h] = m]
    BY <1>2, <2>1 DEF TypeOK
  <2> HIDE DEF m
  <2>5. \A v \in Workers \ {w} : began[v] < m.submitted
    BY <1>2, <2>2, <2>3 DEF IInv, TimesOK, TypeOK
  <2>6. \A o \in ops : o.header = h => o.began < m.submitted
    BY <1>2, <2>2, <2>3 DEF IInv, TimesOK, TypeOK, OpType
  <2>7. (\A o \in ops : o.header = h => o.at <= m.summed) => sum[w] = SumDiff(h)
    BY <1>1, <1>2, <1>4, <2>3 DEF SumKnown, Present
  <2>8. QED
    BY <1>1, <1>4, <2>1, <2>2, <2>3, <2>4, <2>5, <2>6, <2>7, HeaderWritten
<1>5. QED
  BY <1>3, <1>4

LEMMA ApproveStep ==
  ASSUME IInv, NEW w \in Workers, Approve(w)
  PROVE  IInv'
<1> DEFINE h == target[w].header
<1>1. pc[w] = "write" /\ job[w].kind = "approve" /\ End(w)
      /\ UNCHANGED <<line, ops, plan, default, made, used>>
  BY DEF Approve
<1>2. TypeOK /\ HeaderKnown(w) /\ h \in Headers
  BY <1>1 DEF IInv, WorkersOK, HeaderKnown
<1>3. CASE ~Present(h)
  <2>1. UNCHANGED <<header, mark, clock>>
    BY <1>3 DEF Approve
  <2>2. QED
    BY <1>1, <2>1, EndStep DEF db
<1>4. CASE Present(h)
  <2> DEFINE m == [mark[h] EXCEPT !.approved = clock + 1]
  <2> DEFINE t == header[h].total
  <2>1. /\ header' = [header EXCEPT ![h].status = "approved"]
        /\ mark' = [mark EXCEPT ![h].approved = clock + 1]
        /\ clock' = clock + 1
    BY <1>4 DEF Approve, Tick
  <2>2. /\ mark[h] \in MarkType /\ clock \in Nat /\ t \in Int
        /\ mark[h].summed <= clock /\ mark[h].erased <= clock
        /\ header[h].status \in {"adjusted", "approved"}
    BY <1>1, <1>2, <1>4 DEF TypeOK, IInv, TimesOK, HeaderKnown, Present
  <2>3. /\ m \in MarkType /\ m.summed = mark[h].summed /\ m.submitted = mark[h].submitted
        /\ m.approved = clock + 1 /\ m.erased = mark[h].erased /\ m.deleted = mark[h].deleted
    BY <2>2 DEF MarkType
  <2>4. mark' = [mark EXCEPT ![h] = m]
    BY <1>2, <2>1 DEF TypeOK
  <2>5. header' = [header EXCEPT ![h] = [status |-> "approved", total |-> t]]
    <3> DEFINE hd == [header[h] EXCEPT !.status = "approved"]
    <3>1. header' = [header EXCEPT ![h] = hd]
      BY <1>2, <2>1 DEF TypeOK
    <3>2. header[h] \in [status : {"none", "counting", "adjusted", "approved", "deleted"}, total : Int]
      BY <1>2 DEF TypeOK
    <3>3. hd = [status |-> "approved", total |-> t]
      BY <3>2
    <3>4. QED
      BY <3>1, <3>3
  <2> HIDE DEF m, t
  <2>6. \A v \in Workers \ {w} : began[v] < m.approved
    BY <1>2, <2>2, <2>3 DEF IInv, TimesOK, TypeOK
  <2>7. \A v \in Workers \ {w} :
          pc[v] # "idle" /\ target[v].header = h /\ job[v].kind \notin {"approve", "deleteHeader", "plan"}
          => began[v] < m.submitted
    BY <2>2, <2>3 DEF IInv, WorkersOK, HeaderKnown
  <2>8. /\ \A o \in ops : o.header = h => o.began < m.submitted
        /\ (\A o \in ops : o.header = h => o.at <= m.summed) => t = SumDiff(h)
    BY <1>2, <2>2, <2>3 DEF IInv, SubmitFreezesTotal, t
  <2>9. QED
    BY <1>1, <1>4, <2>1, <2>2, <2>3, <2>4, <2>5, <2>6, <2>7, <2>8, HeaderWritten
<1>5. QED
  BY <1>3, <1>4

-----------------------------------------------------------------------------
(* Headers, lines and operations stay as they are.                          *)
LEMMA WorkersSame ==
  ASSUME IInv, UNCHANGED <<line, ops, mark, used>>,
         \A h \in Headers : header'[h] = header[h] \/ header[h].status = "none",
         \A v \in Workers : \/ pc'[v] = "idle"
                            \/ /\ pc'[v] = pc[v] /\ job'[v] = job[v] /\ target'[v] = target[v]
                               /\ began'[v] = began[v] /\ sum'[v] = sum[v] /\ first'[v] = first[v]
  PROVE  /\ WorkersOK' /\ LinesOK' /\ TrailOK'
         /\ \A h \in Headers : SumDiff(h)' = SumDiff(h)
<1>1. ASSUME NEW v \in Workers, pc'[v] # "idle"
      PROVE  /\ HeaderKnown(v)' /\ SumKnown(v)'
             /\ OfLine(v)' => OfLine(v) /\ LineKnown(v)'
             /\ target'[v] = target[v]
  <2>1. /\ pc[v] # "idle" /\ HeaderKnown(v) /\ SumKnown(v)
        /\ pc'[v] = pc[v] /\ job'[v] = job[v] /\ target'[v] = target[v]
        /\ began'[v] = began[v] /\ sum'[v] = sum[v] /\ first'[v] = first[v]
    BY <1>1 DEF IInv, WorkersOK
  <2>2. target[v].header \in Headers /\ header'[target[v].header] = header[target[v].header]
    BY <2>1 DEF HeaderKnown
  <2>3. HeaderKnown(v)'
    BY <2>1, <2>2 DEF HeaderKnown
  <2>4. SumKnown(v)'
    <3>1. LinesOf(target[v].header)' = LinesOf(target[v].header)
      BY <2>1 DEF LinesOf
    <3>2. SumDiff(target[v].header)' = SumDiff(target[v].header)
      BY <3>1 DEF SumDiff
    <3>3. QED
      BY <2>1, <2>2, <3>2 DEF SumKnown
  <2>5. OfLine(v)' => OfLine(v) /\ LineKnown(v)'
    BY <2>1 DEF IInv, WorkersOK, OfLine, LineKnown, ResultAt, OpsOf, Result
  <2>6. QED
    BY <2>1, <2>3, <2>4, <2>5
<1>2. WorkersOK'
  <2>1. \A v \in Workers : OfLine(v)' => pc'[v] # "idle"
    BY DEF OfLine
  <2>2. ASSUME NEW u \in Workers, NEW v \in Workers, OfLine(u)', OfLine(v)',
               target'[u].line = target'[v].line
        PROVE  target'[u].header = target'[v].header
    BY <1>1, <2>1, <2>2 DEF IInv, WorkersOK
  <2>3. QED
    BY <1>1, <2>1, <2>2 DEF WorkersOK
<1>3. LinesOK' /\ TrailOK'
  BY DEF IInv, LinesOK, TrailOK, Explained, Continued, ResultAt, LastOf, OpsOf
<1>4. ASSUME NEW h \in Headers PROVE SumDiff(h)' = SumDiff(h)
  BY SumSame DEF IInv
<1>5. QED
  BY <1>2, <1>3, <1>4

Overlapped(x) == Present(x.header) \/ /\ x.began < mark[x.header].deleted
                                      /\ x.at > mark[x.header].erased

(* Plan items or the default are written, or a header is created.           *)
LEMMA ReferenceWritten ==
  ASSUME IInv, UNCHANGED <<line, ops, mark, made, used>>,
         \A h \in Headers : \/ header'[h] = header[h]
                            \/ header[h].status = "none" /\ header'[h].status = "counting",
         header' \in [Headers -> [status : {"none", "counting", "adjusted", "approved", "deleted"},
                                  total : Int]],
         \A v \in Workers : \/ pc'[v] = "idle" /\ began'[v] = 0 /\ first'[v] = 0
                            \/ /\ pc'[v] = pc[v] /\ job'[v] = job[v] /\ target'[v] = target[v]
                               /\ began'[v] = began[v] /\ sum'[v] = sum[v] /\ first'[v] = first[v],
         pc' \in [Workers -> {"idle", "sum", "write", "erased"}],
         job' \in [Workers -> Requests \union {NoJob}],
         target' \in [Workers -> TargetType],
         began' \in [Workers -> Nat], first' \in [Workers -> Nat], sum' \in [Workers -> Int],
         clock' \in {clock, clock + 1},
         plan' \subseteq [header : Headers, product : Products, began : Nat, at : Nat],
         \A i, j \in plan' : i.header = j.header /\ i.product = j.product => i = j,
         default' \in [header : Headers, began : Nat, at : Nat] \union {NoDefault},
         \A i \in plan' \ plan : i.began <= clock /\ Overlapped(i),
         default' = default \/ (default'.began <= clock /\ Overlapped(default')) \/ default' = NoDefault
  PROVE  IInv'
<1>1. TypeOK /\ clock \in Nat
  BY DEF IInv, TypeOK
<1>2. /\ WorkersOK' /\ LinesOK' /\ TrailOK'
      /\ \A h \in Headers : SumDiff(h)' = SumDiff(h)
  BY WorkersSame
<1>3. TypeOK'
  BY <1>1 DEF TypeOK
<1>4. TimesOK'
  <2>0. clock' \in Nat /\ clock <= clock'
    BY <1>1
  <2>1. \A q \in ops : q.began <= clock' /\ q.at <= clock'
    <3>1. \A q \in ops : q.began \in Nat /\ q.at \in Nat /\ q.began <= clock /\ q.at <= clock
      BY <1>1 DEF IInv, TimesOK, TypeOK, OpType
    <3>2. QED
      BY <1>1, <2>0, <3>1
  <2>2. \A i \in plan' : i.began <= clock'
    <3>1. \A i \in plan' : i.began \in Nat
      OBVIOUS
    <3>2. \A i \in plan' : i.began <= clock
      BY DEF IInv, TimesOK
    <3>3. QED
      BY <1>1, <2>0, <3>1, <3>2
  <2>3. \A k \in Headers : mark[k].erased <= clock' /\ mark[k].summed <= clock'
    <3>1. \A k \in Headers : /\ mark[k].erased \in Nat /\ mark[k].summed \in Nat
                             /\ mark[k].erased <= clock /\ mark[k].summed <= clock
      BY <1>1 DEF IInv, TimesOK, TypeOK, MarkType
    <3>2. QED
      BY <1>1, <2>0, <3>1
  <2>4. default'.began <= clock'
    BY <1>1, <1>3 DEF IInv, TimesOK, TypeOK, NoDefault
  <2>5. \A v \in Workers : began'[v] <= clock' /\ first'[v] <= clock'
    BY <1>1 DEF IInv, TimesOK, TypeOK
  <2>6. QED
    BY <2>1, <2>2, <2>3, <2>4, <2>5 DEF IInv, TimesOK
<1>5. SubmitFreezesTotal'
  <2>1. \A h \in Headers : header'[h].status \in {"adjusted", "approved"} => header'[h] = header[h]
    OBVIOUS
  <2>2. QED
    BY <1>2, <2>1 DEF IInv, SubmitFreezesTotal
<1>6. OrphansOnlyByOverlap'
  <2>1. \A k \in Headers : Present(k) => Present(k)'
    BY DEF Present
  <2>2. /\ \A o \in ops : o.header \in Headers
        /\ \A i \in plan' : i.header \in Headers
        /\ default' # NoDefault => default'.header \in Headers
        /\ \A l \in LineIds : line[l] # NoLine => line[l].header \in Headers
    BY <1>1 DEF TypeOK, OpType, LineType
  <2>3. /\ \A o \in ops : Overlapped(o)
        /\ \A i \in plan' : Overlapped(i)
        /\ default' # NoDefault => Overlapped(default')
        /\ \A l \in LineIds : line[l] # NoLine => Present(line[l].header)
    BY DEF IInv, OrphansOnlyByOverlap, Overlapped
  <2>4. QED
    BY <2>1, <2>2, <2>3 DEF OrphansOnlyByOverlap, Overlapped, Present
<1>7. QED
  BY <1>2, <1>3, <1>4, <1>5, <1>6 DEF IInv

LEMMA AddPlanItemsStep ==
  ASSUME IInv, NEW w \in Workers, AddPlanItems(w)
  PROVE  IInv'
<1> DEFINE h == target[w].header
<1> DEFINE there == {i \in plan : i.header = h /\ i.product \in job[w].items}
<1> DEFINE more == {[header |-> h, product |-> p, began |-> began[w], at |-> clock + 1] : p \in job[w].items}
<1>1. /\ pc[w] = "write" /\ job[w].kind = "plan" /\ End(w)
      /\ UNCHANGED <<header, line, ops, default, mark, made, used>>
      /\ \/ there = {} /\ plan' = plan \union more /\ clock' = clock + 1
         \/ UNCHANGED <<plan, clock>>
  BY DEF AddPlanItems, Tick
<1>2. HeaderKnown(w) /\ TypeOK
  BY <1>1 DEF IInv, WorkersOK
<1>3. CASE UNCHANGED <<plan, clock>>
  BY <1>1, <1>3, EndStep DEF db
<1>4. CASE there = {} /\ plan' = plan \union more /\ clock' = clock + 1
  <2>1. /\ h \in Headers /\ job[w].items \subseteq Products /\ began[w] \in Nat /\ clock \in Nat
        /\ began[w] <= clock
    BY <1>2, StocktakeAssumption DEF HeaderKnown, TypeOK, IInv, TimesOK
  <2>2. \A i \in more : /\ i \in [header : Headers, product : Products, began : Nat, at : Nat]
                        /\ i.header = h /\ i.product \in job[w].items
                        /\ i.began = began[w] /\ i.at = clock + 1
    BY <2>1
  <2>3. \A i, j \in more : i.product = j.product => i = j
    OBVIOUS
  <2>4. \A i \in plan, j \in more : ~(i.header = j.header /\ i.product = j.product)
    BY <1>4, <2>2
  <2>5. Present(h) \/ (began[w] < mark[h].deleted /\ clock + 1 > mark[h].erased)
    BY <1>2, <2>1 DEF HeaderKnown, Present, IInv, TimesOK, TypeOK, MarkType
  <2> HIDE DEF more
  <2>6. \A i \in plan' \ plan : i.began <= clock /\ Overlapped(i)
    BY <1>4, <2>1, <2>2, <2>5 DEF Overlapped
  <2>7. /\ plan' \subseteq [header : Headers, product : Products, began : Nat, at : Nat]
        /\ \A i, j \in plan' : i.header = j.header /\ i.product = j.product => i = j
    BY <1>2, <1>4, <2>2, <2>3, <2>4 DEF TypeOK
  <2>8. /\ header' \in [Headers -> [status : {"none", "counting", "adjusted", "approved", "deleted"},
                                    total : Int]]
        /\ default' \in [header : Headers, began : Nat, at : Nat] \union {NoDefault}
    BY <1>1, <1>2 DEF TypeOK
  <2>9. QED
    BY <1>1, <1>2, <1>4, <2>6, <2>7, <2>8, Ended, ReferenceWritten
<1>5. QED
  BY <1>1, <1>3, <1>4

LEMMA SetDefaultStep ==
  ASSUME IInv, NEW w \in Workers, SetDefault(w)
  PROVE  IInv'
<1> DEFINE h == target[w].header
<1>1. /\ pc[w] = "write" /\ job[w].kind = "setDefault" /\ End(w)
      /\ default' = [header |-> h, began |-> began[w], at |-> clock + 1] /\ clock' = clock + 1
      /\ UNCHANGED <<header, line, ops, plan, mark, made, used>>
  BY DEF SetDefault, Tick
<1>2. HeaderKnown(w) /\ TypeOK
  BY <1>1 DEF IInv, WorkersOK
<1>3. h \in Headers /\ began[w] \in Nat /\ clock \in Nat /\ began[w] <= clock
  BY <1>2 DEF HeaderKnown, TypeOK, IInv, TimesOK
<1>4. Present(h) \/ (began[w] < mark[h].deleted /\ clock + 1 > mark[h].erased)
  BY <1>2, <1>3 DEF HeaderKnown, Present, IInv, TimesOK, TypeOK, MarkType
<1>5. /\ default' \in [header : Headers, began : Nat, at : Nat]
      /\ default'.began <= clock /\ Overlapped(default')
  BY <1>1, <1>3, <1>4 DEF Overlapped
<1>6. /\ header' \in [Headers -> [status : {"none", "counting", "adjusted", "approved", "deleted"},
                                  total : Int]]
      /\ plan' \subseteq [header : Headers, product : Products, began : Nat, at : Nat]
      /\ \A i, j \in plan' : i.header = j.header /\ i.product = j.product => i = j
  BY <1>1, <1>2 DEF TypeOK
<1>7. QED
  BY <1>1, <1>2, <1>5, <1>6, Ended, ReferenceWritten

LEMMA DeletePlanItemStep ==
  ASSUME IInv, NEW i \in plan, DeletePlanItem(i)
  PROVE  IInv'
<1>1. plan' = plan \ {i} /\ UNCHANGED <<header, line, ops, default, own, mark, clock, made, used>>
  BY DEF DeletePlanItem
<1>2. TypeOK
  BY DEF IInv
<1>3. UNCHANGED <<pc, job, target, began, sum, first>>
  BY <1>1 DEF own
<1>4. /\ TypeOK' /\ plan' \subseteq plan
  BY <1>1, <1>2, <1>3 DEF TypeOK
<1>5. QED
  BY <1>1, <1>3, <1>4, ReferenceWritten DEF TypeOK

LEMMA CreateHeaderStep ==
  ASSUME IInv, NEW h \in Headers, CreateHeader(h)
  PROVE  IInv'
<1>1. /\ header[h].status = "none" /\ header' = [header EXCEPT ![h].status = "counting"]
      /\ UNCHANGED <<line, ops, plan, default, own, mark, clock, made, used>>
  BY DEF CreateHeader
<1>2. UNCHANGED <<pc, job, target, began, sum, first>>
  BY <1>1 DEF own
<1>3. TypeOK
  BY DEF IInv
<1>4. /\ header' \in [Headers -> [status : {"none", "counting", "adjusted", "approved", "deleted"},
                                  total : Int]]
      /\ \A k \in Headers : \/ header'[k] = header[k]
                            \/ header[k].status = "none" /\ header'[k].status = "counting"
  BY <1>1, <1>3 DEF TypeOK
<1>5. QED
  BY <1>1, <1>2, <1>3, <1>4, ReferenceWritten DEF TypeOK

-----------------------------------------------------------------------------
(* A deletion of h takes with it what refers to h and is older than ...     *)
Stays(w, x) == x.header # target[w].header \/ x.at > first[w]

LEMMA HeaderGone ==
  ASSUME IInv, NEW w \in Workers, NEW h \in Headers, h = target[w].header, End(w),
         ops' = {o \in ops : Stays(w, o)},
         plan' = {i \in plan : Stays(w, i)},
         default' = IF Stays(w, default) THEN default ELSE NoDefault,
         line' = [l \in LineIds |-> IF line[l].header = h THEN NoLine ELSE line[l]],
         UNCHANGED <<made, used>>,
         header' \in [Headers -> [status : {"none", "counting", "adjusted", "approved", "deleted"},
                                  total : Int]],
         mark' \in [Headers -> MarkType],
         \A k \in Headers \ {h} : header'[k] = header[k] /\ mark'[k] = mark[k],
         header'[h].status = "deleted",
         clock' \in {clock, clock + 1},
         mark'[h].erased <= clock, mark'[h].summed <= clock,
         \A v \in Workers \ {w} : pc[v] # "idle" /\ target[v].header = h => began[v] < mark'[h].deleted,
         \A o \in ops' : o.header = h => o.began < mark'[h].deleted /\ o.at > mark'[h].erased,
         \A i \in plan' : i.header = h => i.began < mark'[h].deleted /\ i.at > mark'[h].erased,
         default' # NoDefault /\ default'.header = h
           => default'.began < mark'[h].deleted /\ default'.at > mark'[h].erased
  PROVE  IInv'
<1>1. TypeOK /\ clock \in Nat /\ clock' \in Nat /\ clock <= clock' /\ first[w] \in Nat
  BY DEF IInv, TypeOK
<1>2. /\ NoLine \in LineType /\ NoLine.header = NoHeader /\ NoHeader \notin Headers
  BY StocktakeAssumption DEF NoLine, LineType
<1>3. /\ pc' \in [Workers -> {"idle", "sum", "write", "erased"}]
      /\ job' \in [Workers -> Requests \union {NoJob}]
      /\ target' \in [Workers -> TargetType]
      /\ began' \in [Workers -> Nat] /\ first' \in [Workers -> Nat] /\ sum' \in [Workers -> Int]
      /\ pc'[w] = "idle" /\ began'[w] = 0 /\ first'[w] = 0
      /\ \A v \in Workers \ {w} : /\ pc'[v] = pc[v] /\ job'[v] = job[v] /\ target'[v] = target[v]
                                  /\ began'[v] = began[v] /\ sum'[v] = sum[v] /\ first'[v] = first[v]
  BY <1>1, Ended
<1>4. /\ line' \in [LineIds -> LineType]
      /\ \A l \in LineIds : line'[l] # NoLine => line'[l] = line[l] /\ line[l].header # h
      /\ \A l \in LineIds : line'[l] = line[l] \/ (line[l].header = h /\ line'[l] = NoLine)
  <2>1. \A l \in LineIds : line'[l] = IF line[l].header = h THEN NoLine ELSE line[l]
    OBVIOUS
  <2>2. \A l \in LineIds : line[l] \in LineType
    BY <1>1 DEF TypeOK
  <2>3. line' \in [LineIds -> LineType]
    BY <1>2, <2>2
  <2>4. ASSUME NEW l \in LineIds
        PROVE  /\ line'[l] # NoLine => line'[l] = line[l] /\ line[l].header # h
               /\ line'[l] = line[l] \/ (line[l].header = h /\ line'[l] = NoLine)
    <3>1. CASE line[l].header = h
      <4>1. line'[l] = NoLine
        BY <2>1, <3>1
      <4>2. QED
        BY <3>1, <4>1
    <3>2. CASE line[l].header # h
      <4>1. line'[l] = line[l]
        BY <2>1, <3>2
      <4>2. QED
        BY <3>2, <4>1
    <3>3. QED
      BY <3>1, <3>2
  <2>5. QED
    BY <2>3, <2>4, Zenon
<1>5. TypeOK'
  <2>1. \A l \in LineIds : line'[l].header = NoHeader <=> line'[l] = NoLine
    BY <1>1, <1>2, <1>4 DEF TypeOK
  <2>2. default' \in [header : Headers, began : Nat, at : Nat] \union {NoDefault}
    BY <1>1 DEF TypeOK
  <2>3. QED
    BY <1>1, <1>3, <1>4, <2>1, <2>2 DEF TypeOK
<1>6. TimesOK'
  <2>1. \A q \in ops' : q.began <= q.opAt /\ q.opAt < q.at /\ q.at <= clock'
    <3>1. \A q \in ops : q.at \in Nat /\ q.began <= q.opAt /\ q.opAt < q.at /\ q.at <= clock
      BY <1>1 DEF IInv, TimesOK, TypeOK, OpType
    <3>2. QED
      BY <1>1, <3>1
  <2>2. \A i \in plan' : i.began <= clock'
    <3>1. \A i \in plan : i.began \in Nat /\ i.began <= clock
      BY <1>1 DEF IInv, TimesOK, TypeOK
    <3>2. QED
      BY <1>1, <3>1
  <2>3. default'.began <= clock'
    <3>1. default.began \in Nat /\ default.began <= clock /\ NoDefault.began = 0
      BY <1>1 DEF IInv, TimesOK, TypeOK, NoDefault
    <3>2. QED
      BY <1>1, <3>1
  <2>4. ASSUME NEW k \in Headers PROVE mark'[k].erased <= clock' /\ mark'[k].summed <= clock'
    <3>1. mark'[k].erased \in Nat /\ mark'[k].summed \in Nat
      BY DEF MarkType
    <3>2. mark'[k].erased <= clock /\ mark'[k].summed <= clock
      BY DEF IInv, TimesOK
    <3>3. QED
      BY <1>1, <3>1, <3>2
  <2>5. \A v \in Workers : began'[v] <= clock' /\ first'[v] <= clock'
    BY <1>1, <1>3 DEF IInv, TimesOK, TypeOK
  <2>6. \A q, p \in ops' : q.at = p.at => q = p
    BY DEF IInv, TimesOK
  <2>7. QED
    BY <2>1, <2>2, <2>3, <2>4, <2>5, <2>6 DEF TimesOK
<1>7. LinesOK'
  BY <1>4 DEF IInv, LinesOK, TypeOK, OpType
<1>8. ASSUME NEW k \in Headers, k # h PROVE SumDiff(k)' = SumDiff(k)
  <2>1. \A l \in LineIds : line'[l] = line[l] \/ (line'[l].header # k /\ line[l].header # k)
    BY <1>2, <1>4, <1>8
  <2>2. QED
    BY <1>1, <2>1, SumSame
<1>9. ASSUME NEW v \in Workers, pc'[v] # "idle"
      PROVE  HeaderKnown(v)' /\ SumKnown(v)'
  <2>1. v # w /\ pc[v] # "idle" /\ HeaderKnown(v) /\ SumKnown(v)
    BY <1>3, <1>9 DEF IInv, WorkersOK
  <2>2. /\ pc'[v] = pc[v] /\ job'[v] = job[v] /\ target'[v] = target[v]
        /\ began'[v] = began[v] /\ sum'[v] = sum[v] /\ first'[v] = first[v]
        /\ target[v].header \in Headers
    BY <1>3, <2>1 DEF HeaderKnown
  <2>3. CASE target[v].header = h
    BY <2>1, <2>2, <2>3 DEF HeaderKnown, SumKnown
  <2>4. CASE target[v].header # h
    <3>1. HeaderKnown(v)'
      BY <2>1, <2>2, <2>4 DEF HeaderKnown
    <3>2. \A o \in ops : o.header = target[v].header => o \in ops'
      BY <2>4 DEF Stays
    <3>3. ASSUME NEW k, k = target[v].header PROVE SumDiff(k)' = SumDiff(k)
      BY <1>8, <2>2, <2>4, <3>3
    <3>4. /\ header'[target[v].header] = header[target[v].header]
          /\ SumDiff(target[v].header)' = SumDiff(target[v].header)
      <4>1. PICK k : k = target[v].header
        OBVIOUS
      <4>2. SumDiff(k)' = SumDiff(k) /\ k = target'[v].header
        BY <2>2, <3>3, <4>1
      <4>3. QED
        BY <2>2, <2>4, <4>1, <4>2 DEF SumDiff, LinesOf
    <3>5. SumKnown(v)'
      BY <2>1, <2>2, <3>2, <3>4 DEF SumKnown
    <3>6. QED
      BY <3>1, <3>5
  <2>5. QED
    BY <2>3, <2>4
<1>10. \A l : OpsOf(l)' = {o \in OpsOf(l) : Stays(w, o)}
  BY DEF OpsOf
<1>11. ASSUME NEW l, NEW q \in OpsOf(l)', NEW m \in OpsOf(l)
       PROVE  m \in OpsOf(l)' \/ m.at < q.at
  <2>1. q \in ops /\ m \in ops /\ q.line = m.line /\ Stays(w, q)
    BY <1>10 DEF OpsOf
  <2>2. q.header = m.header /\ q.at \in Nat /\ m.at \in Nat
    BY <1>1, <2>1 DEF IInv, LinesOK, TypeOK, OpType
  <2>3. QED
    BY <1>1, <1>10, <2>1, <2>2 DEF Stays
<1>18. ASSUME NEW l, NEW t, NEW x, ResultAt(l, t, x)
       PROVE  \A q \in OpsOf(l)' : q.at <= t
                => \E c \in OpsOf(l)' : q.at <= c.at /\ c.at <= t /\ c.new = x
  <2>1. ASSUME NEW q \in OpsOf(l)', q.at <= t
        PROVE  \E c \in OpsOf(l)' : q.at <= c.at /\ c.at <= t /\ c.new = x
    <3>1. q \in OpsOf(l) /\ q.at \in Nat /\ \A m \in OpsOf(l) : m.at \in Nat
      BY <1>1, <1>10 DEF OpsOf, TypeOK, OpType
    <3>2. PICK c \in OpsOf(l) : q.at <= c.at /\ c.at <= t /\ c.new = x
      BY <1>18, <2>1, <3>1 DEF ResultAt
    <3>3. c \in OpsOf(l)'
      BY <1>11, <3>1, <3>2
    <3>4. QED
      BY <3>2, <3>3
  <2>2. QED
    BY <2>1
<1>12. ASSUME NEW v \in Workers, OfLine(v)'
       PROVE  OfLine(v) /\ v # w /\ LineKnown(v)'
  <2>1. v # w /\ OfLine(v) /\ LineKnown(v)
    BY <1>3, <1>12 DEF IInv, WorkersOK, OfLine
  <2>. PICK l : l = target[v].line
    OBVIOUS
  <2>2. target'[v] = target[v] /\ job'[v] = job[v] /\ began'[v] = began[v] /\ l \in LineIds
    BY <1>1, <1>3, <2>1 DEF LineKnown, TypeOK
  <2>3. line'[l] # NoLine => line'[l].header = target[v].header /\ line'[l].book = target[v].seen.book
    BY <1>4, <2>1, <2>2 DEF LineKnown
  <2>4. ResultAt(l, began[v], target[v].seen.actual)'
    <3>1. \A q \in OpsOf(l)' : q.at <= began[v]
            => \E c \in OpsOf(l)' : q.at <= c.at /\ c.at <= began[v] /\ c.new = target[v].seen.actual
      BY <1>18, <2>1, <2>2 DEF LineKnown
    <3>2. QED
      BY <2>2, <3>1 DEF ResultAt
  <2>5. \A o \in ops' : o.line = l => o.header = target[v].header
    BY <2>1 DEF LineKnown
  <2>6. QED
    BY <2>1, <2>2, <2>3, <2>4, <2>5 DEF LineKnown, Result
<1>13. WorkersOK'
  <2>1. ASSUME NEW u \in Workers, NEW v \in Workers, OfLine(u)', OfLine(v)',
               target'[u].line = target'[v].line
        PROVE  target'[u].header = target'[v].header
    BY <1>3, <1>12, <2>1 DEF IInv, WorkersOK
  <2>2. QED
    BY <1>9, <1>12, <2>1 DEF WorkersOK
<1>14. TrailOK'
  <2>1. ASSUME NEW l \in LineIds, line'[l] # NoLine PROVE Explained(l)'
    <3>1. line'[l] = line[l] /\ line[l].header # h /\ Explained(l)
      BY <1>4, <2>1 DEF IInv, TrailOK
    <3>2. \A o \in OpsOf(l) : Stays(w, o)
      BY <2>1, <3>1 DEF IInv, LinesOK, OpsOf, Stays
    <3>3. OpsOf(l)' = OpsOf(l)
      BY <1>10, <3>2
    <3>4. QED
      BY <3>1, <3>3 DEF Explained, LastOf
  <2>2. ASSUME NEW l \in LineIds PROVE Continued(l)'
    <3>1. ASSUME NEW o \in OpsOf(l)'
          PROVE  \A q \in OpsOf(l)' : q.at <= o.began
                   => \E c \in OpsOf(l)' : q.at <= c.at /\ c.at <= o.began /\ c.new = o.prev
      <4>1. o \in OpsOf(l)
        BY <1>10
      <4>2. ResultAt(l, o.began, o.prev)
        BY <4>1 DEF IInv, TrailOK, Continued
      <4>3. QED
        BY <1>18, <4>2
    <3>2. QED
      BY <3>1 DEF Continued, ResultAt
  <2>3. QED
    BY <2>1, <2>2 DEF TrailOK
<1>15. SubmitFreezesTotal'
  <2>1. ASSUME NEW k \in Headers, header'[k].status \in {"adjusted", "approved"}
        PROVE  /\ \A q \in ops' : q.header = k => q.began < mark'[k].submitted
               /\ (\A q \in ops' : q.header = k => q.at <= mark'[k].summed) => header'[k].total = SumDiff(k)'
    <3>1. k # h /\ header'[k] = header[k] /\ mark'[k] = mark[k]
      BY <2>1
    <3>2. SumDiff(k)' = SumDiff(k)
      BY <1>8, <3>1
    <3>3. \A q \in ops : q.header = k => q \in ops'
      BY <3>1 DEF Stays
    <3>4. QED
      BY <2>1, <3>1, <3>2, <3>3 DEF IInv, SubmitFreezesTotal
  <2>2. QED
    BY <2>1 DEF SubmitFreezesTotal
<1>16. OrphansOnlyByOverlap'
  <2>2. ASSUME NEW x, x.header \in Headers, Overlapped(x),
               x.header = h => x.began < mark'[h].deleted /\ x.at > mark'[h].erased
        PROVE  \/ header'[x.header].status \in {"counting", "adjusted", "approved"}
               \/ x.began < mark'[x.header].deleted /\ x.at > mark'[x.header].erased
    BY <2>2 DEF Overlapped, Present
  <2>3. \A o \in ops' : o.header \in Headers /\ Overlapped(o)
    BY <1>1 DEF TypeOK, OpType, IInv, OrphansOnlyByOverlap, Overlapped
  <2>4. \A i \in plan' : i.header \in Headers /\ Overlapped(i)
    BY <1>1 DEF TypeOK, IInv, OrphansOnlyByOverlap, Overlapped
  <2>5. default' # NoDefault => default'.header \in Headers /\ Overlapped(default')
    BY <1>1 DEF TypeOK, IInv, OrphansOnlyByOverlap, Overlapped
  <2>6. ASSUME NEW l \in LineIds, line'[l] # NoLine PROVE Present(line[l].header)'
    <3>1. line'[l] = line[l] /\ line[l].header # h /\ Present(line[l].header)
      BY <1>4, <2>6 DEF IInv, OrphansOnlyByOverlap
    <3>2. line[l].header \in Headers
      BY <1>1, <2>6, <3>1 DEF TypeOK, LineType
    <3>3. QED
      BY <3>1, <3>2 DEF Present
  <2>7. QED
    BY <2>2, <2>3, <2>4, <2>5, <2>6 DEF OrphansOnlyByOverlap, Present
<1>17. QED
  BY <1>5, <1>6, <1>7, <1>13, <1>14, <1>15, <1>16 DEF IInv

LEMMA DeleteHeaderStep ==
  ASSUME IInv, NEW w \in Workers, DeleteHeader(w)
  PROVE  IInv'
<1> DEFINE h == target[w].header
<1>1. /\ pc[w] = "erased" /\ End(w) /\ UNCHANGED <<made, used>>
      /\ ops' = {o \in ops : Stays(w, o)}
      /\ plan' = {i \in plan : Stays(w, i)}
      /\ default' = IF Stays(w, default) THEN default ELSE NoDefault
      /\ line' = [l \in LineIds |-> IF line[l].header = h THEN NoLine ELSE line[l]]
  BY DEF DeleteHeader, Stays
<1>2. HeaderKnown(w) /\ TypeOK /\ h \in Headers
  BY <1>1 DEF IInv, WorkersOK, HeaderKnown
<1>3. /\ clock \in Nat /\ first[w] \in Nat /\ first[w] <= clock /\ mark[h] \in MarkType
      /\ mark[h].erased <= clock /\ mark[h].summed <= clock
  BY <1>2 DEF TypeOK, IInv, TimesOK
<1>4. CASE ~Present(h)
  <2>1. UNCHANGED <<header, mark, clock>> /\ header[h].status = "deleted"
    BY <1>2, <1>4 DEF DeleteHeader, HeaderKnown, Present, TypeOK
  <2>2. \A v \in Workers \ {w} : pc[v] # "idle" /\ target[v].header = h => began[v] < mark'[h].deleted
    BY <2>1 DEF IInv, WorkersOK, HeaderKnown
  <2>3. /\ \A o \in ops' : o.header = h => o.began < mark'[h].deleted /\ o.at > mark'[h].erased
        /\ \A i \in plan' : i.header = h => i.began < mark'[h].deleted /\ i.at > mark'[h].erased
        /\ default' # NoDefault /\ default'.header = h
             => default'.began < mark'[h].deleted /\ default'.at > mark'[h].erased
    BY <1>1, <1>4, <2>1 DEF IInv, OrphansOnlyByOverlap, Present
  <2>4. QED
    BY <1>1, <1>2, <1>3, <2>1, <2>2, <2>3, HeaderGone DEF TypeOK
<1>5. CASE Present(h)
  <2> DEFINE m == [mark[h] EXCEPT !.erased = first[w], !.deleted = clock + 1]
  <2>1. /\ header' = [header EXCEPT ![h] = [status |-> "deleted", total |-> 0]]
        /\ mark' = [mark EXCEPT ![h].erased = first[w], ![h].deleted = clock + 1]
        /\ clock' = clock + 1
    BY <1>5 DEF DeleteHeader, Tick
  <2>2. m \in MarkType /\ m.erased = first[w] /\ m.deleted = clock + 1 /\ m.summed = mark[h].summed
    <3>1. clock + 1 \in Nat
      BY <1>3
    <3>2. QED
      BY <1>3, <3>1 DEF MarkType
  <2>3. mark' = [mark EXCEPT ![h] = m]
    BY <1>2, <2>1 DEF TypeOK
  <2> HIDE DEF m
  <2>4. /\ mark' \in [Headers -> MarkType] /\ mark'[h] = m
        /\ header' \in [Headers -> [status : {"none", "counting", "adjusted", "approved", "deleted"},
                                    total : Int]]
        /\ header'[h].status = "deleted"
        /\ \A k \in Headers \ {h} : header'[k] = header[k] /\ mark'[k] = mark[k]
    <3>1. [status |-> "deleted", total |-> 0]
            \in [status : {"none", "counting", "adjusted", "approved", "deleted"}, total : Int]
      OBVIOUS
    <3>2. /\ header' \in [Headers -> [status : {"none", "counting", "adjusted", "approved", "deleted"},
                                      total : Int]]
          /\ header'[h].status = "deleted" /\ \A k \in Headers \ {h} : header'[k] = header[k]
      BY <1>2, <2>1, <3>1 DEF TypeOK
    <3>3. mark' \in [Headers -> MarkType] /\ mark'[h] = m /\ \A k \in Headers \ {h} : mark'[k] = mark[k]
      BY <1>2, <2>2, <2>3 DEF TypeOK
    <3>4. QED
      BY <3>2, <3>3
  <2>5. \A v \in Workers \ {w} : began[v] < m.deleted
    BY <1>2, <1>3, <2>2 DEF IInv, TimesOK, TypeOK
  <2>6. /\ \A o \in ops' : o.header = h => o.began < m.deleted /\ o.at > m.erased
        /\ \A i \in plan' : i.header = h => i.began < m.deleted /\ i.at > m.erased
    <3>1. \A o \in ops : o.began \in Nat /\ o.began <= clock
      BY <1>2 DEF IInv, TimesOK, TypeOK, OpType
    <3>2. \A i \in plan : i.began \in Nat /\ i.began <= clock
      BY <1>2 DEF IInv, TimesOK, TypeOK
    <3>3. QED
      BY <1>1, <1>3, <2>2, <3>1, <3>2 DEF Stays
  <2>7. default' # NoDefault /\ default'.header = h
          => default'.began < m.deleted /\ default'.at > m.erased
    <3>1. default.began \in Nat /\ default.began <= clock
      BY <1>2 DEF IInv, TimesOK, TypeOK, NoDefault
    <3>2. QED
      BY <1>1, <1>3, <2>2, <3>1 DEF Stays
  <2>8. QED
    BY <1>1, <1>2, <1>3, <2>1, <2>2, <2>4, <2>5, <2>6, <2>7, HeaderGone
<1>6. QED
  BY <1>4, <1>5

LEMMA GiveUpStep ==
  ASSUME IInv, NEW w \in Workers, GiveUp(w)
  PROVE  IInv'
BY EndStep DEF GiveUp

LEMMA NextIInv == IInv /\ [Next]_vars => IInv'
<1> SUFFICES ASSUME IInv, [Next]_vars PROVE IInv'
  OBVIOUS
<1>1. CASE UNCHANGED vars
  <2>1. UNCHANGED <<header, line, ops, plan, default, pc, job, target, began, sum, first,
                    mark, clock, made, used>>
    BY <1>1 DEF vars, db, own
  <2>2. TypeOK /\ clock \in Nat
    BY DEF IInv, TypeOK
  <2>3. TypeOK' /\ TimesOK' /\ LinesOK' /\ TrailOK'
    BY <2>1 DEF IInv, TypeOK, TimesOK, LinesOK, TrailOK, Explained, Continued, ResultAt, LastOf, OpsOf
  <2>4. WorkersOK' /\ \A h \in Headers : SumDiff(h)' = SumDiff(h)
    BY <2>1, WorkersSame
  <2>5. SubmitFreezesTotal' /\ OrphansOnlyByOverlap'
    BY <2>1, <2>4 DEF IInv, SubmitFreezesTotal, OrphansOnlyByOverlap, Present
  <2>6. QED
    BY <2>3, <2>4, <2>5 DEF IInv
<1>2. ASSUME NEW w \in Workers, WorkerStep(w) PROVE IInv'
  <2>1. CASE \E r \in Requests : \/ \E h \in Headers : LookAdd(w, r, h) \/ LookHeader(w, r, h)
                                 \/ \E l \in LineIds : LookLine(w, r, l)
    BY <2>1, LookSteps
  <2>2. QED
    BY <1>2, <2>1, InsertLineStep, UpdateLineStep, DeleteLineStep, SumUpStep, SubmitStep, ApproveStep,
       EraseChildrenStep, DeleteHeaderStep, AddPlanItemsStep, SetDefaultStep, GiveUpStep DEF WorkerStep
<1>3. QED
  BY <1>1, <1>2, CreateHeaderStep, DeletePlanItemStep DEF Next

(* Every reachable state satisfies the inductive invariant, for any number  *)
(* of headers, lines, workers and requests.                                 *)
THEOREM StocktakeInvariant == Spec => []IInv
BY InitIInv, NextIInv, PTL DEF Spec

(* The columns keep their types: no line without a header, no product twice *)
(* in a plan.                                                               *)
THEOREM StocktakeTypeCorrect == Spec => []TypeOK
<1>1. IInv => TypeOK
  BY DEF IInv
<1>2. QED
  BY <1>1, StocktakeInvariant, PTL

(* The operations kept beside a line, read in the order of their op_at,     *)
(* explain the quantity it shows, but for those that overtook another       *)
(* between their stamp and their commit.                                    *)
THEOREM TrailExplainsLines == Spec => []AuditTrail
<1>1. IInv => AuditTrail
  BY TrailIsAudited DEF IInv
<1>2. QED
  BY <1>1, StocktakeInvariant, PTL

(* The total a submission writes is the sum of the lines, but for           *)
(* operations that overlapped it.                                           *)
THEOREM TotalIsFrozen == Spec => []SubmitFreezesTotal
<1>1. IInv => SubmitFreezesTotal
  BY DEF IInv
<1>2. QED
  BY <1>1, StocktakeInvariant, PTL

(* Rows that point to a deleted header were written by a handler that       *)
(* overlapped the deletion.                                                 *)
THEOREM OrphansOverlapped == Spec => []OrphansOnlyByOverlap
<1>1. IInv => OrphansOnlyByOverlap
  BY DEF IInv
<1>2. QED
  BY <1>1, StocktakeInvariant, PTL

-----------------------------------------------------------------------------
(* Who touches an approved header had looked at it before it was approved.  *)
Touches(w, h) == /\ pc[w] # "idle" /\ pc'[w] = "idle" /\ target[w].header = h
                 /\ began[w] < mark[h].approved

ApprovedStep ==
  \A h \in Headers :
    header[h].status = "approved" /\ (header[h]' # header[h] \/ \E l \in LinesOf(h) : line[l]' # line[l])
    => \E w \in Workers : Touches(w, h)

LEMMA TouchesWhen ==
  ASSUME IInv, NEW w \in Workers, NEW h \in Headers, header[h].status = "approved",
         pc[w] # "idle", job[w].kind # "plan", target[w].header = h, End(w)
  PROVE  Touches(w, h)
<1>1. HeaderKnown(w) /\ pc'[w] = "idle"
  BY DEF IInv, WorkersOK, End, TypeOK
<1>2. QED
  BY <1>1 DEF HeaderKnown, Touches

LEMMA ApprovedByWorker ==
  ASSUME IInv, NEW w \in Workers, WorkerStep(w), NEW h \in Headers, header[h].status = "approved",
         header'[h] # header[h] \/ \E l \in LinesOf(h) : line'[l] # line[l]
  PROVE  Touches(w, h)
<1>1. TypeOK /\ pc[w] \in {"idle", "sum", "write", "erased"}
  BY DEF IInv, TypeOK
<1>2. h # NoHeader /\ NoLine.header = NoHeader
  BY StocktakeAssumption DEF NoLine
<1>3. \A l \in LinesOf(h) : l \in LineIds /\ line[l].header = h /\ line[l] # NoLine /\ l \in used
  BY <1>2 DEF LinesOf, IInv, LinesOK
<1>4. CASE UNCHANGED <<header, line>>
  BY <1>4
<1>5. CASE InsertLine(w)
  <2>1. CASE UNCHANGED line
    BY <1>5, <2>1, <1>4 DEF InsertLine
  <2>2. CASE Present(target[w].header)
    <3>1. PICK l, x : line' = [line EXCEPT ![l] = x] /\ l = NewLine /\ LineIds \ used # {}
      BY <1>5, <2>2 DEF InsertLine
    <3>2. l \in LineIds /\ l \notin used
      BY <3>1 DEF NewLine
    <3>3. \A k \in LinesOf(h) : line'[k] = line[k]
      BY <1>1, <1>3, <3>1, <3>2 DEF TypeOK
    <3>4. QED
      BY <1>5, <3>3 DEF InsertLine
  <2>3. QED
    BY <1>5, <2>1, <2>2 DEF InsertLine
<1>6. CASE UpdateLine(w) \/ DeleteLine(w)
  <2>1. /\ pc[w] = "write" /\ job[w].kind \in LineKinds /\ End(w) /\ UNCHANGED header
        /\ \A k \in LineIds : line'[k] # line[k] => k = target[w].line
    BY <1>1, <1>6 DEF UpdateLine, DeleteLine, LineKinds, TypeOK
  <2>2. target[w].line \in LinesOf(h) /\ LineKnown(w)
    BY <1>3, <2>1 DEF IInv, WorkersOK, OfLine
  <2>3. target[w].header = h
    BY <1>3, <2>2 DEF LineKnown
  <2>4. QED
    BY <2>1, <2>3, TouchesWhen DEF LineKinds
<1>7. CASE Submit(w) \/ Approve(w)
  <2>1. /\ pc[w] = "write" /\ job[w].kind # "plan" /\ End(w) /\ UNCHANGED line
        /\ header'[h] # header[h] => h = target[w].header
    BY <1>1, <1>7 DEF Submit, Approve, TypeOK
  <2>2. QED
    BY <2>1, TouchesWhen
<1>8. CASE DeleteHeader(w)
  <2>1. HeaderKnown(w) /\ pc[w] = "erased" /\ End(w)
    BY <1>8 DEF DeleteHeader, IInv, WorkersOK
  <2>2. h = target[w].header
    BY <1>1, <1>3, <1>8 DEF DeleteHeader, TypeOK
  <2>3. QED
    BY <2>1, <2>2, TouchesWhen DEF HeaderKnown
<1>9. QED
  BY <1>4, <1>5, <1>6, <1>7, <1>8
     DEF WorkerStep, LookAdd, LookLine, LookHeader, Look, SumUp, EraseChildren, AddPlanItems, SetDefault,
         GiveUp, db

LEMMA NextApproved == IInv /\ [Next]_vars => ApprovedStep
<1> SUFFICES ASSUME IInv, [Next]_vars PROVE ApprovedStep
  OBVIOUS
<1>1. ASSUME NEW h \in Headers, header[h].status = "approved",
             header'[h] # header[h] \/ \E l \in LinesOf(h) : line'[l] # line[l]
      PROVE  \E w \in Workers : Touches(w, h)
  <2>1. ASSUME NEW k \in Headers, CreateHeader(k) PROVE FALSE
    BY <1>1, <2>1 DEF CreateHeader, IInv, TypeOK
  <2>2. ASSUME NEW i \in plan, DeletePlanItem(i) PROVE FALSE
    BY <1>1, <2>2 DEF DeletePlanItem
  <2>3. ~UNCHANGED vars
    BY <1>1 DEF vars, db
  <2>4. PICK w \in Workers : WorkerStep(w)
    BY <2>1, <2>2, <2>3 DEF Next
  <2>5. QED
    BY <1>1, <2>4, ApprovedByWorker
<1>2. QED
  BY <1>1 DEF ApprovedStep

(* An approved header and its lines are out of reach of every request that  *)
(* looks at the header's status after the approval.                         *)
THEOREM ApprovedStays == Spec => ApprovedOnlyByStale
<1>1. IInv /\ [Next]_vars => ApprovedStep
  BY NextApproved
<1>2. ApprovedStep <=> \A h \in Headers :
       header[h].status = "approved" /\ (header[h]' # header[h] \/ \E l \in LinesOf(h) : line[l]' # line[l])
       => \E w \in Workers : /\ pc[w] # "idle" /\ pc'[w] = "idle" /\ target[w].header = h
                             /\ began[w] < mark[h].approved
  BY DEF ApprovedStep, Touches
<1>3. QED
  BY <1>1, <1>2, StocktakeInvariant, PTL DEF ApprovedOnlyByStale, Spec
=============================================================================
