------------------------------ MODULE Cube_proofs ------------------------------
(***************************************************************************)
(* What is proved of the two users of a branch's cube: the daily collection *)
(* (DailyCollect) and the carrying of rows to another branch (CubeSync).    *)
(*                                                                         *)
(* DailyCollect: CollectInv says, for as long as no two requests that      *)
(* change the credential overlapped and none stopped halfway, what each     *)
(* request has done so far at each of its steps (Ready), and of a           *)
(* collection what its reading is worth (ReadSoFar).                        *)
(*                                                                         *)
(* CubeSync: SyncInv says of the one round at work that a row it has to     *)
(* carry is in the target, lost, among the rows read, or still ahead of its *)
(* offset (Fits).  It needs that a change that shows is later than every    *)
(* watermark (ShowsInTime), so nothing that was read goes stale unnoticed.  *)
(***************************************************************************)
EXTENDS DailyCollect, CubeSync, FiniteSetTheorems, SequenceTheorems, TLAPS

-----------------------------------------------------------------------------
(* DailyCollect.                                                            *)

Request(op, pc, r, steps, then, totals, moved, fresh) ==
  [op |-> op, pc |-> pc, row |-> r, steps |-> steps, then |-> then,
   totals |-> totals, moved |-> moved, fresh |-> fresh]
Shaped(r) == r = Request(r.op, r.pc, r.row, r.steps, r.then, r.totals, r.moved, r.fresh)

LEMMA OneField ==
  ASSUME NEW r, Shaped(r), NEW v
  PROVE  /\ [r EXCEPT !.pc = v] = Request(r.op, v, r.row, r.steps, r.then, r.totals, r.moved, r.fresh)
         /\ [r EXCEPT !.row = v] = Request(r.op, r.pc, v, r.steps, r.then, r.totals, r.moved, r.fresh)
         /\ [r EXCEPT !.steps = v] = Request(r.op, r.pc, r.row, v, r.then, r.totals, r.moved, r.fresh)
         /\ [r EXCEPT !.then = v] = Request(r.op, r.pc, r.row, r.steps, v, r.totals, r.moved, r.fresh)
         /\ [r EXCEPT !.totals = v] = Request(r.op, r.pc, r.row, r.steps, r.then, v, r.moved, r.fresh)
         /\ [r EXCEPT !.moved = v] = Request(r.op, r.pc, r.row, r.steps, r.then, r.totals, v, r.fresh)
BY DEF Shaped, Request

LEMMA TwoFields ==
  ASSUME NEW r, Shaped(r), NEW v, NEW u
  PROVE  /\ [r EXCEPT !.pc = v, !.row = u] = Request(r.op, v, u, r.steps, r.then, r.totals, r.moved, r.fresh)
         /\ [r EXCEPT !.pc = v, !.steps = u] = Request(r.op, v, r.row, u, r.then, r.totals, r.moved, r.fresh)
         /\ [r EXCEPT !.pc = v, !.then = u] = Request(r.op, v, r.row, r.steps, u, r.totals, r.moved, r.fresh)
         /\ [r EXCEPT !.pc = v, !.totals = u] = Request(r.op, v, r.row, r.steps, r.then, u, r.moved, r.fresh)
<1>1. PICK s : s = [r EXCEPT !.pc = v]
  OBVIOUS
<1>2. Shaped(s) /\ s.op = r.op /\ s.pc = v /\ s.row = r.row /\ s.steps = r.steps /\ s.then = r.then
      /\ s.totals = r.totals /\ s.moved = r.moved /\ s.fresh = r.fresh
  <2>1. s = Request(r.op, v, r.row, r.steps, r.then, r.totals, r.moved, r.fresh)
    BY <1>1, OneField
  <2> QED
    BY <2>1 DEF Shaped, Request
<1>3. /\ [r EXCEPT !.pc = v, !.row = u] = [s EXCEPT !.row = u]
      /\ [r EXCEPT !.pc = v, !.steps = u] = [s EXCEPT !.steps = u]
      /\ [r EXCEPT !.pc = v, !.then = u] = [s EXCEPT !.then = u]
      /\ [r EXCEPT !.pc = v, !.totals = u] = [s EXCEPT !.totals = u]
  BY <1>1
<1>4. /\ [s EXCEPT !.row = u] = Request(s.op, s.pc, u, s.steps, s.then, s.totals, s.moved, s.fresh)
      /\ [s EXCEPT !.steps = u] = Request(s.op, s.pc, s.row, u, s.then, s.totals, s.moved, s.fresh)
      /\ [s EXCEPT !.then = u] = Request(s.op, s.pc, s.row, s.steps, u, s.totals, s.moved, s.fresh)
      /\ [s EXCEPT !.totals = u] = Request(s.op, s.pc, s.row, s.steps, s.then, u, s.moved, s.fresh)
  BY <1>2, OneField
<1> QED
  BY <1>2, <1>3, <1>4

RowType == [status : {"none", "enabled", "disabled"}, key : Nat, secret : Nat]
Reading == [totals : SUBSET Items, details : SUBSET Items, moved : BOOLEAN, fresh : BOOLEAN]

Places(op) ==
  CASE op = "enable"  -> {"look", "again", "allow", "create", "reset", "put", "jobs", "ok"}
    [] op = "disable" -> {"look", "forbid", "status", "jobs", "ok"}
    [] OTHER          -> {"look", "totals", "details"}

IsRequest(r) ==
  /\ Shaped(r)
  /\ r.op \in {"enable", "disable", "collect"} /\ r.pc \in Places(r.op)
  /\ r.row \in RowType /\ r.row.key <= key /\ r.then \in {"ok", "put"}
  /\ r.op = "disable" => r.then = "ok"
  /\ r.totals \subseteq Items /\ r.moved \in BOOLEAN /\ r.fresh \in BOOLEAN

IsSaving(r) == r = [op |-> "collect", pc |-> "save", day |-> r.day] /\ r.day \in Reading

IsThread(r) == r = NoRequest \/ IsRequest(r) \/ IsSaving(r)

CollectTypes ==
  /\ auth \in [secret : Nat, disabled : BOOLEAN] /\ row \in RowType /\ row.key <= key /\ key \in Nat \ {0}
  /\ sold \subseteq Items /\ settled \in BOOLEAN /\ daily \in Reading
  /\ thread = [w \in Threads |-> thread[w]] /\ \A w \in Threads : IsThread(thread[w])
  /\ overlap \in BOOLEAN /\ halfway \in BOOLEAN

Sound == ~overlap /\ ~halfway

(* What a request has done so far, if nobody crossed it.                    *)
Ready(r) ==
  /\ r.op = "enable" /\ r.pc = "again" => row.status # "enabled"
  /\ r.op = "enable" /\ r.pc = "allow" =>
       row.status = "disabled" /\ r.row.status = "enabled" /\ r.row.key = row.key /\ r.row.secret = row.secret
  /\ r.op = "enable" /\ r.pc = "create" => row.status = "none"
  /\ r.op = "enable" /\ r.pc = "reset" => ~Opens(row) /\ ~auth.disabled
  /\ r.op = "enable" /\ r.pc \in {"put", "jobs"} =>
       r.row.status = "enabled" /\ r.row.key = key /\ r.row.secret = auth.secret /\ ~auth.disabled
  /\ r.op = "disable" /\ r.pc \in {"forbid", "status"} => row.status = "enabled"

OneChanger == ~overlap => \A w, v \in Threads : Changes(thread[w].op) /\ Changes(thread[v].op) => w = v

AccountFits ==
  Sound =>
    /\ Opens(row) => row.secret = auth.secret
    /\ row.status # "disabled" /\ (\A w \in Threads : ~At(w, "disable", "status")) => ~auth.disabled
    /\ \A w \in Threads : Changes(thread[w].op) => Ready(thread[w])

(* What a collection has read is what was sold when it read it.             *)
OneReading(d) ==
  /\ d.moved \/ d.details = d.totals
  /\ d.fresh => settled /\ d.details = sold

ReadSoFar(r) ==
  r.op = "collect" =>
    /\ r.pc # "save" /\ r.fresh => settled
    /\ r.pc = "details" => r.moved \/ r.totals = sold
    /\ r.pc = "save" => OneReading(r.day)

DayFits == OneReading(daily) /\ \A w \in Threads : ReadSoFar(thread[w])

CollectInv == CollectTypes /\ OneChanger /\ AccountFits /\ DayFits

-----------------------------------------------------------------------------
LEMMA ThreadAfter ==
  ASSUME CollectTypes, NEW w \in Threads, NEW r, Go(w, r)
  PROVE  /\ thread' = [v \in Threads |-> thread'[v]]
         /\ \A v \in Threads : thread'[v] = IF v = w THEN r ELSE thread[v]
<1>1. PICK t : t = thread /\ t = [v \in Threads |-> t[v]]
  BY DEF CollectTypes
<1>2. thread' = [t EXCEPT ![w] = r]
  BY <1>1 DEF Go
<1> QED
  BY <1>1, <1>2

(* The rows that are typed stay so while the key is the same.               *)
LEMMA TypesAfter ==
  ASSUME CollectTypes, NEW w \in Threads, NEW r, Go(w, r), IsThread(r), UNCHANGED key,
         auth' \in [secret : Nat, disabled : BOOLEAN], row' \in RowType, row'.key <= key,
         sold' \subseteq Items, settled' \in BOOLEAN, daily' \in Reading,
         overlap' \in BOOLEAN, halfway' \in BOOLEAN
  PROVE  CollectTypes'
<1>1. \A q : IsThread(q) => IsThread(q)'
  BY DEF IsThread, IsRequest, IsSaving
<1>2. \A v \in Threads : IsThread(thread'[v])
  BY ThreadAfter DEF CollectTypes
<1>3. ASSUME NEW v \in Threads PROVE IsThread(thread[v])'
  <2>1. PICK q : q = thread'[v]
    OBVIOUS
  <2> QED
    BY <1>1, <1>2, <2>1 DEF IsThread, IsRequest, IsSaving
<1> QED
  BY <1>3, ThreadAfter DEF CollectTypes

LEMMA ChangerMoves ==
  ASSUME CollectInv, CollectTypes', NEW w \in Threads, Changes(thread[w].op), NEW r, Go(w, r),
         r.op \in {thread[w].op, "idle"}, UNCHANGED <<key, day, overlap>>, halfway => halfway',
         ~halfway' /\ Sound =>
           /\ Opens(row') => row'.secret = auth'.secret
           /\ row'.status # "disabled" /\ ~(r.op = "disable" /\ r.pc = "status") => ~auth'.disabled
           /\ Changes(r.op) => Ready(r)'
  PROVE  CollectInv'
<1>1. \A v \in Threads : thread'[v] = IF v = w THEN r ELSE thread[v]
  BY ThreadAfter DEF CollectInv
<1>2. OneChanger'
  BY <1>1 DEF CollectInv, OneChanger, Changes
<1>3. AccountFits'
  <2>1. SUFFICES ASSUME Sound'
                 PROVE  /\ Opens(row)' => row'.secret = auth'.secret
                        /\ row'.status # "disabled" /\ (\A v \in Threads : ~At(v, "disable", "status")') => ~auth'.disabled
                        /\ \A v \in Threads : Changes(thread'[v].op) => Ready(thread[v])'
    BY DEF AccountFits, Changes
  <2>2. Sound /\ ~halfway'
    BY <2>1 DEF Sound
  <2>3. Opens(row)' => row'.secret = auth'.secret
    BY <2>2 DEF Opens
  <2>4. row'.status # "disabled" /\ (\A v \in Threads : ~At(v, "disable", "status")') => ~auth'.disabled
    BY <1>1, <2>2 DEF At
  <2>5. ASSUME NEW v \in Threads, Changes(thread'[v].op) PROVE Ready(thread[v])'
    <3>1. v = w
      BY <1>1, <2>2, <2>5 DEF CollectInv, OneChanger, Sound
    <3>2. thread'[v] = r
      BY <1>1, <3>1
    <3>3. Ready(r)'
      BY <2>2, <2>5, <3>2
    <3> QED
      BY <3>2, <3>3 DEF Ready, Opens
  <2> QED
    BY <2>3, <2>4, <2>5
<1>4. DayFits'
  <2>1. \A v \in Threads : thread'[v] = thread[v] \/ thread'[v].op # "collect"
    BY <1>1 DEF Changes
  <2>2. \A v \in Threads : ReadSoFar(thread[v])'
    BY <2>1 DEF CollectInv, DayFits, ReadSoFar, OneReading, day
  <2>3. OneReading(daily)'
    BY DEF CollectInv, DayFits, OneReading, day
  <2> QED
    BY <2>2, <2>3 DEF DayFits
<1> QED
  BY <1>2, <1>3, <1>4 DEF CollectInv

LEMMA OthersMove ==
  ASSUME CollectInv, CollectTypes', DayFits', UNCHANGED <<account, overlap>>, halfway => halfway',
         \A v \in Threads : Changes(thread'[v].op) => thread'[v] = thread[v],
         \A v \in Threads : At(v, "disable", "status") => thread'[v] = thread[v] 
  PROVE  CollectInv'
<1>1. OneChanger'
  BY DEF CollectInv, OneChanger
<1>2. AccountFits'
  <2>1. SUFFICES ASSUME Sound'
                 PROVE  /\ Opens(row)' => row'.secret = auth'.secret
                        /\ row'.status # "disabled" /\ (\A v \in Threads : ~At(v, "disable", "status")') => ~auth'.disabled
                        /\ \A v \in Threads : Changes(thread'[v].op) => Ready(thread[v])'
    BY DEF AccountFits, Changes
  <2>2. Sound
    BY <2>1 DEF Sound
  <2>3. Opens(row)' => row'.secret = auth'.secret
    BY <2>2 DEF Opens, account, CollectInv, AccountFits
  <2>4. row'.status # "disabled" /\ (\A v \in Threads : ~At(v, "disable", "status")') => ~auth'.disabled
    BY <2>2 DEF At, account, CollectInv, AccountFits
  <2>5. ASSUME NEW v \in Threads, Changes(thread'[v].op) PROVE Ready(thread[v])'
    <3>1. thread'[v] = thread[v] /\ Ready(thread[v])
      BY <2>2, <2>5 DEF CollectInv, AccountFits
    <3> QED
      BY <3>1 DEF Ready, Opens, account
  <2> QED
    BY <2>3, <2>4, <2>5
<1> QED
  BY <1>1, <1>2 DEF CollectInv
-----------------------------------------------------------------------------
LEMMA PcMoves ==
  ASSUME NEW q, IsRequest(q), NEW x \in Places(q.op), NEW r, r = [q EXCEPT !.pc = x]
  PROVE  /\ IsRequest(r) /\ r.op = q.op /\ r.pc = x /\ r.row = q.row /\ r.then = q.then
         /\ r.totals = q.totals /\ r.moved = q.moved /\ r.fresh = q.fresh
<1>1. r = Request(q.op, x, q.row, q.steps, q.then, q.totals, q.moved, q.fresh)
  BY OneField DEF IsRequest
<1>2. /\ Shaped(r) /\ r.op = q.op /\ r.pc = x /\ r.row = q.row /\ r.then = q.then
      /\ r.totals = q.totals /\ r.moved = q.moved /\ r.fresh = q.fresh
  BY <1>1 DEF Shaped, Request
<1> QED
  BY <1>2 DEF IsRequest

LEMMA RequestIs ==
  ASSUME NEW q, IsRequest(q), NEW x \in Places(q.op), NEW u \in RowType, u.key <= key, NEW n,
         NEW t \in {"ok", "put"}, q.op = "disable" => t = "ok",
         NEW r, r = Request(q.op, x, u, n, t, q.totals, q.moved, q.fresh)
  PROVE  IsRequest(r) /\ r.op = q.op /\ r.pc = x /\ r.row = u /\ r.then = t
<1>2. /\ Shaped(r) /\ r.op = q.op /\ r.pc = x /\ r.row = u /\ r.then = t
      /\ r.totals = q.totals /\ r.moved = q.moved /\ r.fresh = q.fresh
  BY DEF Shaped, Request
<1> QED
  BY <1>2 DEF IsRequest

LEMMA RequestHas ==
  ASSUME NEW q, IsRequest(q)
  PROVE  /\ q.row \in RowType /\ q.row.key <= key /\ q.then \in {"ok", "put"}
         /\ q.op = "disable" => q.then = "ok"
         /\ Shaped(q)
BY DEF IsRequest

LEMMA IsRequested ==
  ASSUME CollectTypes, NEW w \in Threads, thread[w].pc # "save", thread[w].pc # "idle"
  PROVE  IsRequest(thread[w])
BY DEF CollectTypes, IsThread, IsSaving, NoRequest

LEMMA MayLogIn ==
  ASSUME CollectInv, Sound, NEW w \in Threads, Changes(thread[w].op), ~At(w, "disable", "status"),
         row.status # "disabled"
  PROVE  ~auth.disabled
<1>1. \A v \in Threads : ~At(v, "disable", "status")
  BY DEF CollectInv, OneChanger, Sound, At, Changes
<1> QED
  BY <1>1 DEF CollectInv, AccountFits

(* A request ends, in whatever way.                                         *)
LEMMA RequestEnds ==
  ASSUME CollectInv, NEW w \in Threads, Changes(thread[w].op), Go(w, NoRequest),
         UNCHANGED <<account, day, overlap>>, halfway' \in BOOLEAN, halfway => halfway',
         ~halfway' => ~At(w, "disable", "status")
  PROVE  CollectInv'
<1>1. CollectTypes'
  BY TypesAfter DEF CollectInv, CollectTypes, account, day, IsThread
<1>2. NoRequest.op = "idle" /\ ~Changes(NoRequest.op)
  BY DEF NoRequest, Changes
<1>3. ~halfway' /\ Sound =>
           /\ Opens(row') => row'.secret = auth'.secret
           /\ row'.status # "disabled" => ~auth'.disabled
  BY MayLogIn DEF account, CollectInv, AccountFits
<1> QED
  BY <1>1, <1>2, <1>3, ChangerMoves DEF account

LEMMA EnableLookKeeps ==
  ASSUME CollectInv, NEW w \in Threads, EnableLook(w)
  PROVE  CollectInv'
<1>1. PICK q : q = thread[w]
  OBVIOUS
<1>2. q.op = "enable" /\ q.pc = "look" /\ Changes(thread[w].op) /\ ~At(w, "disable", "status")
  BY <1>1 DEF EnableLook, At, Changes
<1>3. IsRequest(q)
  BY <1>1, <1>2, IsRequested DEF CollectInv
<1>4. PICK x \in {"again", "ok", "reset"} :
        /\ Go(w, [q EXCEPT !.pc = x])
        /\ x = "again" => row.status # "enabled"
        /\ x = "reset" => row.status = "enabled" /\ ~Opens(row)
  BY <1>1 DEF EnableLook
<1>5. PICK r : r = [q EXCEPT !.pc = x]
  OBVIOUS
<1>6. IsRequest(r) /\ r.op = q.op /\ r.pc = x
  BY <1>2, <1>3, <1>5, PcMoves DEF Places
<1>7. UNCHANGED <<account, day, history>> /\ Go(w, r)
  BY <1>4, <1>5 DEF EnableLook
<1>8. CollectTypes'
  BY <1>6, <1>7, TypesAfter DEF CollectInv, CollectTypes, IsThread, account, day, history
<1>9. Sound => Ready(r)'
  BY <1>2, <1>4, <1>6, <1>7, MayLogIn DEF Ready, Opens, account
<1>10. Sound => (Opens(row') => row'.secret = auth'.secret) /\ (row'.status # "disabled" => ~auth'.disabled)
  BY <1>2, <1>7, MayLogIn DEF CollectInv, AccountFits, account
<1> QED
  BY <1>1, <1>2, <1>6, <1>7, <1>8, <1>9, <1>10, ChangerMoves DEF history, account
(* A call of a changer that is answered, or its answer is lost.             *)
LEMMA AnsweredKeeps ==
  ASSUME CollectInv, NEW w \in Threads, Changes(thread[w].op), ~At(w, "disable", "status"),
         NEW r, IsRequest(r), r.op = thread[w].op, Answered(w, r),
         UNCHANGED <<key, day, overlap>>,
         auth' \in [secret : Nat, disabled : BOOLEAN], row' \in RowType, row'.key <= key,
         Sound => /\ Opens(row') => row'.secret = auth'.secret
                  /\ row'.status # "disabled" /\ ~(r.op = "disable" /\ r.pc = "status") => ~auth'.disabled
                  /\ Ready(r)'
  PROVE  CollectInv'
<1>1. CASE Go(w, r) /\ UNCHANGED halfway
  <2>1. CollectTypes'
    BY <1>1, TypesAfter DEF CollectInv, CollectTypes, IsThread, day
  <2> QED
    BY <1>1, <2>1, ChangerMoves
<1>2. CASE Go(w, NoRequest) /\ halfway' = (halfway \/ r.pc = "status")
  <2>1. CollectTypes'
    BY <1>2, TypesAfter DEF CollectInv, CollectTypes, IsThread, day
  <2>2. NoRequest.op = "idle" /\ ~Changes(NoRequest.op)
    BY DEF NoRequest, Changes
  <2> QED
    BY <1>2, <2>1, <2>2, ChangerMoves
<1> QED
  BY <1>1, <1>2 DEF Answered

LEMMA EnableAgainKeeps ==
  ASSUME CollectInv, NEW w \in Threads, EnableAgain(w)
  PROVE  CollectInv'
<1>1. PICK q : q = thread[w]
  OBVIOUS
<1>2. q.op = "enable" /\ q.pc = "again" /\ Changes(thread[w].op) /\ ~At(w, "disable", "status")
  BY <1>1 DEF EnableAgain, At, Changes
<1>3. IsRequest(q)
  BY <1>1, <1>2, IsRequested DEF CollectInv
<1>4. UNCHANGED <<account, day, overlap>>
  BY DEF EnableAgain
<1>5. row \in RowType /\ row.key <= key /\ row.key \in Nat
  BY DEF CollectInv, CollectTypes, RowType
<1>6. Sound => (Opens(row') => row'.secret = auth'.secret) /\ (row'.status # "disabled" => ~auth'.disabled)
  BY <1>2, <1>4, MayLogIn DEF CollectInv, AccountFits, account
<1>7. Sound => row.status # "enabled"
  BY <1>1, <1>2 DEF CollectInv, AccountFits, Ready
<1>8. CASE row.status = "disabled" /\ Go(w, [q EXCEPT !.pc = "allow", !.row = [row EXCEPT !.status = "enabled"]])
           /\ UNCHANGED halfway
  <2>1. PICK u : u = [row EXCEPT !.status = "enabled"]
    OBVIOUS
  <2>2. u \in RowType /\ u.status = "enabled" /\ u.key = row.key /\ u.secret = row.secret
    BY <1>5, <2>1 DEF RowType
  <2>3. PICK r : r = [q EXCEPT !.pc = "allow", !.row = u]
    OBVIOUS
  <2>4. "allow" \in Places(q.op) /\ u.key <= key
    BY <1>2, <1>5, <2>2 DEF Places
  <2>5. IsRequest(r) /\ r.op = q.op /\ r.pc = "allow" /\ r.row = u
    <3>1. r = Request(q.op, "allow", u, q.steps, q.then, q.totals, q.moved, q.fresh)
      BY <1>3, <2>3, RequestHas, TwoFields
    <3> QED
      BY <1>3, <2>2, <2>4, <3>1, RequestHas, RequestIs
  <2>6. Go(w, r)
    BY <1>8, <2>1, <2>3
  <2>7. CollectTypes'
    BY <1>4, <1>8, <2>5, <2>6, TypesAfter DEF CollectInv, CollectTypes, IsThread, account, day
  <2>8. Ready(r)'
    BY <1>2, <1>4, <1>8, <2>2, <2>5 DEF Ready, account
  <2> QED
    BY <1>1, <1>2, <1>4, <1>6, <1>8, <2>5, <2>6, <2>7, <2>8, ChangerMoves DEF account
<1>9. CASE /\ Go(w, [q EXCEPT !.pc = "create"]) /\ halfway' \in {halfway, TRUE}
           /\ row.status = "disabled" => halfway'
  <2>1. PICK r : r = [q EXCEPT !.pc = "create"]
    OBVIOUS
  <2>2. IsRequest(r) /\ r.op = q.op /\ r.pc = "create"
    BY <1>2, <1>3, <2>1, PcMoves DEF Places
  <2>3. CollectTypes'
    BY <1>4, <1>9, <2>1, <2>2, TypesAfter DEF CollectInv, CollectTypes, IsThread, account, day
  <2>4. ~halfway' /\ Sound => Ready(r)'
    BY <1>2, <1>4, <1>5, <1>7, <1>9, <2>2 DEF Ready, account, RowType
  <2>5. halfway => halfway'
    BY <1>9
  <2>6. Go(w, r)
    BY <1>9, <2>1
  <2> QED
    BY <1>1, <1>2, <1>4, <1>6, <2>2, <2>3, <2>4, <2>5, <2>6, ChangerMoves DEF account
<1> QED
  BY <1>1, <1>8, <1>9 DEF EnableAgain

LEMMA AllowKeeps ==
  ASSUME CollectInv, NEW w \in Threads, Allow(w)
  PROVE  CollectInv'
<1>1. PICK q : q = thread[w]
  OBVIOUS
<1>2. q.op = "enable" /\ q.pc = "allow" /\ Changes(thread[w].op) /\ ~At(w, "disable", "status")
  BY <1>1 DEF Allow, At, Changes
<1>3. IsRequest(q)
  BY <1>1, <1>2, IsRequested DEF CollectInv
<1>4. PICK a : a = auth'
  OBVIOUS
<1>5. a \in [secret : Nat, disabled : BOOLEAN] /\ a.secret = auth.secret /\ a.disabled = FALSE
  BY <1>4 DEF Allow, CollectInv, CollectTypes
<1>6. UNCHANGED <<row, key, day, overlap>>
  BY DEF Allow
<1>7. PICK r : /\ Answered(w, r)
               /\ r = IF Opens(q.row) THEN [q EXCEPT !.pc = "put"] ELSE [q EXCEPT !.pc = "reset", !.then = "put"]
  BY <1>1 DEF Allow
<1>8. "put" \in Places(q.op) /\ "reset" \in Places(q.op)
  BY <1>2 DEF Places
<1>9. IsRequest(r) /\ r.op = q.op /\ r.row = q.row /\ r.pc = IF Opens(q.row) THEN "put" ELSE "reset"
  <2>1. CASE Opens(q.row)
    BY <1>3, <1>7, <1>8, <2>1, PcMoves
  <2>2. CASE ~Opens(q.row)
    <3>1. r = [q EXCEPT !.pc = "reset", !.then = "put"]
      BY <1>7, <2>2
    <3>2. r = Request(q.op, "reset", q.row, q.steps, "put", q.totals, q.moved, q.fresh)
      BY <1>3, <3>1, RequestHas, TwoFields
    <3>3. "put" \in {"ok", "put"} /\ q.op # "disable"
      BY <1>2
    <3>4. IsRequest(r) /\ r.op = q.op /\ r.pc = "reset" /\ r.row = q.row
      BY <1>3, <1>8, <3>2, <3>3, RequestHas, RequestIs
    <3> QED
      BY <2>2, <3>4
  <2> QED
    BY <2>1, <2>2
<1>10. Sound => row.status = "disabled" /\ q.row.status = "enabled" /\ q.row.key = row.key /\ q.row.secret = row.secret
  BY <1>1, <1>2 DEF CollectInv, AccountFits, Ready
<1>11. Sound => (Opens(row) => row.secret = auth.secret)
  BY DEF CollectInv, AccountFits
<1>12. ASSUME Sound PROVE Ready(r)'
  <2>1. CASE Opens(q.row)
    BY <1>2, <1>4, <1>5, <1>6, <1>9, <1>10, <1>11, <1>12, <2>1 DEF Ready, Opens
  <2>2. CASE ~Opens(q.row)
    BY <1>2, <1>4, <1>5, <1>6, <1>9, <1>10, <1>11, <1>12, <2>2 DEF Ready, Opens
  <2> QED
    BY <2>1, <2>2
<1>13. Sound => (Opens(row') => row'.secret = auth'.secret) /\ ~auth'.disabled
  BY <1>4, <1>5, <1>6, <1>11
<1>14. row' \in RowType /\ row'.key <= key
  BY <1>6 DEF CollectInv, CollectTypes
<1> QED
  BY <1>1, <1>2, <1>4, <1>5, <1>6, <1>7, <1>9, <1>12, <1>13, <1>14, AnsweredKeeps

LEMMA SealedIsRow ==
  ASSUME key \in Nat, NEW n \in Nat
  PROVE  /\ Sealed(n) \in RowType /\ Sealed(n).key <= key
         /\ Sealed(n).status = "enabled" /\ Sealed(n).key = key /\ Sealed(n).secret = n
BY DEF Sealed, RowType

LEMMA CreateKeeps ==
  ASSUME CollectInv, NEW w \in Threads, Create(w)
  PROVE  CollectInv'
<1>1. PICK q : q = thread[w]
  OBVIOUS
<1>2. q.op = "enable" /\ q.pc = "create" /\ Changes(thread[w].op) /\ ~At(w, "disable", "status")
  BY <1>1 DEF Create, At, Changes
<1>3. IsRequest(q)
  BY <1>1, <1>2, IsRequested DEF CollectInv
<1>4. UNCHANGED <<row, key, day, overlap>>
  BY DEF Create
<1>5. Sound => row.status = "none"
  BY <1>1, <1>2 DEF CollectInv, AccountFits, Ready
<1>6. Sound => ~auth.disabled
  BY <1>2, <1>5, MayLogIn
<1>7. row' \in RowType /\ row'.key <= key /\ key \in Nat
  BY <1>4 DEF CollectInv, CollectTypes
<1>8. "put" \in Places(q.op) /\ "reset" \in Places(q.op)
  BY <1>2 DEF Places
<1>9. CASE auth.secret = 0
  <2>1. PICK u : u = Sealed(1)
    OBVIOUS
  <2>2. PICK r : r = [q EXCEPT !.pc = "put", !.row = u]
    OBVIOUS
  <2>3. u \in RowType /\ u.key <= key /\ u.status = "enabled" /\ u.key = key /\ u.secret = 1
    BY <1>7, <2>1, SealedIsRow
  <2>4. IsRequest(r) /\ r.op = q.op /\ r.pc = "put" /\ r.row = u
    <3>1. r = Request(q.op, "put", u, q.steps, q.then, q.totals, q.moved, q.fresh)
      BY <1>3, <2>2, RequestHas, TwoFields
    <3> QED
      <4>1. q.then \in {"ok", "put"} /\ (q.op = "disable" => q.then = "ok")
        BY <1>3, RequestHas
      <4> QED
        BY <1>3, <1>8, <2>3, <3>1, <4>1, RequestIs
  <2>5. Answered(w, r) /\ auth' = [secret |-> 1, disabled |-> FALSE]
    BY <1>1, <1>9, <2>1, <2>2 DEF Create
  <2>6. Sound => Ready(r)' /\ (Opens(row') => row'.secret = auth'.secret) /\ ~auth'.disabled
    BY <1>2, <1>4, <1>5, <2>3, <2>4, <2>5 DEF Ready, Opens
  <2> QED
    BY <1>1, <1>2, <1>4, <1>7, <2>4, <2>5, <2>6, AnsweredKeeps
<1>10. CASE auth.secret # 0
  <2>1. PICK r : r = [q EXCEPT !.pc = "reset"]
    OBVIOUS
  <2>2. IsRequest(r) /\ r.op = q.op /\ r.pc = "reset"
    BY <1>3, <1>8, <2>1, PcMoves
  <2>3. Answered(w, r) /\ UNCHANGED auth
    BY <1>1, <1>10, <2>1 DEF Create
  <2>4. Sound => Ready(r)' /\ (Opens(row') => row'.secret = auth'.secret) /\ ~auth'.disabled
    BY <1>2, <1>4, <1>5, <1>6, <2>2, <2>3 DEF Ready, Opens
  <2>5. auth' \in [secret : Nat, disabled : BOOLEAN]
    BY <2>3 DEF CollectInv, CollectTypes
  <2> QED
    BY <1>1, <1>2, <1>4, <1>7, <2>2, <2>3, <2>4, <2>5, AnsweredKeeps
<1> QED
  BY <1>9, <1>10

LEMMA ResetKeeps ==
  ASSUME CollectInv, NEW w \in Threads, ResetSecret(w)
  PROVE  CollectInv'
<1>1. PICK q : q = thread[w]
  OBVIOUS
<1>2. q.op = "enable" /\ q.pc = "reset" /\ Changes(thread[w].op) /\ ~At(w, "disable", "status")
  BY <1>1 DEF ResetSecret, At, Changes
<1>3. IsRequest(q)
  BY <1>1, <1>2, IsRequested DEF CollectInv
<1>4. UNCHANGED <<row, key, day, overlap>>
  BY DEF ResetSecret
<1>5. PICK a : a = auth'
  OBVIOUS
<1>6. PICK n \in Nat : n = auth.secret + 1
  BY DEF CollectInv, CollectTypes
<1>7. a \in [secret : Nat, disabled : BOOLEAN] /\ a.secret = n /\ a.disabled = auth.disabled
  BY <1>5, <1>6 DEF ResetSecret, CollectInv, CollectTypes
<1>8. Sound => ~Opens(row) /\ ~auth.disabled
  BY <1>1, <1>2 DEF CollectInv, AccountFits, Ready
<1>9. row' \in RowType /\ row'.key <= key /\ key \in Nat
  BY <1>4 DEF CollectInv, CollectTypes
<1>10. PICK u : u = Sealed(n)
  OBVIOUS
<1>11. PICK r : r = [q EXCEPT !.pc = "put", !.row = u]
  OBVIOUS
<1>12. u \in RowType /\ u.key <= key /\ u.status = "enabled" /\ u.key = key /\ u.secret = n
  BY <1>9, <1>10, SealedIsRow
<1>13. IsRequest(r) /\ r.op = q.op /\ r.pc = "put" /\ r.row = u
  <2>1. "put" \in Places(q.op)
    BY <1>2 DEF Places
  <2>2. r = Request(q.op, "put", u, q.steps, q.then, q.totals, q.moved, q.fresh)
    BY <1>3, <1>11, RequestHas, TwoFields
  <2> QED
    BY <1>3, <1>12, <2>1, <2>2, RequestHas, RequestIs
<1>14. Answered(w, r)
  BY <1>1, <1>6, <1>10, <1>11 DEF ResetSecret
<1>15. Sound => Ready(r)' /\ (Opens(row') => row'.secret = auth'.secret) /\ ~auth'.disabled
  BY <1>2, <1>4, <1>5, <1>7, <1>8, <1>12, <1>13 DEF Ready, Opens
<1> QED
  BY <1>1, <1>2, <1>4, <1>5, <1>7, <1>9, <1>13, <1>14, <1>15, AnsweredKeeps

LEMMA PutKeeps ==
  ASSUME CollectInv, NEW w \in Threads, Put(w)
  PROVE  CollectInv'
<1>1. PICK q : q = thread[w]
  OBVIOUS
<1>2. q.op = "enable" /\ q.pc = "put" /\ Changes(thread[w].op) /\ ~At(w, "disable", "status")
  BY <1>1 DEF Put, At, Changes
<1>3. IsRequest(q)
  BY <1>1, <1>2, IsRequested DEF CollectInv
<1>4. row' = q.row /\ UNCHANGED <<auth, key, day, overlap>>
  BY <1>1 DEF Put
<1>5. Sound => q.row.status = "enabled" /\ q.row.key = key /\ q.row.secret = auth.secret /\ ~auth.disabled
  BY <1>1, <1>2 DEF CollectInv, AccountFits, Ready
<1>6. row' \in RowType /\ row'.key <= key /\ auth' \in [secret : Nat, disabled : BOOLEAN]
  BY <1>3, <1>4 DEF IsRequest, CollectInv, CollectTypes
<1>7. PICK r : r = [q EXCEPT !.pc = "jobs", !.steps = RegisterBranchJobs]
  OBVIOUS
<1>8. IsRequest(r) /\ r.op = q.op /\ r.row = q.row /\ r.pc = "jobs"
  <2>1. "jobs" \in Places(q.op)
    BY <1>2 DEF Places
  <2>2. r = Request(q.op, "jobs", q.row, RegisterBranchJobs, q.then, q.totals, q.moved, q.fresh)
    BY <1>3, <1>7, RequestHas, TwoFields
  <2> QED
    BY <1>3, <2>1, <2>2, RequestHas, RequestIs
<1>9. Answered(w, r)
  BY <1>1, <1>7 DEF Put
<1>10. Sound => Ready(r)' /\ (Opens(row') => row'.secret = auth'.secret) /\ ~auth'.disabled
  BY <1>2, <1>4, <1>5, <1>8 DEF Ready, Opens
<1> QED
  BY <1>1, <1>2, <1>4, <1>6, <1>8, <1>9, <1>10, AnsweredKeeps
LEMMA DisableLookKeeps ==
  ASSUME CollectInv, NEW w \in Threads, DisableLook(w)
  PROVE  CollectInv'
<1>1. PICK q : q = thread[w]
  OBVIOUS
<1>2. q.op = "disable" /\ q.pc = "look" /\ Changes(thread[w].op) /\ ~At(w, "disable", "status")
  BY <1>1 DEF DisableLook, At, Changes
<1>3. IsRequest(q)
  BY <1>1, <1>2, IsRequested DEF CollectInv
<1>4. PICK x \in {"forbid", "ok"} : Go(w, [q EXCEPT !.pc = x]) /\ (x = "forbid" => row.status = "enabled")
  BY <1>1 DEF DisableLook
<1>5. PICK r : r = [q EXCEPT !.pc = x]
  OBVIOUS
<1>6. IsRequest(r) /\ r.op = q.op /\ r.pc = x
  BY <1>2, <1>3, <1>5, PcMoves DEF Places
<1>7. UNCHANGED <<account, day, history>> /\ Go(w, r)
  BY <1>4, <1>5 DEF DisableLook
<1>8. CollectTypes'
  BY <1>6, <1>7, TypesAfter DEF CollectInv, CollectTypes, IsThread, account, day, history
<1>9. Sound => Ready(r)'
  BY <1>2, <1>4, <1>6, <1>7 DEF Ready, Opens, account
<1>10. Sound => (Opens(row') => row'.secret = auth'.secret) /\ (row'.status # "disabled" => ~auth'.disabled)
  BY <1>2, <1>7, MayLogIn DEF CollectInv, AccountFits, account
<1> QED
  BY <1>1, <1>2, <1>6, <1>7, <1>8, <1>9, <1>10, ChangerMoves DEF history, account

LEMMA ForbidKeeps ==
  ASSUME CollectInv, NEW w \in Threads, Forbid(w)
  PROVE  CollectInv'
<1>1. PICK q : q = thread[w]
  OBVIOUS
<1>2. q.op = "disable" /\ q.pc = "forbid" /\ Changes(thread[w].op) /\ ~At(w, "disable", "status")
  BY <1>1 DEF Forbid, At, Changes
<1>3. IsRequest(q)
  BY <1>1, <1>2, IsRequested DEF CollectInv
<1>4. UNCHANGED <<row, key, day, overlap>>
  BY DEF Forbid
<1>5. PICK a : a = auth'
  OBVIOUS
<1>6. a \in [secret : Nat, disabled : BOOLEAN] /\ a.secret = auth.secret
  BY <1>5 DEF Forbid, CollectInv, CollectTypes
<1>7. PICK r : r = [q EXCEPT !.pc = "status"]
  OBVIOUS
<1>8. IsRequest(r) /\ r.op = q.op /\ r.pc = "status"
  BY <1>2, <1>3, <1>7, PcMoves DEF Places
<1>9. Answered(w, r)
  BY <1>1, <1>7 DEF Forbid
<1>10. row' \in RowType /\ row'.key <= key
  BY <1>4 DEF CollectInv, CollectTypes
<1>11. Sound => Ready(r)' /\ (Opens(row') => row'.secret = auth'.secret)
  BY <1>1, <1>2, <1>4, <1>5, <1>6, <1>8 DEF CollectInv, AccountFits, Ready, Opens
<1> QED
  BY <1>1, <1>2, <1>4, <1>5, <1>6, <1>8, <1>9, <1>10, <1>11, AnsweredKeeps

LEMMA SetStatusKeeps ==
  ASSUME CollectInv, NEW w \in Threads, SetStatus(w)
  PROVE  CollectInv'
<1>1. PICK q : q = thread[w]
  OBVIOUS
<1>2. q.op = "disable" /\ q.pc = "status" /\ Changes(thread[w].op)
  BY <1>1 DEF SetStatus, At, Changes
<1>3. IsRequest(q)
  BY <1>1, <1>2, IsRequested DEF CollectInv
<1>4. UNCHANGED <<auth, key, day, overlap>>
  BY DEF SetStatus
<1>5. PICK u : u = row'
  OBVIOUS
<1>6. u \in RowType /\ u.key <= key /\ u.key = row.key /\ u.secret = row.secret /\ u.status = "disabled"
  BY <1>5 DEF SetStatus, CollectInv, CollectTypes, RowType
<1>7. PICK r : r = [q EXCEPT !.pc = "jobs", !.steps = DeleteBranchJobs]
  OBVIOUS
<1>8. IsRequest(r) /\ r.op = q.op /\ r.row = q.row /\ r.pc = "jobs"
  <2>1. "jobs" \in Places(q.op)
    BY <1>2 DEF Places
  <2>2. r = Request(q.op, "jobs", q.row, DeleteBranchJobs, q.then, q.totals, q.moved, q.fresh)
    BY <1>3, <1>7, RequestHas, TwoFields
  <2> QED
    BY <1>3, <2>1, <2>2, RequestHas, RequestIs
<1>9. (Go(w, r) \/ Go(w, NoRequest)) /\ UNCHANGED halfway
  BY <1>1, <1>7, <1>8 DEF SetStatus, Answered, CollectInv, CollectTypes
<1>10. Sound => row.status = "enabled" /\ (Opens(row) => row.secret = auth.secret)
  BY <1>1, <1>2 DEF CollectInv, AccountFits, Ready
<1>11. Sound => Ready(r)' /\ (Opens(row') => row'.secret = auth'.secret)
  BY <1>2, <1>4, <1>5, <1>6, <1>8, <1>10 DEF Ready, Opens
<1>12. CASE Go(w, r)
  <2>1. CollectTypes'
    BY <1>4, <1>5, <1>6, <1>8, <1>9, <1>12, TypesAfter DEF CollectInv, CollectTypes, IsThread, day
  <2> QED
    BY <1>1, <1>2, <1>4, <1>5, <1>6, <1>8, <1>9, <1>11, <1>12, <2>1, ChangerMoves
<1>13. CASE Go(w, NoRequest)
  <2>1. CollectTypes'
    BY <1>4, <1>5, <1>6, <1>9, <1>13, TypesAfter DEF CollectInv, CollectTypes, IsThread, day
  <2>2. NoRequest.op = "idle" /\ ~Changes(NoRequest.op)
    BY DEF NoRequest, Changes
  <2> QED
    BY <1>1, <1>2, <1>4, <1>5, <1>6, <1>9, <1>11, <1>13, <2>1, <2>2, ChangerMoves
<1> QED
  BY <1>9, <1>12, <1>13

LEMMA CallJobKeeps ==
  ASSUME CollectInv, NEW w \in Threads, CallJob(w) \/ CallJobFails(w)
  PROVE  CollectInv'
<1>1. PICK q : q = thread[w]
  OBVIOUS
<1>2. q.pc = "jobs"
  BY <1>1 DEF CallJob, CallJobFails
<1>3. IsRequest(q)
  BY <1>1, <1>2, IsRequested DEF CollectInv
<1>4. Changes(thread[w].op) /\ ~At(w, "disable", "status")
  BY <1>1, <1>2, <1>3 DEF IsRequest, Places, Changes, At
<1>5. UNCHANGED <<account, day, history>>
  BY DEF CallJob, CallJobFails
<1>6. Sound => /\ Opens(row) => row.secret = auth.secret
               /\ row.status # "disabled" => ~auth.disabled
               /\ Ready(q)
  BY <1>1, <1>4, MayLogIn DEF CollectInv, AccountFits
<1>7. CASE Go(w, NoRequest)
  BY <1>4, <1>5, <1>7, RequestEnds DEF history, CollectInv, CollectTypes
<1>8. ASSUME NEW r, Go(w, r), IsRequest(r), r.op = q.op, r.row = q.row,
             r.pc = "jobs" \/ (r.pc = "put" /\ q.op = "enable") \/ r.pc = "ok"
      PROVE  CollectInv'
  <2>1. CollectTypes'
    BY <1>5, <1>8, TypesAfter DEF CollectInv, CollectTypes, IsThread, account, day, history
  <2>2. Sound => Ready(r)'
    BY <1>2, <1>5, <1>6, <1>8 DEF Ready, Opens, account
  <2> QED
    BY <1>1, <1>4, <1>5, <1>6, <1>8, <2>1, <2>2, ChangerMoves DEF account, history
<1>9. CASE Go(w, [q EXCEPT !.pc = q.then, !.then = "ok"])
  <2>1. PICK r : r = [q EXCEPT !.pc = q.then, !.then = "ok"]
    OBVIOUS
  <2>2. r = Request(q.op, q.then, q.row, q.steps, "ok", q.totals, q.moved, q.fresh)
    BY <1>3, <2>1, RequestHas, TwoFields
  <2>3. q.then \in Places(q.op) /\ "ok" \in {"ok", "put"}
    BY <1>1, <1>3, <1>4 DEF IsRequest, Places, Changes
  <2>4. IsRequest(r) /\ r.op = q.op /\ r.pc = q.then /\ r.row = q.row
    BY <1>3, <2>2, <2>3, RequestHas, RequestIs
  <2>5. r.pc = "ok" \/ (r.pc = "put" /\ q.op = "enable")
    BY <1>1, <1>3, <1>4, <2>4 DEF IsRequest, Changes
  <2> QED
    BY <1>8, <1>9, <2>1, <2>4, <2>5
<1>10. CASE Go(w, [q EXCEPT !.steps = Tail(q.steps)])
  <2>1. PICK r, n : r = [q EXCEPT !.steps = n] /\ n = Tail(q.steps)
    OBVIOUS
  <2>2. r = Request(q.op, q.pc, q.row, n, q.then, q.totals, q.moved, q.fresh)
    BY <1>3, <2>1, RequestHas, OneField
  <2>3. q.pc \in Places(q.op)
    BY <1>3 DEF IsRequest
  <2>4. IsRequest(r) /\ r.op = q.op /\ r.pc = q.pc /\ r.row = q.row
    BY <1>3, <2>2, <2>3, RequestHas, RequestIs
  <2> QED
    BY <1>2, <1>8, <1>10, <2>1, <2>4
<1> QED
  BY <1>1, <1>7, <1>9, <1>10 DEF CallJob, CallJobFails

LEMMA EndKeeps ==
  ASSUME CollectInv, NEW w \in Threads, CallFails(w) \/ Return(w), Changes(thread[w].op)
  PROVE  CollectInv'
<1>1. UNCHANGED <<account, day, overlap>> /\ Go(w, NoRequest) /\ halfway' \in BOOLEAN
  BY DEF CallFails, Return, history, CollectInv, CollectTypes
<1>2. (halfway => halfway') /\ (~halfway' => ~At(w, "disable", "status"))
  BY DEF CallFails, Return, history, At, CollectInv, CollectTypes
<1> QED
  BY <1>1, <1>2, RequestEnds
-----------------------------------------------------------------------------
(* Collecting.                                                              *)

LEMMA CollectMoves ==
  ASSUME CollectInv, NEW w \in Threads, thread[w].op = "collect", NEW r, Go(w, r), IsThread(r),
         r.op \in {"collect", "idle"}, ReadSoFar(r), daily' \in Reading, OneReading(daily'),
         UNCHANGED <<account, sold, settled, overlap>>, halfway' \in BOOLEAN, halfway => halfway'
  PROVE  CollectInv'
<1>1. CollectTypes'
  BY TypesAfter DEF CollectInv, CollectTypes, account
<1>2. \A v \in Threads : thread'[v] = IF v = w THEN r ELSE thread[v]
  BY ThreadAfter DEF CollectInv
<1>3. DayFits'
  <2>1. \A v \in Threads : ReadSoFar(thread'[v])
    BY <1>2 DEF CollectInv, DayFits
  <2>2. \A v \in Threads : ReadSoFar(thread[v])'
    BY <2>1 DEF ReadSoFar, OneReading
  <2> QED
    BY <2>2 DEF DayFits, OneReading
<1>4. \A v \in Threads : Changes(thread'[v].op) => thread'[v] = thread[v]
  BY <1>2 DEF Changes
<1>5. \A v \in Threads : At(v, "disable", "status") => thread'[v] = thread[v]
  BY <1>2 DEF At
<1> QED
  BY <1>1, <1>3, <1>4, <1>5, OthersMove

LEMMA CollectIsThread ==
  ASSUME CollectInv, NEW w \in Threads, thread[w].op = "collect"
  PROVE  /\ ReadSoFar(thread[w]) /\ IsThread(thread[w])
         /\ thread[w].pc # "save" => IsRequest(thread[w])
         /\ thread[w].pc = "save" => IsSaving(thread[w])
         /\ IsThread(NoRequest) /\ ReadSoFar(NoRequest) /\ NoRequest.op = "idle"
         /\ daily \in Reading /\ OneReading(daily)
<1>1. IsThread(NoRequest) /\ ReadSoFar(NoRequest) /\ NoRequest.op = "idle"
  BY DEF IsThread, ReadSoFar, NoRequest
<1>2. ReadSoFar(thread[w]) /\ IsThread(thread[w]) /\ daily \in Reading /\ OneReading(daily)
  BY DEF CollectInv, DayFits, CollectTypes
<1>3. thread[w] # NoRequest
  BY <1>1
<1>4. \A r : IsRequest(r) => r.pc # "save"
  BY DEF IsRequest, Places
<1>5. \A r : IsSaving(r) => r.pc = "save"
  BY DEF IsSaving
<1> QED
  BY <1>1, <1>2, <1>3, <1>4, <1>5 DEF IsThread

LEMMA BearerKeeps ==
  ASSUME CollectInv, NEW w \in Threads, Bearer(w)
  PROVE  CollectInv'
<1>1. PICK q : q = thread[w]
  OBVIOUS
<1>2. q.op = "collect" /\ q.pc = "look"
  BY <1>1 DEF Bearer, At
<1>3. IsRequest(q) /\ ReadSoFar(q)
  BY <1>1, <1>2, CollectIsThread
<1>4. PICK r : r = [q EXCEPT !.pc = "totals"]
  OBVIOUS
<1>5. IsRequest(r) /\ r.op = q.op /\ r.pc = "totals" /\ r.fresh = q.fresh
  BY <1>2, <1>3, <1>4, PcMoves DEF Places
<1>6. ReadSoFar(r)
  BY <1>2, <1>3, <1>5 DEF ReadSoFar
<1>7. UNCHANGED <<account, day, history>> /\ (Go(w, r) \/ Go(w, NoRequest))
  BY <1>1, <1>4 DEF Bearer
<1> QED
  BY <1>1, <1>2, <1>5, <1>6, <1>7, CollectIsThread, CollectMoves DEF day, history, IsThread, CollectInv, CollectTypes

LEMMA ReadTotalsKeeps ==
  ASSUME CollectInv, NEW w \in Threads, ReadTotals(w)
  PROVE  CollectInv'
<1>1. PICK q : q = thread[w]
  OBVIOUS
<1>2. q.op = "collect" /\ q.pc = "totals"
  BY <1>1 DEF ReadTotals, At
<1>3. IsRequest(q) /\ ReadSoFar(q) /\ Shaped(q)
  BY <1>1, <1>2, CollectIsThread, RequestHas
<1>4. PICK s : s = [q EXCEPT !.pc = "details", !.totals = sold]
  OBVIOUS
<1>5. s = Request(q.op, "details", q.row, q.steps, q.then, sold, q.moved, q.fresh)
  BY <1>3, <1>4, TwoFields
<1>6. /\ Shaped(s) /\ s.op = q.op /\ s.pc = "details" /\ s.row = q.row /\ s.then = q.then
      /\ s.totals = sold /\ s.fresh = q.fresh
  BY <1>5 DEF Shaped, Request
<1>7. PICK r : r = [q EXCEPT !.pc = "details", !.totals = sold, !.moved = FALSE]
  OBVIOUS
<1>8. r = [s EXCEPT !.moved = FALSE]
  BY <1>4, <1>7
<1>9. r = Request(s.op, s.pc, s.row, s.steps, s.then, s.totals, FALSE, s.fresh)
  BY <1>6, <1>8, OneField
<1>10. /\ Shaped(r) /\ r.op = "collect" /\ r.pc = "details" /\ r.row = q.row /\ r.then = q.then
       /\ r.totals = sold /\ r.moved = FALSE /\ r.fresh = q.fresh
  BY <1>2, <1>6, <1>9 DEF Shaped, Request
<1>11. IsRequest(r)
  BY <1>3, <1>10 DEF IsRequest, Places, CollectInv, CollectTypes
<1>12. ReadSoFar(r)
  BY <1>2, <1>3, <1>10 DEF ReadSoFar
<1>13. UNCHANGED <<account, day, history>> /\ Go(w, r)
  BY <1>1, <1>7 DEF ReadTotals
<1> QED
  BY <1>1, <1>2, <1>10, <1>11, <1>12, <1>13, CollectIsThread, CollectMoves
     DEF day, history, IsThread, CollectInv, CollectTypes

LEMMA ReadDetailsKeeps ==
  ASSUME CollectInv, NEW w \in Threads, ReadDetails(w)
  PROVE  CollectInv'
<1>1. PICK q : q = thread[w]
  OBVIOUS
<1>2. q.op = "collect" /\ q.pc = "details"
  BY <1>1 DEF ReadDetails, At
<1>3. IsRequest(q) /\ ReadSoFar(q)
  BY <1>1, <1>2, CollectIsThread
<1>4. PICK d : d = [totals |-> q.totals, details |-> sold, moved |-> q.moved, fresh |-> q.fresh]
  OBVIOUS
<1>5. d \in Reading
  BY <1>3, <1>4 DEF IsRequest, Reading, CollectInv, CollectTypes
<1>6. OneReading(d)
  BY <1>2, <1>3, <1>4 DEF ReadSoFar, OneReading
<1>7. PICK r : r = [op |-> "collect", pc |-> "save", day |-> d]
  OBVIOUS
<1>8. IsSaving(r) /\ r.op = "collect" /\ ReadSoFar(r)
  BY <1>5, <1>6, <1>7 DEF IsSaving, ReadSoFar
<1>9. UNCHANGED <<account, day, history>> /\ Go(w, r)
  BY <1>1, <1>4, <1>7 DEF ReadDetails
<1> QED
  BY <1>1, <1>2, <1>8, <1>9, CollectIsThread, CollectMoves
     DEF day, history, IsThread, CollectInv, CollectTypes

LEMMA SaveKeeps ==
  ASSUME CollectInv, NEW w \in Threads, Save(w)
  PROVE  CollectInv'
<1>1. thread[w].op = "collect" /\ thread[w].pc = "save" /\ daily' = thread[w].day /\ Go(w, NoRequest)
  BY DEF Save, At
<1>2. thread[w].day \in Reading /\ OneReading(thread[w].day)
  BY <1>1, CollectIsThread DEF IsSaving, ReadSoFar
<1>3. UNCHANGED <<account, sold, settled, history>>
  BY DEF Save
<1> QED
  BY <1>1, <1>2, <1>3, CollectIsThread, CollectMoves DEF history, CollectInv, CollectTypes

LEMMA CollectEnds ==
  ASSUME CollectInv, NEW w \in Threads, CallFails(w), thread[w].op = "collect"
  PROVE  CollectInv'
<1>1. UNCHANGED <<account, day, overlap>> /\ Go(w, NoRequest) /\ halfway' \in BOOLEAN /\ (halfway => halfway')
  BY DEF CallFails, CollectInv, CollectTypes
<1> QED
  BY <1>1, CollectIsThread, CollectMoves DEF day
-----------------------------------------------------------------------------
(* The other steps.                                                         *)

LEMMA FreshRequest ==
  ASSUME CollectTypes, NEW op \in {"enable", "disable", "collect"}, NEW r,
         r = [op |-> op, pc |-> "look", row |-> NoRow, steps |-> <<>>, then |-> "ok",
              totals |-> {}, moved |-> FALSE, fresh |-> settled]
  PROVE  IsRequest(r) /\ r.op = op /\ r.pc = "look" /\ ReadSoFar(r) /\ Ready(r)
<1>1. Shaped(r) /\ r.op = op /\ r.pc = "look" /\ r.row = NoRow /\ r.then = "ok" /\ r.totals = {}
      /\ r.moved = FALSE /\ r.fresh = settled
  BY DEF Shaped, Request
<1>2. NoRow \in RowType /\ NoRow.key <= key
  BY DEF NoRow, RowType, CollectTypes
<1>3. "look" \in Places(op)
  BY DEF Places
<1> QED
  BY <1>1, <1>2, <1>3 DEF IsRequest, ReadSoFar, Ready, CollectTypes

LEMMA BeginRequestKeeps ==
  ASSUME CollectInv, NEW w \in Threads, NEW op \in Ops, BeginRequest(w, op)
  PROVE  CollectInv'
<1>1. PICK r : r = [op |-> op, pc |-> "look", row |-> NoRow, steps |-> <<>>, then |-> "ok",
                    totals |-> {}, moved |-> FALSE, fresh |-> settled]
  OBVIOUS
<1>2. op \in {"enable", "disable", "collect"}
  BY CollectAssumption
<1>3. IsRequest(r) /\ r.op = op /\ r.pc = "look" /\ ReadSoFar(r) /\ Ready(r)
  BY <1>1, <1>2, FreshRequest DEF CollectInv
<1>4. Go(w, r) /\ thread[w] = NoRequest /\ UNCHANGED <<account, day, halfway>>
  BY <1>1 DEF BeginRequest
<1>5. overlap' = (overlap \/ (Changes(op) /\ ~Quiet)) /\ overlap' \in BOOLEAN
  BY DEF BeginRequest, CollectInv, CollectTypes
<1>6. CollectTypes'
  BY <1>3, <1>4, <1>5, TypesAfter DEF CollectInv, CollectTypes, IsThread, account, day
<1>7. \A v \in Threads : thread'[v] = IF v = w THEN r ELSE thread[v]
  BY <1>4, ThreadAfter DEF CollectInv
<1>8. NoRequest.op = "idle"
  BY DEF NoRequest
<1>9. DayFits'
  <2>1. \A v \in Threads : ReadSoFar(thread'[v])
    BY <1>3, <1>7 DEF CollectInv, DayFits
  <2>2. \A v \in Threads : ReadSoFar(thread[v])'
    BY <1>4, <2>1 DEF ReadSoFar, OneReading, day
  <2>3. OneReading(daily)'
    BY <1>4 DEF CollectInv, DayFits, OneReading, day
  <2> QED
    BY <2>2, <2>3 DEF DayFits
<1>10. CASE ~Changes(op)
  <2>1. overlap' = overlap
    BY <1>5, <1>10 DEF CollectInv, CollectTypes
  <2>2. \A v \in Threads : Changes(thread'[v].op) => thread'[v] = thread[v]
    BY <1>3, <1>7, <1>10
  <2>3. \A v \in Threads : At(v, "disable", "status") => thread'[v] = thread[v]
    BY <1>4, <1>7, <1>8 DEF At
  <2> QED
    BY <1>4, <1>6, <1>9, <2>1, <2>2, <2>3, OthersMove
<1>11. CASE Changes(op)
  <2>1. ~overlap' => ~overlap /\ Quiet
    BY <1>5, <1>11
  <2>2. ~overlap' => \A v \in Threads : Changes(thread'[v].op) => v = w
    BY <1>7, <2>1 DEF Quiet
  <2>3. OneChanger'
    BY <2>2 DEF OneChanger, Changes
  <2>4. AccountFits'
    <3>1. SUFFICES ASSUME Sound'
                   PROVE  /\ Opens(row)' => row'.secret = auth'.secret
                          /\ row'.status # "disabled" /\ (\A v \in Threads : ~At(v, "disable", "status")') => ~auth'.disabled
                          /\ \A v \in Threads : Changes(thread'[v].op) => Ready(thread[v])'
      BY DEF AccountFits, Changes
    <3>2. Sound /\ Quiet
      BY <1>4, <2>1, <3>1 DEF Sound
    <3>3. Opens(row)' => row'.secret = auth'.secret
      BY <1>4, <3>2 DEF Opens, account, CollectInv, AccountFits
    <3>4. \A v \in Threads : ~At(v, "disable", "status")
      BY <3>2 DEF Quiet, At, Changes
    <3>5. row'.status # "disabled" => ~auth'.disabled
      BY <1>4, <3>2, <3>4 DEF account, CollectInv, AccountFits
    <3>6. ASSUME NEW v \in Threads, Changes(thread'[v].op) PROVE Ready(thread[v])'
      <4>1. thread'[v] = r
        BY <1>7, <2>2, <3>1, <3>6 DEF Sound
      <4> QED
        BY <1>3, <4>1 DEF Ready
    <3> QED
      BY <3>3, <3>5, <3>6
  <2> QED
    BY <1>6, <1>9, <2>3, <2>4 DEF CollectInv
<1> QED
  BY <1>10, <1>11

(* A sale marks the readings it falls into and changes nothing else of them.*)
LEMMA SellKeeps ==
  ASSUME CollectInv, NEW i \in Items, Sell(i)
  PROVE  CollectInv'
<1>1. UNCHANGED <<account, settled, daily, history>> /\ ~settled /\ sold' \subseteq Items
  BY DEF Sell, CollectInv, CollectTypes
<1>2. /\ thread' = [v \in Threads |-> thread'[v]]
      /\ \A v \in Threads : thread'[v] = IF thread[v].pc = "details" THEN [thread[v] EXCEPT !.moved = TRUE]
                                         ELSE thread[v]
  BY DEF Sell
<1>3. ASSUME NEW v \in Threads, thread[v].pc = "details"
      PROVE  /\ IsRequest(thread'[v]) /\ thread'[v].op = "collect" /\ thread'[v].pc = "details"
             /\ thread'[v].moved /\ thread'[v].fresh = thread[v].fresh /\ thread[v].op = "collect"
  <2>1. PICK q : q = thread[v]
    OBVIOUS
  <2>2. IsRequest(q)
    BY <1>3, <2>1, IsRequested DEF CollectInv
  <2>3. PICK r : r = [q EXCEPT !.moved = TRUE]
    OBVIOUS
  <2>4. r = Request(q.op, q.pc, q.row, q.steps, q.then, q.totals, TRUE, q.fresh)
    BY <2>2, <2>3, OneField, RequestHas
  <2>5. /\ Shaped(r) /\ r.op = q.op /\ r.pc = q.pc /\ r.row = q.row /\ r.then = q.then
        /\ r.totals = q.totals /\ r.moved = TRUE /\ r.fresh = q.fresh
    BY <2>4 DEF Shaped, Request
  <2>6. IsRequest(r) /\ q.op = "collect"
    BY <1>3, <2>1, <2>2, <2>5 DEF IsRequest, Places
  <2> QED
    BY <1>2, <1>3, <2>1, <2>3, <2>5, <2>6
<1>4. CollectTypes'
  <2>1. \A q : IsThread(q) => IsThread(q)'
    BY <1>1 DEF IsThread, IsRequest, IsSaving, account
  <2>2. \A v \in Threads : IsThread(thread'[v])
    BY <1>2, <1>3 DEF IsThread, CollectInv, CollectTypes
  <2>3. ASSUME NEW v \in Threads PROVE IsThread(thread[v])'
    <3>1. PICK q : q = thread'[v]
      OBVIOUS
    <3> QED
      BY <2>1, <2>2, <3>1 DEF IsThread, IsRequest, IsSaving
  <2> QED
    BY <1>1, <1>2, <2>3 DEF CollectInv, CollectTypes, account, history
<1>5. DayFits'
  <2>1. ~daily.fresh /\ OneReading(daily)'
    BY <1>1 DEF CollectInv, DayFits, OneReading, CollectTypes, Reading
  <2>2. ASSUME NEW v \in Threads PROVE ReadSoFar(thread[v])'
    <3>1. ReadSoFar(thread[v])
      BY DEF CollectInv, DayFits
    <3>2. CASE thread[v].pc = "details"
      BY <1>1, <1>3, <3>1, <3>2 DEF ReadSoFar, OneReading
    <3>3. CASE thread[v].pc # "details"
      BY <1>1, <1>2, <3>1, <3>3 DEF ReadSoFar, OneReading
    <3> QED
      BY <3>2, <3>3
  <2> QED
    BY <2>1, <2>2 DEF DayFits
<1>6. \A v \in Threads : Changes(thread'[v].op) => thread'[v] = thread[v]
  BY <1>2, <1>3 DEF Changes
<1>7. \A v \in Threads : At(v, "disable", "status") => thread'[v] = thread[v]
  BY <1>2 DEF At
<1> QED
  BY <1>1, <1>4, <1>5, <1>6, <1>7, OthersMove DEF history

(* No request and no account moves: the reconciler, a day that settles.     *)
LEMMA AsideKeeps ==
  ASSUME CollectInv, UNCHANGED <<account, thread, history, sold, daily>>,
         settled' \in BOOLEAN, settled => settled'
  PROVE  CollectInv'
<1>1. CollectTypes'
  BY DEF CollectInv, CollectTypes, IsThread, IsRequest, IsSaving, account, history
<1>2. DayFits'
  BY DEF CollectInv, DayFits, ReadSoFar, OneReading
<1> QED
  BY <1>1, <1>2, OthersMove DEF history

LEMMA RestartKeeps ==
  ASSUME CollectInv, RestartService
  PROVE  CollectInv'
<1>1. UNCHANGED <<auth, row, day, overlap>> /\ key' \in {key, key + 1} /\ key' \in Nat \ {0}
  BY DEF RestartService, CollectInv, CollectTypes
<1>2. thread' = [v \in Threads |-> NoRequest] /\ \A v \in Threads : thread'[v] = NoRequest
  BY DEF RestartService
<1>3. NoRequest.op = "idle" /\ ~Changes(NoRequest.op)
  BY DEF NoRequest, Changes
<1>4. /\ halfway' \in BOOLEAN /\ (halfway => halfway')
      /\ ~halfway' => \A v \in Threads : thread[v].pc # "status"
  BY DEF RestartService, CollectInv, CollectTypes
<1>5. row.key \in Nat /\ row.key <= key
  BY DEF CollectInv, CollectTypes, RowType
<1>6. CollectTypes'
  <2>1. \A v \in Threads : IsThread(thread[v])'
    BY <1>2 DEF IsThread, NoRequest
  <2>2. row'.key <= key'
    BY <1>1, <1>5 DEF CollectInv, CollectTypes
  <2>3. thread' = [v \in Threads |-> thread'[v]]
    BY <1>2
  <2> QED
    BY <1>1, <1>4, <2>1, <2>2, <2>3 DEF CollectInv, CollectTypes, day
<1>7. OneChanger'
  BY <1>2, <1>3 DEF OneChanger, Changes
<1>8. AccountFits'
  <2>1. Sound' => Sound /\ \A v \in Threads : ~At(v, "disable", "status")
    BY <1>1, <1>4 DEF Sound, At
  <2>2. Opens(row)' => Opens(row)
    BY <1>1, <1>5 DEF Opens, CollectInv, CollectTypes
  <2> QED
    BY <1>1, <1>2, <1>3, <2>1, <2>2 DEF AccountFits, CollectInv, Changes
<1>9. DayFits'
  BY <1>1, <1>2, <1>3 DEF DayFits, ReadSoFar, OneReading, CollectInv, day
<1> QED
  BY <1>6, <1>7, <1>8, <1>9 DEF CollectInv

LEMMA CollectStart ==
  CollectInit => CollectInv
<1> SUFFICES ASSUME CollectInit PROVE CollectInv
  OBVIOUS
<1>1. thread = [v \in Threads |-> NoRequest] /\ \A v \in Threads : thread[v] = NoRequest
  BY DEF CollectInit
<1>2. NoRequest.op = "idle" /\ ~Changes(NoRequest.op)
  BY DEF NoRequest, Changes
<1>3. CollectTypes
  <2>1. NoRow \in RowType /\ NoRow.key = 0 /\ NoDay \in Reading
    BY DEF NoRow, RowType, NoDay, Reading
  <2>2. thread = [v \in Threads |-> thread[v]] /\ \A v \in Threads : IsThread(thread[v])
    BY <1>1 DEF IsThread
  <2>3. auth \in [secret : Nat, disabled : BOOLEAN]
    BY DEF CollectInit
  <2>4. row \in RowType /\ row.key <= key /\ key \in Nat \ {0}
    BY <2>1 DEF CollectInit
  <2>5. sold \subseteq Items /\ settled \in BOOLEAN /\ daily \in Reading
    BY <2>1 DEF CollectInit
  <2> QED
    BY <2>2, <2>3, <2>4, <2>5 DEF CollectInit, CollectTypes
<1>4. OneChanger
  BY <1>1, <1>2 DEF OneChanger
<1>5. AccountFits
  BY <1>1, <1>2 DEF CollectInit, AccountFits, Opens, NoRow
<1>6. DayFits
  BY <1>1, <1>2 DEF CollectInit, DayFits, OneReading, ReadSoFar, NoDay
<1> QED
  BY <1>3, <1>4, <1>5, <1>6 DEF CollectInv

LEMMA RequestOps ==
  ASSUME CollectTypes, NEW w \in Threads, thread[w].pc \notin {"save", "idle"}
  PROVE  thread[w].op = "collect" \/ Changes(thread[w].op)
BY IsRequested DEF IsRequest, Changes

LEMMA CollectStep ==
  CollectInv /\ [CollectNext]_collectVars => CollectInv'
<1> SUFFICES ASSUME CollectInv, [CollectNext]_collectVars PROVE CollectInv'
  OBVIOUS
<1>1. CASE UNCHANGED collectVars
  <2>1. UNCHANGED <<account, thread, history, sold, daily, settled>>
    BY <1>1 DEF collectVars, day
  <2> QED
    BY <2>1, AsideKeeps DEF CollectInv, CollectTypes
<1>2. ASSUME NEW w \in Threads, RequestStep(w) PROVE CollectInv'
  <2>1. CASE EnableLook(w) \/ EnableAgain(w) \/ Allow(w) \/ Create(w) \/ ResetSecret(w) \/ Put(w)
    BY <2>1, EnableLookKeeps, EnableAgainKeeps, AllowKeeps, CreateKeeps, ResetKeeps, PutKeeps
  <2>2. CASE DisableLook(w) \/ Forbid(w) \/ SetStatus(w) \/ CallJob(w)
    BY <2>2, DisableLookKeeps, ForbidKeeps, SetStatusKeeps, CallJobKeeps
  <2>3. CASE Return(w)
    <3>1. thread[w].pc = "ok" /\ Changes(thread[w].op)
      BY <2>3, IsRequested DEF Return, IsRequest, Places, CollectInv, Changes
    <3> QED
      BY <2>3, <3>1, EndKeeps
  <2>4. CASE Bearer(w) \/ ReadTotals(w) \/ ReadDetails(w) \/ Save(w)
    BY <2>4, BearerKeeps, ReadTotalsKeeps, ReadDetailsKeeps, SaveKeeps
  <2> QED
    BY <1>2, <2>1, <2>2, <2>3, <2>4 DEF RequestStep
<1>3. ASSUME NEW w \in Threads, CallFails(w) PROVE CollectInv'
  <2>1. thread[w].op = "collect" \/ Changes(thread[w].op)
    <3>1. CASE thread[w].pc = "save"
      BY <3>1 DEF CollectInv, CollectTypes, IsThread, IsRequest, IsSaving, Places, NoRequest
    <3>2. CASE thread[w].pc # "save"
      BY <1>3, <3>2, RequestOps DEF CallFails, CollectInv
    <3> QED
      BY <3>1, <3>2
  <2> QED
    BY <1>3, <2>1, CollectEnds, EndKeeps
<1>4. ASSUME NEW w \in Threads, CallJobFails(w) PROVE CollectInv'
  BY <1>4, CallJobKeeps
<1>5. ASSUME NEW w \in Threads, NEW op \in Ops, BeginRequest(w, op) PROVE CollectInv'
  BY <1>5, BeginRequestKeeps
<1>6. CASE Reconcile \/ ReconcileCall \/ ReconcileFails
  <2>1. UNCHANGED <<account, thread, history, sold, daily, settled>>
    BY <1>6 DEF Reconcile, ReconcileCall, ReconcileFails, day
  <2> QED
    BY <2>1, AsideKeeps DEF CollectInv, CollectTypes
<1>7. ASSUME NEW i \in Items, Sell(i) PROVE CollectInv'
  BY <1>7, SellKeeps
<1>8. CASE Settle
  BY <1>8, AsideKeeps DEF Settle
<1>9. CASE RestartService
  BY <1>9, RestartKeeps
<1> QED
  BY <1>1, <1>2, <1>3, <1>4, <1>5, <1>6, <1>7, <1>8, <1>9 DEF CollectNext

(* From the invariant a quiet branch that is on is a usable one, and the    *)
(* stored day is one reading.                                               *)
LEMMA CollectMeans ==
  CollectInv => EnabledIsUsable /\ DayIsOneReading
<1>1. ASSUME CollectInv PROVE EnabledIsUsable
  <2>1. SUFFICES ASSUME Quiet, row.status = "enabled", Opens(row), ~overlap, ~halfway
                 PROVE  row.secret = auth.secret /\ ~auth.disabled
    BY DEF EnabledIsUsable
  <2>2. \A v \in Threads : ~At(v, "disable", "status")
    BY <2>1 DEF Quiet, At, Changes
  <2> QED
    BY <1>1, <2>1, <2>2 DEF CollectInv, AccountFits, Sound
<1>2. ASSUME CollectInv PROVE DayIsOneReading
  BY <1>2 DEF CollectInv, DayFits, OneReading, DayIsOneReading
<1> QED
  BY <1>1, <1>2

(* Whatever fails, crosses or restarts, requests keep their shape: a pc of  *)
(* their kind, a row sealed under a key the service has had.                *)
THEOREM CollectTypeCorrect == CollectSpec => []CollectTypes
<1>1. CollectInv => CollectTypes
  BY DEF CollectInv
<1> QED
  BY <1>1, CollectStart, CollectStep, PTL DEF CollectSpec

(* However calls of Enable and Disable fail, and whatever key the service   *)
(* restarts under, a branch that is on, at rest and with a secret that      *)
(* opens can log in, unless two of the requests overlapped or one stopped   *)
(* halfway.                                                                 *)
THEOREM EnabledCanCollect == CollectSpec => []EnabledIsUsable
BY CollectStart, CollectStep, CollectMeans, PTL DEF CollectSpec

(* Whichever collections overlap, the stored day is the reading of one of   *)
(* them, and a stored day that was read after it settled is right.          *)
THEOREM StoredDayIsOneReading == CollectSpec => []DayIsOneReading
BY CollectStart, CollectStep, CollectMeans, PTL DEF CollectSpec

-----------------------------------------------------------------------------
(* CubeSync.                                                                *)

(* What a round has read: rows, each with the version it had.               *)
RowVersion == [row : Rows, ver : Nat]
RoundType ==
  [pc : {"idle", "page", "import", "saved"}, full : BOOLEAN, since : Int, mark : Int,
   offset : Nat, rows : Seq(RowVersion)]

SyncTypes ==
  /\ now \in Nat
  /\ src \in [Rows -> [ver : Nat, at : Nat, here : BOOLEAN]]
  /\ open \in [Rows -> [ver : Nat, at : Nat]]
  /\ target \in [Rows -> Nat] /\ mark \in Int
  /\ running \in BOOLEAN /\ round \in [Kinds -> RoundType]

Busy(k) == round[k].pc # "idle"

OneRound == \A k \in Kinds : Busy(k) => running /\ \A j \in Kinds : Busy(j) => j = k

(* A change shows within the delay, so it is later than every watermark.    *)
ShowsInTime ==
  \A r \in Rows : open[r] # NoChange => open[r].ver > src[r].ver /\ now <= open[r].at + Delay

VersionsRise == \A r \in Rows : target[r] <= src[r].ver

Covered(t) == \A r \in Rows : src[r].here /\ src[r].at <= t => InTarget(r) \/ r \in lost

(* A row that was read is no older than the target's, and if the source has *)
(* a newer one it is later than the round's watermark.                      *)
ReadingsFit(got, m) ==
  \A i \in DOMAIN got :
    /\ target[got[i].row] <= got[i].ver /\ got[i].ver <= src[got[i].row].ver
    /\ got[i].ver = src[got[i].row].ver \/ src[got[i].row].at > m
    /\ \A j \in DOMAIN got : i <= j /\ got[j].row = got[i].row => got[i].ver <= got[j].ver

IsRead(got, r) == \E i \in DOMAIN got : got[i].row = r /\ got[i].ver = src[r].ver

(* What a round has to carry is in the target, lost, read or still ahead.   *)
Carried(d) ==
  \A r \in Matching(d.since) :
    src[r].at <= d.mark =>
      \/ InTarget(r) \/ r \in lost \/ IsRead(d.rows, r)
      \/ d.pc = "page" /\ d.offset <= Before(d.since, r)

Fits(d) ==
  /\ d.mark <= now - Overlap /\ d.since <= d.mark /\ mark <= d.mark
  /\ d.pc \in {"page", "import"} => ReadingsFit(d.rows, d.mark) /\ Covered(d.since) /\ Carried(d)

SyncInv ==
  /\ SyncTypes /\ OneRound /\ ShowsInTime /\ VersionsRise
  /\ Overlap <= now /\ NoMark <= mark /\ mark <= now - Overlap /\ Covered(mark)
  /\ \A k \in Kinds : Busy(k) => Fits(round[k])

-----------------------------------------------------------------------------
(* The order of export.                                                     *)

LEMMA BeforeIs ==
  ASSUME SyncTypes, NEW since
  PROVE  /\ IsFiniteSet(Matching(since)) /\ Matching(since) \subseteq Rows
         /\ Cardinality(Matching(since)) \in Nat
         /\ \A r \in Rows : Before(since, r) \in Nat
         /\ \A r \in Matching(since) : Before(since, r) < Cardinality(Matching(since))
         /\ \A q, r \in Matching(since) : q < r => Before(since, q) < Before(since, r)
<1> DEFINE S == Matching(since)
           L(r) == {q \in S : q < r}
<1>1. IsFiniteSet(S) /\ S \subseteq Rows /\ Rows \subseteq Nat
  BY SyncAssumption, FS_Subset DEF Matching
<1>2. Cardinality(S) \in Nat
  BY <1>1, FS_CardinalityType
<1>3. \A r : IsFiniteSet(L(r)) /\ Cardinality(L(r)) \in Nat /\ L(r) \in SUBSET S
  BY <1>1, FS_Subset, FS_CardinalityType
<1>4. \A r : Before(since, r) = Cardinality(L(r))
  BY DEF Before
<1>5. ASSUME NEW r \in S PROVE Cardinality(L(r)) < Cardinality(S)
  <2>1. r \notin L(r)
    <3>1. r \in Nat
      BY <1>1
    <3> QED
      BY <3>1
  <2>2. Cardinality(L(r)) <= Cardinality(S) /\ (Cardinality(S) = Cardinality(L(r)) => S = L(r))
    BY <1>1, <1>3, FS_Subset
  <2> QED
    BY <1>2, <1>3, <2>1, <2>2
<1>6. ASSUME NEW q \in S, NEW r \in S, q < r PROVE Cardinality(L(q)) < Cardinality(L(r))
  <2>1. L(q) \in SUBSET L(r) /\ q \in L(r) /\ q \notin L(q)
    <3>1. q \in Nat /\ r \in Nat /\ \A x \in S : x \in Nat
      BY <1>1
    <3>2. \A x \in S : x < q => x < r
      BY <1>6, <3>1
    <3>3. L(q) \in SUBSET L(r)
      BY <3>2
    <3>4. q \in L(r)
      BY <1>6
    <3>5. q \notin L(q)
      BY <3>1
    <3> QED
      BY <3>3, <3>4, <3>5
  <2>2. Cardinality(L(q)) <= Cardinality(L(r)) /\ (Cardinality(L(r)) = Cardinality(L(q)) => L(r) = L(q))
    BY <1>3, <2>1, FS_Subset
  <2> QED
    BY <1>3, <2>1, <2>2
<1> QED
  BY <1>1, <1>2, <1>3, <1>4, <1>5, <1>6

(* The order of export names every row once.                                *)
LEMMA OrderedIs ==
  ASSUME SyncTypes, NEW since
  PROVE  /\ Ordered(since) \in Seq(Matching(since))
         /\ Len(Ordered(since)) = Cardinality(Matching(since))
         /\ \A r \in Matching(since) : Ordered(since)[Before(since, r) + 1] = r
<1> DEFINE S == Matching(since)
           n == Cardinality(S)
           f == [r \in S |-> Before(since, r)]
<1>1. /\ IsFiniteSet(S) /\ S \subseteq Rows /\ n \in Nat /\ Rows \subseteq Nat
      /\ \A r \in S : Before(since, r) \in Nat /\ Before(since, r) < n
      /\ \A q, r \in S : q < r => Before(since, q) < Before(since, r)
  BY BeforeIs, SyncAssumption
<1>2. f \in [S -> 0..(n - 1)]
  BY <1>1
<1>3. \A q, r \in S : Before(since, q) = Before(since, r) => q = r
  <2>1. SUFFICES ASSUME NEW q \in S, NEW r \in S, Before(since, q) = Before(since, r) PROVE q = r
    OBVIOUS
  <2>2. ~(q < r) /\ ~(r < q)
    BY <1>1, <2>1
  <2>3. q \in Nat /\ r \in Nat
    BY <1>1
  <2> QED
    BY <2>2, <2>3
<1>4. f \in Injection(S, 0..(n - 1))
  BY <1>2, <1>3 DEF Injection, IsInjective
<1>5. IsFiniteSet(0..(n - 1)) /\ Cardinality(0..(n - 1)) = n
  <2>1. 0 \in Int /\ n - 1 \in Int
    BY <1>1
  <2>2. IsFiniteSet(0..(n - 1)) /\ Cardinality(0..(n - 1)) = IF 0 > n - 1 THEN 0 ELSE n - 1 - 0 + 1
    BY <2>1, FS_Interval
  <2> QED
    BY <1>1, <2>2
<1>6. f \in Surjection(S, 0..(n - 1))
  BY <1>4, <1>5, FS_Injection
<1>7. \A m \in 0..(n - 1) : \E r \in S : Before(since, r) = m
  BY <1>6 DEF Surjection
<1>8. Ordered(since) = [i \in 1..n |-> CHOOSE r \in S : Before(since, r) = i - 1]
  BY DEF Ordered
<1>9. ASSUME NEW i \in 1..n
      PROVE  Ordered(since)[i] \in S /\ Before(since, Ordered(since)[i]) = i - 1
  <2>1. i - 1 \in 0..(n - 1)
    BY <1>1
  <2>2. \E r \in S : Before(since, r) = i - 1
    BY <1>7, <2>1
  <2> QED
    BY <1>8, <2>2
<1>10. Ordered(since) \in [1..n -> S]
  BY <1>8, <1>9
<1>11. Ordered(since) \in Seq(S) /\ Len(Ordered(since)) = n
  BY <1>1, <1>10
<1>12. ASSUME NEW r \in S PROVE Ordered(since)[Before(since, r) + 1] = r
  <2>1. Before(since, r) + 1 \in 1..n
    BY <1>1
  <2> QED
    BY <1>1, <1>3, <1>9, <2>1
<1> QED
  BY <1>11, <1>12

LEMMA MinOfTwo ==
  ASSUME NEW a \in Nat, NEW b \in Nat
  PROVE  Min({a, b}) = IF a <= b THEN a ELSE b
<1>1. CASE a <= b
  BY <1>1 DEF Min
<1>2. CASE ~(a <= b)
  BY <1>2 DEF Min
<1> QED
  BY <1>1, <1>2

(* A page is the rows that come after the offset, and after the last page   *)
(* there are none.                                                          *)
Page(since, offset) ==
  SubSeq(Ordered(since), offset + 1, Min({Len(Ordered(since)), offset + PageSize}))

LEMMA PageIs ==
  ASSUME SyncTypes, NEW since, NEW offset \in Nat
  PROVE  /\ Page(since, offset) \in Seq(Matching(since))
         /\ \A r \in Matching(since) :
              /\ offset <= Before(since, r) =>
                   \/ \E i \in DOMAIN Page(since, offset) : Page(since, offset)[i] = r
                   \/ offset + Len(Page(since, offset)) <= Before(since, r)
              /\ Page(since, offset) = <<>> \/ offset + Len(Page(since, offset)) >= Len(Ordered(since)) =>
                   Before(since, r) < offset + Len(Page(since, offset))
<1> DEFINE S == Matching(since)
<1>1. PICK s : s = Ordered(since)
  OBVIOUS
<1>2. s \in Seq(S) /\ Len(s) = Cardinality(S) /\ \A r \in S : s[Before(since, r) + 1] = r
  BY <1>1, OrderedIs
<1>3. PICK n \in Nat : n = Len(s)
  BY <1>2
<1>4. \A r \in S : Before(since, r) \in Nat /\ Before(since, r) < n
  BY <1>2, <1>3, BeforeIs
<1>5. PageSize \in Nat \ {0}
  BY SyncAssumption
<1>6. PICK e \in Nat : e = Min({n, offset + PageSize}) /\ e <= n /\ e <= offset + PageSize /\ (e = n \/ e = offset + PageSize)
  BY <1>5, MinOfTwo
<1>7. PICK p : p = Page(since, offset)
  OBVIOUS
<1>8. p = SubSeq(s, offset + 1, e)
  BY <1>1, <1>3, <1>6, <1>7 DEF Page
<1>9. CASE offset >= e
  <2>1. p = <<>> /\ Len(p) = 0
    BY <1>2, <1>8, <1>9, SubSeqProperties
  <2>2. n <= offset
    BY <1>5, <1>6, <1>9
  <2>3. p \in Seq(S)
    BY <2>1
  <2> QED
    BY <1>4, <1>7, <2>1, <2>2, <2>3
<1>10. CASE offset < e
  <2>1. p \in Seq(S) /\ Len(p) = e - offset /\ \A i \in 1..(e - offset) : p[i] = s[offset + i]
    <3>1. offset + 1 \in 1..(Len(s) + 1) /\ e \in (offset + 1 - 1)..Len(s)
      BY <1>3, <1>6, <1>10
    <3>2. p \in Seq(S) /\ Len(p) = e - (offset + 1) + 1 /\ \A i \in 1..(e - (offset + 1) + 1) : p[i] = s[offset + 1 + i - 1]
      BY <1>2, <1>8, <3>1, SubSeqProperties
    <3> QED
      BY <3>2
  <2>2. DOMAIN p = 1..(e - offset) /\ p # <<>>
    BY <1>10, <2>1
  <2>3. ASSUME NEW r \in S, offset <= Before(since, r), Before(since, r) < e
        PROVE  \E i \in DOMAIN p : p[i] = r
    <3>1. PICK i : i = Before(since, r) + 1 - offset
      OBVIOUS
    <3>2. i \in 1..(e - offset) /\ offset + i = Before(since, r) + 1
      BY <1>4, <2>3, <3>1
    <3> QED
      BY <1>2, <2>1, <2>2, <3>2
  <2>4. offset + Len(p) = e
    BY <2>1
  <2>5. ASSUME NEW r \in S
        PROVE  /\ offset <= Before(since, r) => (\E i \in DOMAIN p : p[i] = r) \/ e <= Before(since, r)
               /\ p = <<>> \/ e >= n => Before(since, r) < e
    <3>1. Before(since, r) \in Nat /\ Before(since, r) < n
      BY <1>4
    <3>2. offset <= Before(since, r) => (\E i \in DOMAIN p : p[i] = r) \/ e <= Before(since, r)
      <4>1. CASE Before(since, r) < e
        BY <2>3, <4>1
      <4>2. CASE ~(Before(since, r) < e)
        BY <1>6, <3>1, <4>2
      <4> QED
        BY <4>1, <4>2
    <3>3. e >= n => Before(since, r) < e
      BY <1>6, <3>1
    <3> QED
      BY <2>2, <3>2, <3>3
  <2> QED
    BY <1>1, <1>3, <1>7, <2>1, <2>4, <2>5
<1> QED
  BY <1>6, <1>9, <1>10
-----------------------------------------------------------------------------
(* A step of one round, which has the gate or takes it.                     *)
LEMMA RoundStep ==
  ASSUME SyncInv, NEW k \in Kinds, NEW d \in RoundType, Set(k, d), running' \in BOOLEAN,
         Busy(k) \/ ~running, d.pc # "idle" => running' /\ Fits(d)',
         UNCHANGED source, target' \in [Rows -> Nat], mark' \in Int,
         NoMark <= mark', mark' <= now - Overlap, VersionsRise', Covered(mark)'
  PROVE  SyncInv'
<1>1. SyncTypes /\ OneRound /\ ShowsInTime
  BY DEF SyncInv
<1>2. round' \in [Kinds -> RoundType] /\ \A j \in Kinds : round'[j] = IF j = k THEN d ELSE round[j]
  BY <1>1 DEF SyncTypes, Set
<1>3. \A j \in Kinds : j # k => ~Busy(j)
  BY <1>1 DEF OneRound
<1>4. \A j \in Kinds : round'[j].pc # "idle" => j = k /\ round'[j] = d
  BY <1>2, <1>3 DEF Busy
<1>5. SyncTypes'
  BY <1>1, <1>2 DEF SyncTypes, source
<1>6. OneRound'
  BY <1>4 DEF OneRound, Busy
<1>7. ShowsInTime'
  BY <1>1 DEF ShowsInTime, source
<1>8. ASSUME NEW j \in Kinds, Busy(j)' PROVE Fits(round[j])'
  <2>1. round'[j] = d /\ d.pc # "idle"
    BY <1>4, <1>8 DEF Busy
  <2>2. Fits(d)'
    BY <2>1
  <2> QED
    BY <2>1, <2>2 DEF Fits
<1>9. Overlap <= now'
  BY DEF SyncInv, source
<1> QED
  BY <1>5, <1>6, <1>7, <1>8, <1>9 DEF SyncInv, source

LEMMA IdleIs ==
  Idle \in RoundType /\ Idle.pc = "idle"
<1>1. NoMark \in Int /\ <<>> \in Seq(RowVersion)
  BY DEF NoMark
<1> QED
  BY <1>1 DEF Idle, RoundType

(* Only the round moves: nothing it has to carry changes.                   *)
LEMMA RoundAlone ==
  ASSUME SyncInv, NEW k \in Kinds, NEW d \in RoundType, Set(k, d), running' \in BOOLEAN,
         Busy(k) \/ ~running, d.pc # "idle" => running' /\ Fits(d),
         UNCHANGED <<source, target, mark, lost>>
  PROVE  SyncInv'
<1>1. VersionsRise' /\ Covered(mark)'
  BY DEF SyncInv, VersionsRise, Covered, InTarget, source
<1>2. target' \in [Rows -> Nat] /\ mark' \in Int /\ NoMark <= mark' /\ mark' <= now - Overlap
  BY DEF SyncInv, SyncTypes
<1>3. Fits(d) => Fits(d)'
  <2>1. ReadingsFit(d.rows, d.mark) => ReadingsFit(d.rows, d.mark)'
    BY DEF ReadingsFit, source
  <2>2. Covered(d.since) => Covered(d.since)'
    BY DEF Covered, InTarget, source
  <2>3. Carried(d) => Carried(d)'
    BY DEF Carried, Matching, InTarget, IsRead, Before, source
  <2> QED
    BY <2>1, <2>2, <2>3 DEF Fits, source
<1>4. UNCHANGED source
  OBVIOUS
<1> QED
  BY <1>1, <1>2, <1>3, <1>4, RoundStep

LEMMA GateHeld ==
  ASSUME SyncInv, NEW k \in Kinds, Busy(k)
  PROVE  running /\ Fits(round[k]) /\ round[k] \in RoundType
BY DEF SyncInv, OneRound, SyncTypes

(* A round ends, in whatever way.                                           *)
LEMMA RoundEnds ==
  ASSUME SyncInv, NEW k \in Kinds, Busy(k), Set(k, Idle), running' = FALSE,
         UNCHANGED <<source, target, mark, lost>>
  PROVE  SyncInv'
BY IdleIs, RoundAlone

LEMMA BeginKeeps ==
  ASSUME SyncInv, NEW k \in Kinds, NEW force \in BOOLEAN, Begin(k, force)
  PROVE  SyncInv'
<1>1. PICK since : since = IF force \/ full \in {"never", "old"} THEN NoMark ELSE mark
  OBVIOUS
<1>2. PICK d : d = [Idle EXCEPT !.pc = "page", !.full = (since = NoMark), !.since = since, !.mark = NowAt]
  OBVIOUS
<1>3. d = [pc |-> "page", full |-> (since = NoMark), since |-> since, mark |-> now - Overlap,
           offset |-> 0, rows |-> <<>>]
  BY <1>2 DEF Idle, NowAt
<1>4. Set(k, d) /\ running' /\ ~running /\ UNCHANGED <<source, target, mark, lost>>
  BY <1>1, <1>2 DEF Begin, Start, file
<1>5. /\ now \in Nat /\ Overlap \in Nat /\ mark \in Int /\ Overlap <= now /\ NoMark <= mark
      /\ mark <= now - Overlap /\ Covered(mark) /\ SyncTypes
  BY SyncAssumption DEF SyncInv, SyncTypes
<1>6. since \in Int /\ since <= now - Overlap
  BY <1>1, <1>5 DEF NoMark
<1>7. d \in RoundType
  BY <1>3, <1>5, <1>6 DEF RoundType
<1>8. Covered(since)
  <2>1. Covered(NoMark)
    BY <1>5 DEF Covered, NoMark, SyncTypes
  <2> QED
    BY <1>1, <1>5, <2>1
<1>9. ReadingsFit(d.rows, d.mark)
  BY <1>3 DEF ReadingsFit
<1>10. Carried(d)
  <2>1. \A r \in Matching(since) : 0 <= Before(since, r)
    BY <1>5, BeforeIs
  <2> QED
    BY <1>3, <2>1 DEF Carried
<1>11. Fits(d)
  BY <1>3, <1>5, <1>6, <1>8, <1>9, <1>10 DEF Fits
<1> QED
  BY <1>4, <1>7, <1>11, RoundAlone

LEMMA SetMarkKeeps ==
  ASSUME SyncInv, NEW k \in Kinds, SetMark(k) \/ SetMarkFails(k)
  PROVE  SyncInv'
<1>1. PICK d : d = round[k]
  OBVIOUS
<1>2. Busy(k) /\ d.pc = "import" /\ d.rows = <<>>
  BY <1>1 DEF SetMark, SetMarkFails, Busy
<1>3. running /\ Fits(d) /\ d \in RoundType
  BY <1>1, <1>2, GateHeld
<1>4. PICK e : e = [d EXCEPT !.pc = "saved"]
  OBVIOUS
<1>5. e \in RoundType /\ e.pc = "saved" /\ e.mark = d.mark /\ e.since = d.since
  BY <1>3, <1>4 DEF RoundType
<1>6. Set(k, e) /\ mark' \in {mark, d.mark} /\ UNCHANGED <<source, target, running, lost>>
  BY <1>1, <1>4 DEF SetMark, SetMarkFails, file
<1>7. SyncTypes /\ VersionsRise /\ NoMark <= mark /\ mark <= now - Overlap /\ Covered(mark)
  BY DEF SyncInv
<1>8. /\ d.mark <= now - Overlap /\ d.since <= d.mark /\ mark <= d.mark
      /\ Covered(d.since) /\ Carried(d)
  BY <1>2, <1>3 DEF Fits
<1>9. Covered(d.mark)
  <2>1. SUFFICES ASSUME NEW r \in Rows, src[r].here, src[r].at <= d.mark PROVE InTarget(r) \/ r \in lost
    BY DEF Covered
  <2>2. CASE r \in Matching(d.since)
    BY <1>2, <1>8, <2>1, <2>2 DEF Carried, IsRead
  <2>3. CASE r \notin Matching(d.since)
    <3>1. src[r].at <= d.since
      BY <1>3, <1>7, <2>1, <2>3 DEF Matching, SyncTypes, RoundType
    <3> QED
      BY <1>8, <2>1, <3>1 DEF Covered
  <2> QED
    BY <2>2, <2>3
<1>10. mark' \in Int /\ NoMark <= mark' /\ mark' <= now - Overlap /\ mark' <= d.mark
  BY <1>3, <1>6, <1>7, <1>8 DEF RoundType, SyncTypes, NoMark
<1>11. Covered(mark)'
  <2>1. PICK m : m = mark'
    OBVIOUS
  <2>2. Covered(m)
    BY <1>6, <1>7, <1>9, <2>1
  <2> QED
    BY <1>6, <2>1, <2>2 DEF Covered, InTarget, source
<1>12. VersionsRise'
  BY <1>6, <1>7 DEF VersionsRise, source
<1>13. Fits(e)'
  BY <1>5, <1>6, <1>8, <1>10 DEF Fits, source
<1>14. target' \in [Rows -> Nat] /\ running' \in BOOLEAN /\ running'
  BY <1>3, <1>6, <1>7 DEF SyncTypes
<1> QED
  BY <1>2, <1>5, <1>6, <1>10, <1>11, <1>12, <1>13, <1>14, RoundStep

LEMMA MarkFullSyncKeeps ==
  ASSUME SyncInv, NEW k \in Kinds, MarkFullSync(k) \/ Fail(k)
  PROVE  SyncInv'
<1>1. Busy(k) /\ Set(k, Idle) /\ running' = FALSE /\ UNCHANGED <<source, target, mark, lost>>
  BY DEF MarkFullSync, Fail, Busy, file
<1> QED
  BY <1>1, RoundEnds
(* What the round reads is appended with the version it has now, and a row  *)
(* that was ahead of it is read or still ahead.                             *)
LEMMA ReadPageKeeps ==
  ASSUME SyncInv, NEW k \in Kinds, ReadPage(k)
  PROVE  SyncInv'
<1>1. PICK d : d = round[k]
  OBVIOUS
<1>2. Busy(k) /\ d.pc = "page"
  BY <1>1 DEF ReadPage, Busy
<1>3. running /\ Fits(d) /\ d \in RoundType
  BY <1>1, <1>2, GateHeld
<1>4. PICK p : p = Page(d.since, d.offset)
  OBVIOUS
<1>5. PICK q : q = [i \in DOMAIN p |-> [row |-> p[i], ver |-> src[p[i]].ver]]
  OBVIOUS
<1>6. PICK got, next : got = d.rows \o q /\ next = d.offset + Len(p)
  OBVIOUS
<1>7. PICK last \in BOOLEAN : last = (p = <<>> \/ next >= Len(Ordered(d.since)))
  OBVIOUS
<1>8. UNCHANGED <<source, target, mark, lost>>
  BY DEF ReadPage, file
<1>9. \/ Set(k, Idle) /\ running' = FALSE
      \/ /\ Set(k, [d EXCEPT !.rows = got, !.offset = next, !.pc = IF last THEN "import" ELSE "page"])
         /\ UNCHANGED running
  BY <1>1, <1>4, <1>5, <1>6, <1>7 DEF ReadPage, Page
<1>10. SyncTypes /\ VersionsRise
  BY DEF SyncInv
<1>11. /\ p \in Seq(Matching(d.since)) /\ d.offset \in Nat
       /\ \A r \in Matching(d.since) :
            /\ d.offset <= Before(d.since, r) => (\E i \in DOMAIN p : p[i] = r) \/ next <= Before(d.since, r)
            /\ last => Before(d.since, r) < next
  <2>1. d.offset \in Nat
    BY <1>3 DEF RoundType
  <2> QED
    BY <1>4, <1>6, <1>7, <1>10, <2>1, PageIs
<1>12. PICK n \in Nat : n = Len(p) /\ DOMAIN p = 1..n
  BY <1>11
<1>13. /\ q \in Seq(RowVersion) /\ Len(q) = n
       /\ \A i \in 1..n : p[i] \in Rows /\ q[i].row = p[i] /\ q[i].ver = src[p[i]].ver
  <2>1. \A i \in 1..n : p[i] \in Rows
    BY <1>11, <1>12 DEF Matching
  <2>2. \A i \in 1..n : src[p[i]].ver \in Nat
    BY <1>10, <2>1 DEF SyncTypes
  <2>3. q = [i \in 1..n |-> [row |-> p[i], ver |-> src[p[i]].ver]]
    BY <1>5, <1>12
  <2>4. q \in [1..n -> RowVersion]
    BY <2>1, <2>2, <2>3 DEF RowVersion
  <2>5. q \in Seq(RowVersion) /\ Len(q) = n
    BY <1>12, <2>3, <2>4
  <2> QED
    BY <2>1, <2>3, <2>5
<1>14. PICK m \in Nat : m = Len(d.rows) /\ DOMAIN d.rows = 1..m
  BY <1>3 DEF RoundType
<1>15. /\ got \in Seq(RowVersion) /\ DOMAIN got = 1..(m + n)
       /\ \A i \in 1..(m + n) : got[i] = IF i <= m THEN d.rows[i] ELSE q[i - m]
  <2>1. d.rows \in Seq(RowVersion)
    BY <1>3 DEF RoundType
  <2>2. /\ got \in Seq(RowVersion) /\ Len(got) = Len(d.rows) + Len(q)
        /\ \A i \in 1..(Len(d.rows) + Len(q)) :
             got[i] = IF i <= Len(d.rows) THEN d.rows[i] ELSE q[i - Len(d.rows)]
    BY <1>6, <1>13, <2>1, ConcatProperties
  <2>3. DOMAIN got = 1..Len(got)
    BY <2>2
  <2> QED
    BY <1>13, <1>14, <2>2, <2>3
<1>16. PICK e : e = [d EXCEPT !.rows = got, !.offset = next, !.pc = IF last THEN "import" ELSE "page"]
  OBVIOUS
<1>17. /\ e \in RoundType /\ e.pc = (IF last THEN "import" ELSE "page") /\ e.rows = got /\ e.offset = next
       /\ e.since = d.since /\ e.mark = d.mark
  <2>1. next \in Nat
    BY <1>6, <1>11, <1>12
  <2> QED
    BY <1>3, <1>15, <1>16, <2>1 DEF RoundType
<1>18. ReadingsFit(d.rows, d.mark) /\ Covered(d.since) /\ Carried(d)
  BY <1>2, <1>3 DEF Fits
<1>19. ReadingsFit(got, d.mark)
  <2>1. ASSUME NEW i \in 1..(m + n), i > m
        PROVE  got[i].row \in Rows /\ got[i].ver = src[got[i].row].ver
    <3>1. i - m \in 1..n /\ got[i] = q[i - m]
      BY <1>15, <2>1
    <3> QED
      BY <1>13, <3>1
  <2>2. ASSUME NEW i \in 1..(m + n), i <= m
        PROVE  /\ got[i] = d.rows[i] /\ i \in 1..m
               /\ target[got[i].row] <= got[i].ver /\ got[i].ver <= src[got[i].row].ver
               /\ got[i].ver = src[got[i].row].ver \/ src[got[i].row].at > d.mark
               /\ \A j \in 1..m : i <= j /\ d.rows[j].row = got[i].row => got[i].ver <= d.rows[j].ver
    BY <1>14, <1>15, <1>18, <2>2 DEF ReadingsFit
  <2>3. ASSUME NEW i \in 1..(m + n), NEW j \in 1..(m + n), i <= j, got[j].row = got[i].row
        PROVE  got[i].ver <= got[j].ver
    <3>1. CASE j <= m
      <4>1. i <= m /\ got[j] = d.rows[j] /\ j \in 1..m
        BY <1>15, <2>3, <3>1
      <4> QED
        BY <2>2, <2>3, <4>1
    <3>2. CASE j > m
      <4>1. got[j].ver = src[got[i].row].ver /\ got[i].row \in Rows
        BY <2>1, <2>3, <3>2
      <4>2. got[i].ver <= src[got[i].row].ver
        <5>1. CASE i <= m
          BY <2>2, <5>1
        <5>2. CASE i > m
          BY <1>10, <2>1, <5>2 DEF SyncTypes
        <5> QED
          BY <5>1, <5>2
      <4> QED
        BY <4>1, <4>2
    <3> QED
      BY <3>1, <3>2
  <2>4. ASSUME NEW i \in 1..(m + n)
        PROVE  /\ target[got[i].row] <= got[i].ver /\ got[i].ver <= src[got[i].row].ver
               /\ got[i].ver = src[got[i].row].ver \/ src[got[i].row].at > d.mark
    <3>1. CASE i <= m
      BY <2>2, <3>1
    <3>2. CASE i > m
      BY <1>10, <2>1, <3>2 DEF VersionsRise, SyncTypes
    <3> QED
      BY <3>1, <3>2
  <2> QED
    BY <1>15, <2>3, <2>4 DEF ReadingsFit
<1>20. Carried(e)
  <2>1. SUFFICES ASSUME NEW r \in Matching(d.since), src[r].at <= d.mark, ~InTarget(r), r \notin lost
                 PROVE  IsRead(got, r) \/ (e.pc = "page" /\ next <= Before(d.since, r))
    BY <1>17 DEF Carried
  <2>2. IsRead(d.rows, r) \/ d.offset <= Before(d.since, r)
    BY <1>18, <2>1 DEF Carried
  <2>3. CASE IsRead(d.rows, r)
    <3>1. PICK i \in 1..m : d.rows[i].row = r /\ d.rows[i].ver = src[r].ver
      BY <1>14, <2>3 DEF IsRead
    <3>2. i \in 1..(m + n) /\ got[i] = d.rows[i]
      BY <1>15
    <3> QED
      BY <1>15, <3>1, <3>2 DEF IsRead
  <2>4. ASSUME NEW i \in 1..n, p[i] = r PROVE IsRead(got, r)
    <3>1. m + i \in 1..(m + n) /\ got[m + i] = q[i]
      BY <1>15
    <3> QED
      BY <1>13, <1>15, <2>4, <3>1 DEF IsRead
  <2>5. CASE next <= Before(d.since, r)
    <3>1. Before(d.since, r) \in Nat /\ next \in Nat
      BY <1>6, <1>10, <1>11, <1>12, BeforeIs
    <3>2. ~last
      BY <1>11, <2>5, <3>1
    <3> QED
      BY <1>17, <2>5, <3>2
  <2> QED
    BY <1>11, <1>12, <2>2, <2>3, <2>4, <2>5
<1>21. Fits(e)
  BY <1>3, <1>17, <1>18, <1>19, <1>20 DEF Fits
<1>22. CASE Set(k, e) /\ UNCHANGED running
  BY <1>2, <1>3, <1>8, <1>17, <1>21, <1>22, RoundAlone
<1>23. CASE Set(k, Idle) /\ running' = FALSE
  BY <1>2, <1>8, <1>23, RoundEnds
<1> QED
  BY <1>9, <1>16, <1>22, <1>23

(* The next row of a round, and what is left of it.                         *)
LEMMA NextRow ==
  ASSUME SyncInv, NEW k \in Kinds, round[k].pc = "import", round[k].rows # <<>>, NEW d, d = round[k],
         NEW e, e = [d EXCEPT !.rows = Tail(d.rows)], NEW h, h = Head(d.rows)
  PROVE  /\ Busy(k) /\ running /\ Fits(d) /\ d \in RoundType /\ d.pc = "import"
         /\ e \in RoundType /\ e.pc = "import" /\ e.since = d.since /\ e.mark = d.mark /\ e.rows = Tail(d.rows)
         /\ h \in RowVersion
         /\ target[h.row] <= h.ver /\ h.ver <= src[h.row].ver
         /\ h.ver = src[h.row].ver \/ src[h.row].at > d.mark
         /\ ReadingsFit(Tail(d.rows), d.mark)
         /\ \A i \in DOMAIN Tail(d.rows) : Tail(d.rows)[i].row = h.row => h.ver <= Tail(d.rows)[i].ver
         /\ \A r : IsRead(d.rows, r) => (r = h.row /\ h.ver = src[r].ver) \/ IsRead(Tail(d.rows), r)
<1>1. Busy(k) /\ running /\ Fits(d) /\ d \in RoundType /\ d.pc = "import"
  BY GateHeld DEF Busy
<1>2. PICK s \in Seq(RowVersion) : s = d.rows /\ s # <<>>
  BY <1>1 DEF RoundType
<1>3. PICK t \in Seq(RowVersion) : t = Tail(s)
  <2>1. Tail(s) \in Seq(RowVersion)
    BY <1>2, HeadTailProperties
  <2> QED
    BY <2>1
<1>4. PICK n \in Nat : n = Len(t) /\ Len(s) = n + 1
  BY <1>2, <1>3
<1>5. DOMAIN s = 1..(n + 1) /\ DOMAIN t = 1..n /\ h = s[1] /\ \A i \in 1..n : t[i] = s[i + 1]
  BY <1>2, <1>3, <1>4, HeadTailProperties
<1>6. h \in RowVersion
  BY <1>2, <1>5
<1>7. e \in RoundType /\ e.pc = "import" /\ e.since = d.since /\ e.mark = d.mark /\ e.rows = t
  BY <1>1, <1>2, <1>3 DEF RoundType
<1>8. ReadingsFit(s, d.mark)
  BY <1>1, <1>2 DEF Fits
<1>9. 1 \in DOMAIN s /\ \A i \in 1..n : i + 1 \in DOMAIN s /\ 1 <= i + 1
  BY <1>5
<1>10. /\ target[h.row] <= h.ver /\ h.ver <= src[h.row].ver
       /\ h.ver = src[h.row].ver \/ src[h.row].at > d.mark
       /\ \A i \in 1..n : t[i].row = h.row => h.ver <= t[i].ver
  BY <1>5, <1>8, <1>9 DEF ReadingsFit
<1>11. ReadingsFit(t, d.mark)
  <2>1. \A i, j \in 1..n : i <= j => i + 1 <= j + 1
    OBVIOUS
  <2> QED
    BY <1>5, <1>8, <1>9, <2>1 DEF ReadingsFit
<1>12. ASSUME NEW r, IsRead(s, r) PROVE (r = h.row /\ h.ver = src[r].ver) \/ IsRead(t, r)
  <2>1. PICK i \in 1..(n + 1) : s[i].row = r /\ s[i].ver = src[r].ver
    BY <1>5, <1>12 DEF IsRead
  <2>2. CASE i = 1
    BY <1>5, <2>1, <2>2
  <2>3. CASE i # 1
    <3>1. i - 1 \in 1..n /\ t[i - 1] = s[i]
      BY <1>5, <2>3
    <3> QED
      BY <1>5, <2>1, <3>1 DEF IsRead
  <2> QED
    BY <2>2, <2>3
<1> QED
  BY <1>1, <1>2, <1>3, <1>5, <1>6, <1>7, <1>10, <1>11, <1>12

LEMMA SkipRowKeeps ==
  ASSUME SyncInv, NEW k \in Kinds, SkipRow(k)
  PROVE  SyncInv'
<1>1. PICK d : d = round[k]
  OBVIOUS
<1>2. PICK e, h : e = [d EXCEPT !.rows = Tail(d.rows)] /\ h = Head(d.rows)
  OBVIOUS
<1>3. d.pc = "import" /\ d.rows # <<>> /\ lost' = lost \union {h.row} /\ Set(k, e)
  BY <1>1, <1>2 DEF SkipRow
<1>4. UNCHANGED <<source, target, mark, running>>
  BY DEF SkipRow, file
<1>5. /\ Busy(k) /\ running /\ Fits(d) /\ e \in RoundType /\ e.pc = "import" /\ d.pc = "import"
      /\ e.since = d.since /\ e.mark = d.mark /\ e.rows = Tail(d.rows) /\ ReadingsFit(e.rows, d.mark)
      /\ \A r : IsRead(d.rows, r) => r = h.row \/ IsRead(e.rows, r)
  BY <1>1, <1>2, <1>3, NextRow
<1>6. /\ d.mark <= now - Overlap /\ d.since <= d.mark /\ mark <= d.mark
      /\ Covered(d.since) /\ Carried(d)
  BY <1>5 DEF Fits
<1>7. Fits(e)'
  <2>1. ReadingsFit(e.rows, e.mark)'
    BY <1>4, <1>5 DEF ReadingsFit, source
  <2>2. Covered(e.since)'
    BY <1>3, <1>4, <1>5, <1>6 DEF Covered, InTarget, source
  <2>3. Carried(e)'
    <3>1. \A r \in Matching(d.since) : src[r].at <= d.mark => InTarget(r) \/ r \in lost' \/ IsRead(e.rows, r)
      BY <1>3, <1>5, <1>6 DEF Carried
    <3> QED
      BY <1>4, <1>5, <3>1 DEF Carried, Matching, InTarget, IsRead, source
  <2> QED
    BY <1>4, <1>5, <1>6, <2>1, <2>2, <2>3 DEF Fits, source
<1>8. VersionsRise' /\ Covered(mark)'
  BY <1>3, <1>4 DEF SyncInv, VersionsRise, Covered, InTarget, source
<1>9. target' \in [Rows -> Nat] /\ mark' \in Int /\ NoMark <= mark' /\ mark' <= now - Overlap /\ UNCHANGED source
  BY <1>4 DEF SyncInv, SyncTypes
<1> QED
  BY <1>3, <1>4, <1>5, <1>7, <1>8, <1>9, RoundStep

LEMMA ImportKeeps ==
  ASSUME SyncInv, NEW k \in Kinds, Import(k)
  PROVE  SyncInv' /\ \A r \in Rows : target'[r] >= target[r]
<1>1. PICK d : d = round[k]
  OBVIOUS
<1>2. PICK e, h : e = [d EXCEPT !.rows = Tail(d.rows)] /\ h = Head(d.rows)
  OBVIOUS
<1>3. /\ d.pc = "import" /\ d.rows # <<>> /\ Set(k, e)
      /\ target' = [target EXCEPT ![h.row] = h.ver]
      /\ lost' = IF h.ver = src[h.row].ver THEN lost \ {h.row} ELSE lost
  BY <1>1, <1>2 DEF Import
<1>4. UNCHANGED <<source, mark, running>>
  BY DEF Import, file
<1>5. /\ Busy(k) /\ running /\ Fits(d) /\ e \in RoundType /\ e.pc = "import" /\ d.pc = "import"
      /\ e.since = d.since /\ e.mark = d.mark /\ e.rows = Tail(d.rows) /\ h \in RowVersion /\ d \in RoundType
  BY <1>1, <1>2, <1>3, NextRow
<1>6. /\ target[h.row] <= h.ver /\ h.ver <= src[h.row].ver
      /\ h.ver = src[h.row].ver \/ src[h.row].at > d.mark
      /\ ReadingsFit(e.rows, d.mark)
      /\ \A i \in DOMAIN e.rows : e.rows[i].row = h.row => h.ver <= e.rows[i].ver
      /\ \A r : IsRead(d.rows, r) => r = h.row \/ IsRead(e.rows, r)
  <2>5. round[k].pc = "import" /\ round[k].rows # <<>>
    BY <1>1, <1>3
  <2>1. /\ target[h.row] <= h.ver /\ h.ver <= src[h.row].ver
        /\ h.ver = src[h.row].ver \/ src[h.row].at > d.mark
        /\ ReadingsFit(Tail(d.rows), d.mark)
    BY <1>1, <1>2, <2>5, NextRow
  <2>3. \A i \in DOMAIN Tail(d.rows) : Tail(d.rows)[i].row = h.row => h.ver <= Tail(d.rows)[i].ver
    BY <1>1, <1>2, <2>5, NextRow
  <2>4. \A r : IsRead(d.rows, r) => (r = h.row /\ h.ver = src[r].ver) \/ IsRead(Tail(d.rows), r)
    BY <1>1, <1>2, <2>5, NextRow
  <2>2. \A r : IsRead(d.rows, r) => r = h.row \/ IsRead(e.rows, r)
    BY <1>5, <2>4
  <2> QED
    BY <1>5, <2>1, <2>2, <2>3, Zenon
<1>7. /\ d.mark <= now - Overlap /\ d.since <= d.mark /\ mark <= d.mark
      /\ Covered(d.since) /\ Carried(d)
  BY <1>5 DEF Fits
<1>8. SyncTypes /\ VersionsRise /\ Covered(mark) /\ mark \in Int /\ NoMark <= mark /\ mark <= now - Overlap
  BY DEF SyncInv, SyncTypes
<1>9. /\ target' \in [Rows -> Nat] /\ h.row \in Rows /\ h.ver \in Nat
      /\ \A r \in Rows : target'[r] = IF r = h.row THEN h.ver ELSE target[r]
  BY <1>3, <1>5, <1>8 DEF RowVersion, SyncTypes
<1>10. VersionsRise'
  BY <1>4, <1>6, <1>8, <1>9 DEF VersionsRise, source
<1>11. \A r \in Rows : target'[r] >= target[r]
  BY <1>6, <1>8, <1>9 DEF SyncTypes
<1>12. \A r \in Rows : r \in lost => r \in lost' \/ r = h.row
  BY <1>3
<1>13. src[h.row].at <= d.mark => h.ver = src[h.row].ver
  <2>1. d.mark \in Int
    BY <1>5 DEF RoundType
  <2>2. src[h.row].at \in Nat
    BY <1>8, <1>9 DEF SyncTypes
  <2> QED
    BY <1>6, <2>1, <2>2
<1>14. ASSUME NEW t \in Int, t <= d.mark, Covered(t) PROVE Covered(t)'
  <2>1. \A r \in Rows : src[r].at <= t => src[r].at <= d.mark
    BY <1>5, <1>8, <1>14 DEF SyncTypes, RoundType
  <2>2. SUFFICES ASSUME NEW r \in Rows, src[r].here, src[r].at <= t PROVE target'[r] = src[r].ver \/ r \in lost'
    BY <1>4 DEF Covered, InTarget, source
  <2>3. CASE r = h.row
    BY <1>9, <1>13, <2>1, <2>2, <2>3
  <2>4. CASE r # h.row
    BY <1>9, <1>12, <1>14, <2>2, <2>4 DEF Covered, InTarget
  <2> QED
    BY <2>3, <2>4
<1>15. Fits(e)'
  <2>1. ReadingsFit(e.rows, e.mark)'
    <3>1. \A i \in DOMAIN e.rows : e.rows[i].row \in Rows
      <4>1. PICK s \in Seq(RowVersion) : s = e.rows
        BY <1>5 DEF RoundType
      <4>2. \A i \in DOMAIN s : s[i] \in RowVersion
        BY <4>1
      <4> QED
        BY <4>1, <4>2 DEF RowVersion
    <3>2. \A i \in DOMAIN e.rows : target'[e.rows[i].row] <= e.rows[i].ver
      BY <1>6, <1>9, <3>1 DEF ReadingsFit
    <3> QED
      BY <1>4, <1>5, <1>6, <3>2 DEF ReadingsFit, source
  <2>2. d.since \in Int /\ Covered(d.since)'
    BY <1>5, <1>7, <1>14 DEF RoundType
  <2>3. Covered(e.since)'
    BY <1>5, <2>2
  <2>4. Carried(e)'
    <3>1. ASSUME NEW r \in Matching(d.since), src[r].at <= d.mark
          PROVE  target'[r] = src[r].ver \/ r \in lost' \/ IsRead(e.rows, r)
      <4>1. r \in Rows
        BY DEF Matching
      <4>2. InTarget(r) \/ r \in lost \/ IsRead(d.rows, r)
        BY <1>5, <1>7, <3>1 DEF Carried
      <4>3. CASE r = h.row
        BY <1>9, <1>13, <3>1, <4>3
      <4>4. CASE r # h.row
        BY <1>6, <1>9, <1>12, <4>1, <4>2, <4>4 DEF InTarget
      <4> QED
        BY <4>3, <4>4
    <3> QED
      BY <1>4, <1>5, <3>1 DEF Carried, Matching, InTarget, IsRead, source
  <2> QED
    BY <1>4, <1>5, <1>7, <2>1, <2>3, <2>4 DEF Fits, source
<1>16. Covered(mark)'
  <2>1. PICK m : m = mark
    OBVIOUS
  <2>2. Covered(m)'
    BY <1>7, <1>8, <1>14, <2>1
  <2> QED
    BY <1>4, <2>1, <2>2 DEF Covered, InTarget, source
<1>17. mark' \in Int /\ NoMark <= mark' /\ mark' <= now - Overlap /\ UNCHANGED source /\ running' /\ running' \in BOOLEAN
  BY <1>4, <1>5, <1>8 DEF SyncTypes
<1> QED
  BY <1>3, <1>5, <1>9, <1>10, <1>11, <1>15, <1>16, <1>17, RoundStep
-----------------------------------------------------------------------------
(* The source, the clock and the file.                                      *)

(* No round moves.                                                          *)
LEMMA SourceStep ==
  ASSUME SyncInv, UNCHANGED <<running, round>>, SyncTypes', ShowsInTime', VersionsRise',
         Overlap <= now', NoMark <= mark', mark' <= now' - Overlap, Covered(mark)',
         \A k \in Kinds : Busy(k) /\ Fits(round[k]) => Fits(round[k])'
  PROVE  SyncInv'
<1>1. OneRound'
  BY DEF SyncInv, OneRound, Busy
<1>2. \A k \in Kinds : Busy(k)' => Fits(round[k])'
  BY DEF SyncInv, Busy
<1> QED
  BY <1>1, <1>2 DEF SyncInv

LEMMA RoundIs ==
  ASSUME SyncInv, NEW k \in Kinds, Busy(k), Fits(round[k])
  PROVE  /\ round[k] \in RoundType
         /\ round[k].mark \in Int /\ round[k].since \in Int /\ round[k].offset \in Nat
         /\ round[k].mark <= now - Overlap /\ round[k].since <= round[k].mark /\ mark <= round[k].mark
         /\ round[k].since <= now - Overlap
         /\ now \in Nat /\ mark \in Int /\ Overlap \in Nat
<1>1. now \in Nat /\ mark \in Int /\ Overlap \in Nat /\ round[k] \in RoundType
  BY SyncAssumption DEF SyncInv, SyncTypes
<1>2. round[k].mark \in Int /\ round[k].since \in Int /\ round[k].offset \in Nat
  BY <1>1 DEF RoundType
<1>3. round[k].mark <= now - Overlap /\ round[k].since <= round[k].mark /\ mark <= round[k].mark
  BY DEF Fits
<1> QED
  BY <1>1, <1>2, <1>3

LEMMA ChangeKeeps ==
  ASSUME SyncInv, NEW r \in Rows, Change(r)
  PROVE  SyncInv'
<1>1. UNCHANGED <<now, src, target, mark, running, round, lost>>
  BY DEF Change, file
<1>2. SyncTypes /\ ShowsInTime /\ VersionsRise /\ Overlap <= now /\ NoMark <= mark /\ mark <= now - Overlap
      /\ Covered(mark) /\ Delay \in Nat
  BY SyncAssumption DEF SyncInv
<1>3. PICK c : c = [ver |-> src[r].ver + 1, at |-> now]
  OBVIOUS
<1>4. c \in [ver : Nat, at : Nat] /\ c.ver > src[r].ver /\ now <= c.at + Delay
  BY <1>2, <1>3 DEF SyncTypes
<1>5. open' = [open EXCEPT ![r] = c]
  BY <1>3 DEF Change
<1>6. open' \in [Rows -> [ver : Nat, at : Nat]] /\ \A x \in Rows : open'[x] = IF x = r THEN c ELSE open[x]
  BY <1>2, <1>4, <1>5 DEF SyncTypes
<1>7. SyncTypes'
  BY <1>1, <1>2, <1>6 DEF SyncTypes
<1>8. ShowsInTime'
  BY <1>1, <1>2, <1>4, <1>6 DEF ShowsInTime
<1>9. VersionsRise' /\ Covered(mark)' /\ Overlap <= now' /\ NoMark <= mark' /\ mark' <= now' - Overlap
  BY <1>1, <1>2 DEF VersionsRise, Covered, InTarget
<1>10. \A k \in Kinds : Fits(round[k]) => Fits(round[k])'
  BY <1>1 DEF Fits, ReadingsFit, Covered, Carried, Matching, Before, InTarget, IsRead
<1> QED
  BY <1>1, <1>7, <1>8, <1>9, <1>10, SourceStep

LEMMA TickKeeps ==
  ASSUME SyncInv, Tick
  PROVE  SyncInv'
<1>1. UNCHANGED <<src, open, target, mark, running, round, lost>> /\ now' = now + 1
      /\ \A r \in Rows : open[r] = NoChange \/ now < open[r].at + Delay
  BY DEF Tick, file
<1>2. SyncTypes /\ ShowsInTime /\ VersionsRise /\ Overlap <= now /\ NoMark <= mark /\ mark <= now - Overlap
      /\ Covered(mark) /\ Delay \in Nat /\ Overlap \in Nat
  BY SyncAssumption DEF SyncInv
<1>3. SyncTypes'
  BY <1>1, <1>2 DEF SyncTypes
<1>4. ShowsInTime'
  <2>1. SUFFICES ASSUME NEW r \in Rows, open[r] # NoChange
                 PROVE  open[r].ver > src[r].ver /\ now' <= open[r].at + Delay
    BY <1>1 DEF ShowsInTime
  <2>2. open[r].ver > src[r].ver /\ now < open[r].at + Delay
    BY <1>1, <1>2, <2>1 DEF ShowsInTime
  <2>3. open[r].at \in Nat /\ now \in Nat
    BY <1>2 DEF SyncTypes
  <2> QED
    BY <1>1, <1>2, <2>2, <2>3
<1>5. VersionsRise' /\ Covered(mark)'
  BY <1>1, <1>2 DEF VersionsRise, Covered, InTarget
<1>6. Overlap <= now' /\ NoMark <= mark' /\ mark' <= now' - Overlap
  BY <1>1, <1>2 DEF SyncTypes
<1>7. ASSUME NEW k \in Kinds, Busy(k), Fits(round[k]) PROVE Fits(round[k])'
  <2>1. round[k].mark <= now' - Overlap
    BY <1>1, <1>7, RoundIs
  <2>2. /\ ReadingsFit(round[k].rows, round[k].mark) => ReadingsFit(round[k].rows, round[k].mark)'
        /\ Covered(round[k].since) => Covered(round[k].since)'
        /\ Carried(round[k]) => Carried(round[k])'
    BY <1>1 DEF ReadingsFit, Covered, Carried, Matching, Before, InTarget, IsRead
  <2> QED
    BY <1>1, <1>7, <2>1, <2>2 DEF Fits
<1> QED
  BY <1>1, <1>3, <1>4, <1>5, <1>6, <1>7, SourceStep

(* A change that shows is later than what any watermark has passed or will. *)
LEMMA ShowKeeps ==
  ASSUME SyncInv, NEW r \in Rows, Show(r)
  PROVE  SyncInv'
<1>1. PICK c : c = [ver |-> open[r].ver, at |-> open[r].at, here |-> TRUE]
  OBVIOUS
<1>2. /\ UNCHANGED <<now, target, mark, running, round, lost>> /\ open[r] # NoChange
      /\ src' = [src EXCEPT ![r] = c] /\ open' = [open EXCEPT ![r] = NoChange]
  BY <1>1 DEF Show, file
<1>3. SyncTypes /\ ShowsInTime /\ VersionsRise /\ Overlap <= now /\ NoMark <= mark /\ mark <= now - Overlap
      /\ Covered(mark) /\ Delay \in Nat /\ Overlap \in Nat /\ Delay < Overlap /\ mark \in Int /\ now \in Nat
  BY SyncAssumption DEF SyncInv, SyncTypes
<1>4. /\ src \in [Rows -> [ver : Nat, at : Nat, here : BOOLEAN]] /\ target \in [Rows -> Nat]
      /\ open \in [Rows -> [ver : Nat, at : Nat]]
  BY <1>3 DEF SyncTypes
<1>5. /\ c \in [ver : Nat, at : Nat, here : BOOLEAN] /\ c.here /\ c.ver > src[r].ver /\ now <= c.at + Delay
      /\ c.at \in Nat /\ c.ver \in Nat
  BY <1>1, <1>2, <1>3, <1>4 DEF ShowsInTime
<1>6. c.at > now - Overlap
  BY <1>3, <1>5
<1>7. NoChange \in [ver : Nat, at : Nat]
  BY DEF NoChange
<1>8. /\ src' \in [Rows -> [ver : Nat, at : Nat, here : BOOLEAN]]
      /\ open' \in [Rows -> [ver : Nat, at : Nat]]
      /\ \A x \in Rows : src'[x] = IF x = r THEN c ELSE src[x]
      /\ \A x \in Rows : open'[x] = IF x = r THEN NoChange ELSE open[x]
  BY <1>2, <1>4, <1>5, <1>7
<1>9. SyncTypes'
  BY <1>2, <1>3, <1>8 DEF SyncTypes
<1>10. ShowsInTime'
  BY <1>2, <1>3, <1>8 DEF ShowsInTime
<1>11. VersionsRise'
  BY <1>2, <1>3, <1>4, <1>5, <1>8 DEF VersionsRise
<1>12. ASSUME NEW t \in Int, t <= now - Overlap, Covered(t) PROVE Covered(t)'
  <2>1. SUFFICES ASSUME NEW x \in Rows, src'[x].here, src'[x].at <= t PROVE target[x] = src'[x].ver \/ x \in lost
    BY <1>2 DEF Covered, InTarget
  <2>2. x # r
    BY <1>3, <1>5, <1>6, <1>8, <1>12, <2>1
  <2> QED
    BY <1>8, <1>12, <2>1, <2>2 DEF Covered, InTarget
<1>13. Covered(mark)'
  <2>1. PICK m : m = mark
    OBVIOUS
  <2>2. Covered(m)'
    BY <1>3, <1>12, <2>1
  <2> QED
    BY <1>2, <2>1, <2>2 DEF Covered, InTarget
<1>14. ASSUME NEW k \in Kinds, Busy(k), Fits(round[k]) PROVE Fits(round[k])'
  <2>1. PICK d : d = round[k]
    OBVIOUS
  <2>2. /\ d \in RoundType /\ d.mark \in Int /\ d.since \in Int /\ d.offset \in Nat
        /\ d.mark <= now - Overlap /\ d.since <= d.mark /\ mark <= d.mark /\ d.since <= now - Overlap
    BY <1>14, <2>1, RoundIs
  <2>3. c.at > d.mark /\ c.at > d.since
    BY <1>3, <1>5, <1>6, <2>2
  <2>4. ASSUME ReadingsFit(d.rows, d.mark) PROVE ReadingsFit(d.rows, d.mark)'
    <3>1. PICK got \in Seq(RowVersion) : got = d.rows
      BY <2>2 DEF RoundType
    <3>2. \A i \in DOMAIN got : got[i].row \in Rows /\ got[i].ver \in Nat
      <4>1. \A i \in DOMAIN got : got[i] \in RowVersion
        BY <3>1
      <4> QED
        BY <4>1 DEF RowVersion
    <3>3. ASSUME NEW i \in DOMAIN got
          PROVE  /\ got[i].ver <= src'[got[i].row].ver
                 /\ got[i].ver = src'[got[i].row].ver \/ src'[got[i].row].at > d.mark
      <4>1. /\ got[i].ver <= src[got[i].row].ver
            /\ got[i].ver = src[got[i].row].ver \/ src[got[i].row].at > d.mark
        BY <2>4, <3>1, <3>3 DEF ReadingsFit
      <4>2. CASE got[i].row = r
        BY <1>4, <1>5, <1>8, <2>3, <3>2, <4>1, <4>2
      <4>3. CASE got[i].row # r
        BY <1>8, <3>2, <4>1, <4>3
      <4> QED
        BY <4>2, <4>3
    <3> QED
      BY <1>2, <2>4, <3>1, <3>3 DEF ReadingsFit
  <2>5. ASSUME Carried(d) PROVE Carried(d)'
    <3>1. PICK s : s = d.since
      OBVIOUS
    <3>2. Matching(s) \subseteq Matching(s)' /\ \A x \in Matching(s)' : x \in Rows /\ (x # r => x \in Matching(s))
      BY <1>4, <1>5, <1>8, <2>3, <3>1 DEF Matching
    <3>3. ASSUME NEW x \in Rows PROVE Before(s, x) <= Before(s, x)' /\ Before(s, x) \in Nat /\ Before(s, x)' \in Nat
      <4>1. IsFiniteSet(Matching(s)') /\ Matching(s)' \subseteq Rows
        BY SyncAssumption, FS_Subset DEF Matching
      <4>2. PICK A, B : A = {q \in Matching(s) : q < x} /\ B = {q \in Matching(s)' : q < x}
        OBVIOUS
      <4>3. A \in SUBSET B /\ B \in SUBSET Matching(s)'
        BY <3>2, <4>2
      <4>4. IsFiniteSet(B) /\ IsFiniteSet(A) /\ Cardinality(A) <= Cardinality(B)
        BY <4>1, <4>3, FS_Subset
      <4>5. Cardinality(A) \in Nat /\ Cardinality(B) \in Nat
        BY <4>4, FS_CardinalityType
      <4>6. Before(s, x) = Cardinality(A)
        BY <4>2 DEF Before
      <4>7. Before(s, x)' = Cardinality(B)
        BY <4>2 DEF Before
      <4> QED
        BY <4>4, <4>5, <4>6, <4>7
    <3>4. ASSUME NEW x \in Matching(s)', src'[x].at <= d.mark
          PROVE  \/ target[x] = src'[x].ver \/ x \in lost \/ IsRead(d.rows, x)'
                 \/ d.pc = "page" /\ d.offset <= Before(s, x)'
      <4>1. x # r
        BY <1>5, <1>8, <2>2, <2>3, <3>2, <3>4
      <4>2. x \in Rows /\ x \in Matching(s) /\ src'[x] = src[x]
        BY <1>8, <3>2, <3>4, <4>1
      <4>3. \/ InTarget(x) \/ x \in lost \/ IsRead(d.rows, x)
            \/ d.pc = "page" /\ d.offset <= Before(s, x)
        BY <2>5, <3>1, <3>4, <4>2 DEF Carried
      <4>4. IsRead(d.rows, x) => IsRead(d.rows, x)'
        BY <4>2 DEF IsRead
      <4>5. d.offset <= Before(s, x) => d.offset <= Before(s, x)'
        BY <2>2, <3>3, <4>2
      <4> QED
        BY <4>2, <4>3, <4>4, <4>5 DEF InTarget
    <3> QED
      BY <1>2, <3>1, <3>4 DEF Carried, InTarget
  <2>6. Covered(d.since) => Covered(d.since)'
    BY <1>12, <2>2
  <2>7. Fits(d) => Fits(d)'
    BY <1>2, <2>4, <2>5, <2>6 DEF Fits
  <2> QED
    BY <1>2, <1>14, <2>1, <2>7 DEF Fits
<1> QED
  BY <1>2, <1>3, <1>9, <1>10, <1>11, <1>13, <1>14, SourceStep
(* The rows after one that is taken away move up by one, and the one that   *)
(* moves to before the offset of a round is lost.                           *)
LEMMA WithdrawKeeps ==
  ASSUME SyncInv, NEW r \in Rows, Withdraw(r)
  PROVE  SyncInv'
<1>1. /\ UNCHANGED <<now, open, target, mark, running, round>>
      /\ src' = [src EXCEPT ![r].here = FALSE]
      /\ lost' = lost \union UNION {PassedOver(k, r) : k \in Kinds}
  BY DEF Withdraw, file
<1>2. SyncTypes /\ ShowsInTime /\ VersionsRise /\ Overlap <= now /\ NoMark <= mark /\ mark <= now - Overlap
      /\ Covered(mark)
  BY DEF SyncInv
<1>3. /\ src \in [Rows -> [ver : Nat, at : Nat, here : BOOLEAN]] /\ target \in [Rows -> Nat]
  BY <1>2 DEF SyncTypes
<1>4. /\ src' \in [Rows -> [ver : Nat, at : Nat, here : BOOLEAN]]
      /\ \A x \in Rows : src'[x].ver = src[x].ver /\ src'[x].at = src[x].at
      /\ \A x \in Rows : src'[x].here = (src[x].here /\ x # r)
  BY <1>1, <1>3
<1>5. SyncTypes'
  BY <1>1, <1>2, <1>4 DEF SyncTypes
<1>6. ShowsInTime' /\ VersionsRise'
  BY <1>1, <1>2, <1>4 DEF ShowsInTime, VersionsRise
<1>7. ASSUME NEW t, Covered(t) PROVE Covered(t)'
  BY <1>1, <1>4, <1>7 DEF Covered, InTarget
<1>8. Covered(mark)'
  <2>1. PICK m : m = mark
    OBVIOUS
  <2>2. Covered(m)'
    BY <1>2, <1>7, <2>1
  <2> QED
    BY <1>1, <2>1, <2>2 DEF Covered, InTarget
<1>9. ASSUME NEW k \in Kinds, Busy(k), Fits(round[k]) PROVE Fits(round[k])'
  <2>1. PICK d : d = round[k]
    OBVIOUS
  <2>2. d \in RoundType /\ d.offset \in Nat
    BY <1>9, <2>1, RoundIs
  <2>3. ASSUME ReadingsFit(d.rows, d.mark) PROVE ReadingsFit(d.rows, d.mark)'
    <3>1. PICK got \in Seq(RowVersion) : got = d.rows
      BY <2>2 DEF RoundType
    <3>2. \A i \in DOMAIN got : got[i].row \in Rows
      <4>1. \A i \in DOMAIN got : got[i] \in RowVersion
        BY <3>1
      <4> QED
        BY <4>1 DEF RowVersion
    <3>3. \A i \in DOMAIN got : src'[got[i].row].ver = src[got[i].row].ver /\ src'[got[i].row].at = src[got[i].row].at
      BY <1>4, <3>2
    <3> QED
      BY <1>1, <2>3, <3>1, <3>3 DEF ReadingsFit
  <2>4. ASSUME Carried(d) PROVE Carried(d)'
    <3>1. PICK s : s = d.since
      OBVIOUS
    <3>2. Matching(s)' = Matching(s) \ {r}
      BY <1>4 DEF Matching
    <3>3. ASSUME NEW x \in Matching(s), x # r
          PROVE  /\ Before(s, x) \in Nat /\ Before(s, x)' \in Nat
                 /\ Before(s, x)' = IF r \in Matching(s) /\ r < x THEN Before(s, x) - 1 ELSE Before(s, x)
      <4>1. IsFiniteSet(Matching(s))
        BY <1>2, BeforeIs
      <4>2. PICK A, B : A = {q \in Matching(s) : q < x} /\ B = {q \in Matching(s)' : q < x}
        OBVIOUS
      <4>3. IsFiniteSet(A) /\ B = A \ {r} /\ A \in SUBSET Matching(s)
        BY <3>2, <4>1, <4>2, FS_Subset
      <4>4. /\ IsFiniteSet(B)
            /\ Cardinality(B) = IF r \in A THEN Cardinality(A) - 1 ELSE Cardinality(A)
        BY <4>3, FS_RemoveElement
      <4>5. Cardinality(A) \in Nat /\ Cardinality(B) \in Nat
        BY <4>3, <4>4, FS_CardinalityType
      <4>6. Before(s, x) = Cardinality(A)
        BY <4>2 DEF Before
      <4>7. Before(s, x)' = Cardinality(B)
        BY <4>2 DEF Before
      <4>8. r \in A <=> r \in Matching(s) /\ r < x
        BY <4>2
      <4> QED
        BY <4>4, <4>5, <4>6, <4>7, <4>8
    <3>4. ASSUME NEW x \in Matching(s), x # r, src[x].at <= d.mark
          PROVE  \/ InTarget(x) \/ x \in lost' \/ IsRead(d.rows, x)
                 \/ d.pc = "page" /\ d.offset <= Before(s, x)'
      <4>1. \/ InTarget(x) \/ x \in lost \/ IsRead(d.rows, x)
            \/ d.pc = "page" /\ d.offset <= Before(s, x)
        BY <2>4, <3>1, <3>4 DEF Carried
      <4>2. CASE d.pc = "page" /\ d.offset <= Before(s, x)
        <5>1. CASE r \in Matching(s) /\ r < x /\ Before(s, x) = d.offset
          <6>1. x \in PassedOver(k, r)
            BY <2>1, <3>1, <4>2, <5>1 DEF PassedOver
          <6> QED
            BY <1>1, <6>1
        <5>2. CASE ~(r \in Matching(s) /\ r < x)
          BY <3>3, <3>4, <4>2, <5>2
        <5>3. CASE Before(s, x) # d.offset
          <6>1. d.offset + 1 <= Before(s, x)
            BY <2>2, <3>3, <3>4, <4>2, <5>3
          <6> QED
            BY <2>2, <3>3, <3>4, <4>2, <6>1
        <5> QED
          BY <5>1, <5>2, <5>3
      <4> QED
        BY <1>1, <4>1, <4>2
    <3>5. ASSUME NEW x \in Matching(s)', src'[x].at <= d.mark
          PROVE  \/ target[x] = src'[x].ver \/ x \in lost' \/ IsRead(d.rows, x)'
                 \/ d.pc = "page" /\ d.offset <= Before(s, x)'
      <4>1. x \in Matching(s) /\ x # r /\ x \in Rows
        BY <3>2, <3>5 DEF Matching
      <4>2. src'[x].at = src[x].at /\ src'[x].ver = src[x].ver
        BY <1>4, <4>1
      <4>3. IsRead(d.rows, x) => IsRead(d.rows, x)'
        BY <4>2 DEF IsRead
      <4> QED
        BY <3>4, <3>5, <4>1, <4>2, <4>3 DEF InTarget
    <3> QED
      BY <1>1, <3>1, <3>5 DEF Carried, InTarget
  <2>5. Covered(d.since) => Covered(d.since)'
    BY <1>7
  <2>6. Fits(d) => Fits(d)'
    BY <1>1, <2>3, <2>4, <2>5 DEF Fits
  <2> QED
    BY <1>1, <1>9, <2>1, <2>6 DEF Fits
<1> QED
  BY <1>1, <1>2, <1>5, <1>6, <1>8, <1>9, SourceStep

(* Nothing but the time of the last full round changes, or the file is lost.*)
LEMMA FileKeeps ==
  ASSUME SyncInv, UNCHANGED <<source, target, running, round, lost>>, mark' \in {mark, NoMark}
  PROVE  SyncInv'
<1>1. SyncTypes /\ ShowsInTime /\ VersionsRise /\ Overlap <= now /\ NoMark <= mark /\ mark <= now - Overlap
      /\ Covered(mark) /\ mark \in Int /\ now \in Nat /\ Overlap \in Nat
  BY SyncAssumption DEF SyncInv, SyncTypes
<1>2. SyncTypes' /\ ShowsInTime' /\ VersionsRise'
  BY <1>1 DEF SyncTypes, ShowsInTime, VersionsRise, source, NoMark
<1>3. mark' \in Int /\ mark' <= mark /\ NoMark <= mark' /\ mark' <= now' - Overlap /\ Overlap <= now'
  BY <1>1 DEF NoMark, source
<1>4. Covered(mark)'
  BY <1>1 DEF Covered, InTarget, source, NoMark, SyncTypes
<1>5. ASSUME NEW k \in Kinds, Busy(k), Fits(round[k]) PROVE Fits(round[k])'
  <2>1. mark' <= round[k].mark
    BY <1>1, <1>3, <1>5, RoundIs
  <2>2. /\ ReadingsFit(round[k].rows, round[k].mark) => ReadingsFit(round[k].rows, round[k].mark)'
        /\ Covered(round[k].since) => Covered(round[k].since)'
        /\ Carried(round[k]) => Carried(round[k])'
    BY DEF ReadingsFit, Covered, Carried, Matching, Before, InTarget, IsRead, source
  <2> QED
    BY <1>5, <2>1, <2>2 DEF Fits, source
<1> QED
  BY <1>2, <1>3, <1>4, <1>5, SourceStep

LEMMA SyncRestartKeeps ==
  ASSUME SyncInv, Restart
  PROVE  SyncInv'
<1>1. UNCHANGED <<source, target, mark, lost>> /\ round' = [k \in Kinds |-> Idle] /\ running' = FALSE
  BY DEF Restart, file
<1>2. round' \in [Kinds -> RoundType] /\ \A k \in Kinds : ~Busy(k)'
  BY <1>1, IdleIs DEF Busy
<1>3. SyncTypes' /\ ShowsInTime' /\ VersionsRise' /\ Covered(mark)'
  BY <1>1, <1>2 DEF SyncInv, SyncTypes, ShowsInTime, VersionsRise, Covered, InTarget, source
<1>4. OneRound'
  BY <1>2 DEF OneRound
<1> QED
  BY <1>1, <1>2, <1>3, <1>4 DEF SyncInv, source

LEMMA SyncStart ==
  Init => SyncInv
<1> SUFFICES ASSUME Init PROVE SyncInv
  OBVIOUS
<1>1. Overlap \in Nat
  BY SyncAssumption
<1>2. SyncTypes
  <2>1. now \in Nat /\ mark \in Int
    BY <1>1 DEF Init, NoMark
  <2>5. running \in BOOLEAN
    BY DEF Init
  <2>2. src \in [Rows -> [ver : Nat, at : Nat, here : BOOLEAN]]
    BY DEF Init
  <2>3. open \in [Rows -> [ver : Nat, at : Nat]] /\ target \in [Rows -> Nat]
    BY DEF Init, NoChange
  <2>4. round \in [Kinds -> RoundType]
    BY IdleIs DEF Init
  <2> QED
    BY <2>1, <2>2, <2>3, <2>4, <2>5 DEF SyncTypes
<1>3. \A k \in Kinds : ~Busy(k)
  BY IdleIs DEF Init, Busy
<1>4. Covered(mark)
  BY DEF Init, Covered, NoMark
<1>5. ShowsInTime /\ VersionsRise
  BY DEF Init, ShowsInTime, VersionsRise
<1> QED
  BY <1>1, <1>2, <1>3, <1>4, <1>5 DEF Init, SyncInv, OneRound, NoMark

LEMMA SyncStep ==
  SyncInv /\ [Next]_vars => SyncInv' /\ \A r \in Rows : target'[r] >= target[r]
<1> SUFFICES ASSUME SyncInv, [Next]_vars PROVE SyncInv' /\ \A r \in Rows : target'[r] >= target[r]
  OBVIOUS
<1>1. ASSUME UNCHANGED target PROVE \A r \in Rows : target'[r] >= target[r]
  BY <1>1 DEF SyncInv, SyncTypes
<1>2. CASE UNCHANGED vars
  BY <1>1, <1>2, FileKeeps DEF vars, file
<1>3. ASSUME NEW r \in Rows, Change(r) \/ Show(r) \/ Withdraw(r)
      PROVE  SyncInv' /\ UNCHANGED target
  BY <1>3, ChangeKeeps, ShowKeeps, WithdrawKeeps DEF Change, Show, Withdraw
<1>4. CASE Tick
  BY <1>1, <1>4, TickKeeps DEF Tick
<1>5. CASE GrowOld \/ LoseFile
  BY <1>1, <1>5, FileKeeps DEF GrowOld, LoseFile
<1>6. CASE Restart
  BY <1>1, <1>6, SyncRestartKeeps DEF Restart
<1>7. ASSUME NEW k \in Kinds, Import(k)
      PROVE  SyncInv' /\ \A r \in Rows : target'[r] >= target[r]
  BY <1>7, ImportKeeps
<1>8. ASSUME NEW k \in Kinds, Step(k) \/ Begin(k, TRUE) \/ SkipRow(k) \/ Fail(k) \/ SetMarkFails(k), ~Import(k)
      PROVE  SyncInv' /\ UNCHANGED target
  <2>1. CASE Begin(k, FALSE) \/ Begin(k, TRUE)
    BY <2>1, BeginKeeps DEF Begin
  <2>2. CASE ReadPage(k)
    BY <2>2, ReadPageKeeps DEF ReadPage
  <2>3. CASE SkipRow(k)
    BY <2>3, SkipRowKeeps DEF SkipRow
  <2>4. CASE SetMark(k) \/ SetMarkFails(k)
    BY <2>4, SetMarkKeeps DEF SetMark, SetMarkFails
  <2>5. CASE MarkFullSync(k) \/ Fail(k)
    BY <2>5, MarkFullSyncKeeps DEF MarkFullSync, Fail
  <2> QED
    BY <1>8, <2>1, <2>2, <2>3, <2>4, <2>5 DEF Step
<1> QED
  BY <1>1, <1>2, <1>3, <1>4, <1>5, <1>6, <1>7, <1>8 DEF Next

(* What a watermark has passed is in the target, or was lost, for any rows, *)
(* page size, number of changes and failures, as long as a change shows     *)
(* sooner than the watermark is set back.                                   *)
THEOREM WatermarkIsSafe == Spec => []NothingBehindWatermark
<1>1. SyncInv => NothingBehindWatermark
  BY DEF SyncInv, Covered, NothingBehindWatermark
<1> QED
  BY <1>1, SyncStart, SyncStep, PTL DEF Spec

(* No row of the target goes back to an older version: the gate keeps two   *)
(* rounds apart, and a round carries a row in the order it read it.         *)
THEOREM TargetNeverGoesBack == Spec => NeverBackwards
<1>1. SyncInv /\ [Next]_vars => [\A r \in Rows : target'[r] >= target[r]]_vars
  BY SyncStep
<1> QED
  BY <1>1, SyncStart, SyncStep, PTL DEF Spec, NeverBackwards
================================================================================
