-------------------------- MODULE PdlDriverProofs --------------------------
(***************************************************************************)
(* Proofs about PdlBmc and PdlMcu: the BMC and the MCU driver, for any     *)
(* threads and any number of commands.                                     *)
(***************************************************************************)
EXTENDS PdlBmc, PdlMcu, TLAPS

-----------------------------------------------------------------------------
(* The BMC: the mutex and the counters.                                    *)

BmcPcs == {"idle", "lock", "send", "receive", "count", "returned"}
BmcHolding == {"send", "receive", "count"}

BmcCalls ==
  [number : Nat, stub : BOOLEAN, answer : Nat \cup {Noise}, ret : Nat, clean : BOOLEAN]
BmcItems == [number : Nat, whole : BOOLEAN]

BmcType ==
  /\ bmcUp \in BOOLEAN
  /\ bmcChannel \in Channels
  /\ bmcStats \in [cmd : Nat, success : Nat, fail : Nat, switch : Nat]
  /\ bmcLock \in BmcThreads \cup {NoOne}
  /\ bmcPc \in [BmcThreads -> BmcPcs]
  /\ bmcCall \in [BmcThreads -> BmcCalls]
  /\ bmcLast \in Nat
  /\ bmcSent \in [Channels -> Seq(BmcItems)]
  /\ bmcReceived \in [Channels -> Seq(BmcItems)]

\* From its counting of the command to that of the outcome a call, and nobody
\* else, has the mutex; nobody is in a call of a context that is not there.
BmcLocked ==
  /\ \A t \in BmcThreads : bmcPc[t] \in BmcHolding <=> bmcLock = t
  /\ ~bmcUp => \A t \in BmcThreads : bmcPc[t] = "idle"

\* The command of the holder of the mutex is the only one without an outcome.
BmcTally ==
  bmcStats.cmd = bmcStats.success + bmcStats.fail + (IF bmcLock = NoOne THEN 0 ELSE 1)

BmcInv == BmcType /\ BmcLocked /\ BmcTally

\* Counting a command or an outcome changes one counter.
LEMMA BmcCounters ==
  ASSUME NEW s \in [cmd : Nat, success : Nat, fail : Nat, switch : Nat]
  PROVE  /\ [s EXCEPT !.cmd = @ + 1] \in [cmd : Nat, success : Nat, fail : Nat, switch : Nat]
         /\ [s EXCEPT !.cmd = @ + 1].cmd = s.cmd + 1
         /\ [s EXCEPT !.cmd = @ + 1].success = s.success
         /\ [s EXCEPT !.cmd = @ + 1].fail = s.fail
         /\ [s EXCEPT !.switch = @ + 1] \in [cmd : Nat, success : Nat, fail : Nat, switch : Nat]
         /\ [s EXCEPT !.switch = @ + 1].cmd = s.cmd
         /\ [s EXCEPT !.switch = @ + 1].success = s.success
         /\ [s EXCEPT !.switch = @ + 1].fail = s.fail
         /\ \A r : LET n == [s EXCEPT ![Outcome(r)] = @ + 1] IN
              /\ n \in [cmd : Nat, success : Nat, fail : Nat, switch : Nat]
              /\ n.cmd = s.cmd
              /\ n.success + n.fail = s.success + s.fail + 1
  <1>1. ASSUME NEW r
        PROVE  LET n == [s EXCEPT ![Outcome(r)] = @ + 1] IN
                 /\ n \in [cmd : Nat, success : Nat, fail : Nat, switch : Nat]
                 /\ n.cmd = s.cmd
                 /\ n.success + n.fail = s.success + s.fail + 1
    <2>1. CASE r = OSAL_SUCCESS
      <3>1. Outcome(r) = "success"
        BY <2>1 DEF Outcome
      <3>2. QED BY <3>1
    <2>2. CASE r # OSAL_SUCCESS
      <3>1. Outcome(r) = "fail"
        BY <2>2 DEF Outcome
      <3>2. QED BY <3>1
    <2>3. QED BY <2>1, <2>2
  <1>2. QED BY <1>1

LEMMA BmcNoCommand == NoCommand \in BmcCalls /\ NoCommand.answer = 0 /\ ~NoCommand.clean
  BY DEF NoCommand, BmcCalls, OSAL_SUCCESS

\* What the steps of a call make of it.
LEMMA BmcNumbers ==
  ASSUME NEW n \in Nat, NEW b \in BOOLEAN
  PROVE  LET q == [NoCommand EXCEPT !.stub = b, !.number = n] IN
           q \in BmcCalls /\ q.answer = 0 /\ ~q.clean
  BY DEF NoCommand, BmcCalls, OSAL_SUCCESS

LEMMA BmcMarks ==
  ASSUME NEW q \in BmcCalls, NEW b \in BOOLEAN
  PROVE  LET p == [q EXCEPT !.clean = b] IN
           p \in BmcCalls /\ p.answer = q.answer /\ p.number = q.number /\ p.clean = b
  BY DEF BmcCalls

\* The items of s are of command n.
BmcOf(s, n) == \A i \in 1..Len(s) : s[i].number = n

LEMMA BmcOfEmpty == <<>> \in Seq(BmcItems) /\ \A n : BmcOf(<<>>, n)
  BY DEF BmcOf

LEMMA BmcPiece ==
  ASSUME NEW x \in BmcItems
  PROVE  Piece(x) \in BmcItems /\ Piece(x).number = x.number
  BY DEF Piece, BmcItems

LEMMA BmcWhole ==
  ASSUME NEW n \in Nat
  PROVE  Whole(n) \in BmcItems /\ Whole(n).number = n
  BY DEF Whole, BmcItems

\* What sending, answering, losing and reading make of the items of a channel.
LEMMA BmcOfAppend ==
  ASSUME NEW s \in Seq(BmcItems), NEW x \in BmcItems
  PROVE  /\ Append(s, x) \in Seq(BmcItems)
         /\ \A n : BmcOf(s, n) /\ x.number = n => BmcOf(Append(s, x), n)
  BY DEF BmcOf

LEMMA BmcOfTail ==
  ASSUME NEW s \in Seq(BmcItems), s # <<>>
  PROVE  /\ Tail(s) \in Seq(BmcItems) /\ Head(s) \in BmcItems
         /\ \A n : BmcOf(s, n) => BmcOf(Tail(s), n) /\ Head(s).number = n
  BY DEF BmcOf

LEMMA BmcOfBehind ==
  ASSUME NEW s \in Seq(BmcItems), NEW x \in BmcItems
  PROVE  /\ <<x>> \o s \in Seq(BmcItems)
         /\ \A n : BmcOf(s, n) /\ x.number = n => BmcOf(<<x>> \o s, n)
  <1> DEFINE z == <<x>> \o s
  <1>1. /\ z \in Seq(BmcItems) /\ Len(z) = Len(s) + 1 /\ Len(s) \in Nat
        /\ z[1] = x /\ \A i \in 2..Len(z) : z[i] = s[i - 1] /\ i - 1 \in 1..Len(s)
    OBVIOUS
  <1> HIDE DEF z
  <1>2. ASSUME NEW n, BmcOf(s, n), x.number = n, NEW i \in 1..Len(z)
        PROVE  z[i].number = n
    <2>1. CASE i = 1
      BY <1>1, <1>2, <2>1
    <2>2. CASE i # 1
      <3>1. i \in 2..Len(z)
        BY <1>1, <2>2
      <3>2. z[i] = s[i - 1] /\ i - 1 \in 1..Len(s)
        BY <1>1, <3>1
      <3>3. QED BY <1>2, <3>2 DEF BmcOf
    <2>3. QED BY <2>1, <2>2
  <1>3. \A n : BmcOf(s, n) /\ x.number = n => BmcOf(z, n)
    BY <1>2 DEF BmcOf
  <1>4. QED BY <1>1, <1>3 DEF z

LEMMA BmcOfUnread ==
  ASSUME NEW s \in Seq(BmcItems), NEW rest \in Unread(s)
  PROVE  rest \in Seq(BmcItems)
  <1>1. ASSUME NEW n \in 1..Len(s)
        PROVE  SubSeq(s, n + 1, Len(s)) \in Seq(BmcItems) /\ s[n] \in BmcItems
    OBVIOUS
  <1>2. CASE \E n \in 1..Len(s) : rest = SubSeq(s, n + 1, Len(s))
    BY <1>1, <1>2
  <1>3. ASSUME NEW n \in 1..Len(s), rest = <<Piece(s[n])>> \o SubSeq(s, n + 1, Len(s))
        PROVE  rest \in Seq(BmcItems)
    BY <1>1, <1>3, BmcPiece, BmcOfBehind
  <1>4. QED BY <1>2, <1>3 DEF Unread

LEMMA BmcInvInit == BmcInit => BmcInv
  <1>1. NoOne \notin BmcThreads
    BY BmcAssumption
  <1>2. ASSUME BmcInit PROVE BmcType
    <2>1. NoStats \in [cmd : Nat, success : Nat, fail : Nat, switch : Nat]
      BY DEF NoStats
    <2>2. Silence \in [Channels -> Seq(BmcItems)]
      BY BmcOfEmpty DEF Silence
    <2>3. bmcCall \in [BmcThreads -> BmcCalls]
      BY <1>2, BmcNoCommand DEF BmcInit
    <2>4. QED BY <1>2, <2>1, <2>2, <2>3 DEF BmcInit, BmcType, BmcPcs, Channels
  <1>3. BmcInit => BmcLocked /\ BmcTally
    BY <1>1 DEF BmcInit, BmcLocked, BmcTally, BmcHolding, NoStats
  <1>4. QED BY <1>2, <1>3 DEF BmcInv

\* A step of the call of t that neither takes nor gives the mutex up.
BmcGoes(t) ==
  /\ \E p \in BmcPcs :
       /\ bmcPc' = [bmcPc EXCEPT ![t] = p]
       /\ p \in BmcHolding <=> bmcPc[t] \in BmcHolding
  /\ bmcUp
  /\ UNCHANGED <<bmcUp, bmcChannel, bmcStats, bmcLock>>
  /\ bmcCall' \in [BmcThreads -> BmcCalls]
  /\ bmcLast' \in Nat
  /\ bmcSent' \in [Channels -> Seq(BmcItems)]
  /\ bmcReceived' \in [Channels -> Seq(BmcItems)]

LEMMA BmcGoesOn ==
  ASSUME BmcInv, NEW t \in BmcThreads, BmcGoes(t)
  PROVE  BmcInv'
  <1>1. BmcType'
    BY DEF BmcInv, BmcGoes, BmcType
  <1>2. BmcLocked' /\ BmcTally'
    BY DEF BmcInv, BmcGoes, BmcType, BmcLocked, BmcTally
  <1>3. QED BY <1>1, <1>2 DEF BmcInv

\* The calls of a step that gives t its result.
LEMMA BmcResults ==
  ASSUME BmcInv, NEW t \in BmcThreads, NEW n \in Nat \cup {Noise}, NEW r \in Nat,
         BmcResult(t, n, r)
  PROVE  /\ bmcPc'[t] = "count" /\ bmcCall' \in [BmcThreads -> BmcCalls]
         /\ bmcCall'[t].answer = n /\ bmcCall'[t].number = bmcCall[t].number
         /\ bmcCall'[t].clean = bmcCall[t].clean
         /\ \A u \in BmcThreads \ {t} : bmcPc'[u] = bmcPc[u] /\ bmcCall'[u] = bmcCall[u]
  <1> DEFINE q == [bmcCall[t] EXCEPT !.answer = n, !.ret = r]
  <1>1. bmcCall' = [bmcCall EXCEPT ![t] = q]
    BY DEF BmcResult
  <1>2. /\ q \in BmcCalls /\ q.answer = n /\ q.number = bmcCall[t].number
        /\ q.clean = bmcCall[t].clean
    <2>1. bmcCall[t] \in BmcCalls
      BY DEF BmcInv, BmcType
    <2>2. PICK p \in BmcCalls : p = bmcCall[t]
      BY <2>1
    <2>3. LET x == [p EXCEPT !.answer = n, !.ret = r] IN
            x \in BmcCalls /\ x.answer = n /\ x.number = p.number /\ x.clean = p.clean
      BY DEF BmcCalls
    <2>4. QED BY <2>2, <2>3
  <1> HIDE DEF q
  <1>3. QED BY <1>1, <1>2 DEF BmcResult, BmcInv, BmcType

\* What a step that ends the wait takes.
LEMMA BmcTakes ==
  ASSUME BmcInv, NEW t \in BmcThreads,
         BmcSendFails(t) \/ BmcReceive(t) \/ BmcReceiveEnd(t) \/ BmcTimeout(t)
         \/ BmcReceiveFails(t)
  PROVE  /\ \E n \in Nat \cup {Noise}, r \in Nat :
              /\ BmcResult(t, n, r)
              /\ \/ n \in {0, Noise}
                 \/ /\ bmcPc[t] = "receive" /\ bmcReceived[bmcChannel] # <<>>
                    /\ n = Head(bmcReceived[bmcChannel]).number
         /\ bmcPc[t] \in {"send", "receive"}
         /\ bmcReceived' \in [Channels -> Seq(BmcItems)]
         /\ UNCHANGED <<bmcContext, bmcStats, bmcLock, bmcLast, bmcSent>>
  <1>1. OSAL_SUCCESS \in Nat /\ OSAL_ERR_GENERIC \in Nat
    BY DEF OSAL_SUCCESS, OSAL_ERR_GENERIC
  <1>2. ASSUME NEW e, BmcNothing(t, e)
        PROVE  /\ BmcResult(t, Noise, OSAL_SUCCESS) \/ BmcResult(t, 0, OSAL_ERR_GENERIC)
               /\ bmcPc[t] = "receive" /\ bmcReceived' = bmcReceived
               /\ UNCHANGED <<bmcContext, bmcStats, bmcLock, bmcLast, bmcSent>>
    BY <1>2 DEF BmcNothing, bmcWires
  <1>3. CASE BmcSendFails(t)
    BY <1>1, <1>3 DEF BmcSendFails, bmcWires, BmcInv, BmcType
  <1>4. CASE BmcReceiveEnd(t)
    BY <1>1, <1>4 DEF BmcReceiveEnd, bmcWires, BmcInv, BmcType
  <1>5. CASE BmcTimeout(t) \/ BmcReceiveFails(t)
    BY <1>1, <1>2, <1>5 DEF BmcTimeout, BmcReceiveFails, BmcInv, BmcType
  <1>6. CASE BmcReceive(t)
    <2>1. bmcChannel \in Channels /\ bmcReceived[bmcChannel] \in Seq(BmcItems)
      BY DEF BmcInv, BmcType
    <2>2. Head(bmcReceived[bmcChannel]) \in BmcItems
      BY <1>6, <2>1, BmcOfTail DEF BmcReceive
    <2>3. Head(bmcReceived[bmcChannel]).number \in Nat
      BY <2>2 DEF BmcItems
    <2>4. bmcReceived' \in [Channels -> Seq(BmcItems)]
      BY <1>6, <2>1, BmcOfUnread DEF BmcReceive, BmcInv, BmcType
    <2>5. QED BY <1>1, <1>6, <2>3, <2>4 DEF BmcReceive
  <1>7. QED BY <1>3, <1>4, <1>5, <1>6

\* Sending, and what it makes of the call.
LEMMA BmcSending ==
  ASSUME BmcInv, NEW t \in BmcThreads, BmcSend(t)
  PROVE  /\ bmcSent' \in [Channels -> Seq(BmcItems)]
         /\ \A n : BmcOf(bmcSent[bmcChannel], n) /\ bmcCall[t].number = n =>
              BmcOf(bmcSent'[bmcChannel], n)
         /\ bmcCall' \in [BmcThreads -> BmcCalls]
         /\ bmcCall'[t].answer = bmcCall[t].answer /\ bmcCall'[t].number = bmcCall[t].number
         /\ bmcCall'[t].clean = BmcClean(bmcChannel)
         /\ \A u \in BmcThreads \ {t} : bmcCall'[u] = bmcCall[u]
  <1> DEFINE x == Whole(bmcCall[t].number)
             s == bmcSent[bmcChannel]
             q == [bmcCall[t] EXCEPT !.clean = BmcClean(bmcChannel)]
             z == IF BmcAtEnd THEN s ELSE Append(s, x)
  <1>1. bmcChannel \in Channels /\ s \in Seq(BmcItems) /\ bmcCall[t] \in BmcCalls
    BY DEF BmcInv, BmcType
  <1>2. bmcCall[t].number \in Nat
    BY <1>1 DEF BmcCalls
  <1>3. x \in BmcItems /\ x.number = bmcCall[t].number
    BY <1>2, BmcWhole
  <1>4. /\ z \in Seq(BmcItems)
        /\ \A n : BmcOf(s, n) /\ bmcCall[t].number = n => BmcOf(z, n)
    <2> HIDE DEF x, s
    <2>1. QED BY <1>1, <1>3, BmcOfAppend
  <1>5. bmcSent' = [bmcSent EXCEPT ![bmcChannel] = z]
    BY DEF BmcSend
  <1>6. BmcClean(bmcChannel) \in BOOLEAN
    BY DEF BmcClean
  <1>7. /\ q \in BmcCalls /\ q.answer = bmcCall[t].answer /\ q.number = bmcCall[t].number
        /\ q.clean = BmcClean(bmcChannel)
    BY <1>1, <1>6, BmcMarks
  <1>8. bmcCall' = [bmcCall EXCEPT ![t] = q]
    BY DEF BmcSend
  <1> HIDE DEF x, z, q
  <1>9. QED BY <1>1, <1>4, <1>5, <1>7, <1>8 DEF BmcInv, BmcType

\* Which steps those are.
LEMMA BmcGoing ==
  ASSUME BmcInv, NEW t \in BmcThreads
  PROVE  /\ \A b \in BOOLEAN : BmcBegin(t, b) => BmcGoes(t)
         /\ BmcSend(t) \/ BmcSendFails(t) \/ BmcReceive(t) \/ BmcReceiveEnd(t) \/ BmcTimeout(t)
            \/ BmcReceiveFails(t) \/ BmcSeen(t) => BmcGoes(t)
  <1> USE DEF BmcInv, BmcType, BmcLocked, BmcPcs, BmcHolding
  <1>1. ASSUME NEW b \in BOOLEAN, BmcBegin(t, b)
        PROVE  BmcGoes(t)
    <2>1. [NoCommand EXCEPT !.stub = b, !.number = bmcLast + 1] \in BmcCalls
      <3>1. bmcLast + 1 \in Nat
        OBVIOUS
      <3>2. QED BY <3>1, BmcNumbers
    <2>2. QED BY <1>1, <2>1 DEF BmcBegin, BmcGoes, bmcContext, bmcWires
  <1>2. CASE BmcSend(t)
    <2>1. bmcPc' = [bmcPc EXCEPT ![t] = "receive"] /\ bmcPc[t] = "send" /\ bmcReceived' = bmcReceived
          /\ bmcLast' = bmcLast /\ UNCHANGED <<bmcContext, bmcStats, bmcLock>>
      BY <1>2 DEF BmcSend
    <2>2. QED BY <1>2, <2>1, BmcSending DEF BmcGoes, bmcContext
  <1>3. CASE BmcSendFails(t) \/ BmcReceive(t) \/ BmcReceiveEnd(t) \/ BmcTimeout(t)
             \/ BmcReceiveFails(t)
    <2>1. PICK n \in Nat \cup {Noise}, r \in Nat : BmcResult(t, n, r)
      BY <1>3, BmcTakes
    <2>2. bmcCall' \in [BmcThreads -> BmcCalls] /\ bmcPc' = [bmcPc EXCEPT ![t] = "count"]
      BY <2>1, BmcResults DEF BmcResult
    <2>3. QED BY <1>3, <2>2, BmcTakes DEF BmcGoes, bmcContext
  <1>4. CASE BmcSeen(t)
    <2>1. bmcCall' \in [BmcThreads -> BmcCalls]
      BY <1>4, BmcNoCommand DEF BmcSeen
    <2>2. QED BY <1>4, <2>1 DEF BmcSeen, BmcGoes, bmcContext, bmcWires
  <1>5. QED BY <1>1, <1>2, <1>3, <1>4

\* The BMC and the wires bring items or lose them, and change no call.
LEMMA BmcWiresMove ==
  ASSUME BmcInv,
         BmcLose \/ BmcHangUp \/ \E c \in Channels : BmcAnswer(c) \/ BmcAnswerInPart(c)
  PROVE  /\ bmcSent' \in [Channels -> Seq(BmcItems)]
         /\ bmcReceived' \in [Channels -> Seq(BmcItems)]
         /\ \A c \in Channels : \A n :
              BmcOf(bmcSent[c], n) /\ BmcOf(bmcReceived[c], n) =>
                BmcOf(bmcSent'[c], n) /\ BmcOf(bmcReceived'[c], n)
         /\ UNCHANGED <<bmcContext, bmcStats, bmcLock, bmcPc, bmcCall, bmcLast>>
  <1> USE DEF BmcInv, BmcType, Channels
  <1>1. CASE BmcLose
    <2>1. bmcSent["serial"] \in Seq(BmcItems) /\ bmcSent["serial"] # <<>>
      BY <1>1 DEF BmcLose
    <2>2. bmcSent' = [bmcSent EXCEPT !["serial"] = Tail(bmcSent["serial"])]
          /\ bmcReceived' = bmcReceived
      BY <1>1 DEF BmcLose
    <2>3. QED BY <1>1, <2>1, <2>2, BmcOfTail DEF BmcLose
  <1>2. CASE BmcHangUp
    BY <1>2, BmcOfEmpty DEF BmcHangUp
  <1>3. ASSUME NEW c \in Channels, BmcAnswer(c)
        PROVE  /\ bmcSent' \in [Channels -> Seq(BmcItems)]
               /\ bmcReceived' \in [Channels -> Seq(BmcItems)]
               /\ \A d \in Channels : \A n :
                    BmcOf(bmcSent[d], n) /\ BmcOf(bmcReceived[d], n) =>
                      BmcOf(bmcSent'[d], n) /\ BmcOf(bmcReceived'[d], n)
    <2> DEFINE s == bmcSent[c]
               r == bmcReceived[c]
    <2>1. s \in Seq(BmcItems) /\ s # <<>> /\ r \in Seq(BmcItems)
      BY <1>3 DEF BmcAnswer
    <2>2. /\ bmcSent' = [bmcSent EXCEPT ![c] = Tail(s)]
          /\ bmcReceived' = [bmcReceived EXCEPT ![c] = Append(r, Head(s))]
      BY <1>3 DEF BmcAnswer
    <2>3. /\ Tail(s) \in Seq(BmcItems) /\ Append(r, Head(s)) \in Seq(BmcItems)
          /\ \A n : BmcOf(s, n) /\ BmcOf(r, n) => BmcOf(Tail(s), n) /\ BmcOf(Append(r, Head(s)), n)
      <3> HIDE DEF s, r
      <3>1. QED BY <2>1, BmcOfTail, BmcOfAppend
    <2>4. QED BY <2>2, <2>3
  <1>4. ASSUME NEW c \in Channels, BmcAnswerInPart(c)
        PROVE  /\ bmcSent' \in [Channels -> Seq(BmcItems)]
               /\ bmcReceived' \in [Channels -> Seq(BmcItems)]
               /\ \A d \in Channels : \A n :
                    BmcOf(bmcSent[d], n) /\ BmcOf(bmcReceived[d], n) =>
                      BmcOf(bmcSent'[d], n) /\ BmcOf(bmcReceived'[d], n)
    <2> DEFINE s == bmcSent[c]
               r == bmcReceived[c]
               x == Piece(Head(s))
    <2>1. s \in Seq(BmcItems) /\ s # <<>> /\ r \in Seq(BmcItems)
      BY <1>4 DEF BmcAnswerInPart
    <2>2. /\ bmcSent' = [bmcSent EXCEPT ![c] = <<x>> \o Tail(s)]
          /\ bmcReceived' = [bmcReceived EXCEPT ![c] = Append(r, x)]
      BY <1>4 DEF BmcAnswerInPart
    <2>3. x \in BmcItems /\ x.number = Head(s).number /\ Tail(s) \in Seq(BmcItems)
          /\ \A n : BmcOf(s, n) => BmcOf(Tail(s), n) /\ Head(s).number = n
      <3> HIDE DEF s
      <3>1. QED BY <2>1, BmcOfTail, BmcPiece
    <2>4. /\ <<x>> \o Tail(s) \in Seq(BmcItems) /\ Append(r, x) \in Seq(BmcItems)
          /\ \A n : BmcOf(s, n) /\ BmcOf(r, n) =>
               BmcOf(<<x>> \o Tail(s), n) /\ BmcOf(Append(r, x), n)
      <3> HIDE DEF s, r, x
      <3>1. QED BY <2>1, <2>3, BmcOfBehind, BmcOfAppend
    <2>5. QED BY <2>2, <2>4
  <1>5. UNCHANGED <<bmcContext, bmcStats, bmcLock, bmcPc, bmcCall, bmcLast>>
    BY DEF BmcLose, BmcHangUp, BmcAnswer, BmcAnswerInPart
  <1>6. QED BY <1>1, <1>2, <1>3, <1>4, <1>5

LEMMA BmcInvStep == BmcInv /\ [BmcNext]_bmcVars => BmcInv'
  <1> SUFFICES ASSUME BmcInv, [BmcNext]_bmcVars PROVE BmcInv'
    OBVIOUS
  <1>0. NoOne \notin BmcThreads
    BY BmcAssumption
  <1>1. ASSUME NEW p \in Channels, NEW o \in SUBSET Channels, BmcOpen(p, o)
        PROVE  BmcInv'
    <2>1. Silence \in [Channels -> Seq(BmcItems)]
      BY BmcOfEmpty DEF Silence
    <2>2. BmcType'
      BY <1>1, <2>1 DEF BmcOpen, BmcInv, BmcType, NoStats
    <2>3. BmcLocked'
      BY <1>0, <1>1 DEF BmcOpen, BmcInv, BmcType, BmcLocked
    <2>4. bmcLock' = NoOne /\ bmcStats' = NoStats
      BY <1>0, <1>1 DEF BmcOpen, BmcInv, BmcType, BmcLocked, BmcHolding
    <2>5. BmcTally'
      BY <2>4 DEF BmcTally, NoStats
    <2>6. QED BY <2>2, <2>3, <2>5 DEF BmcInv
  <1>2. CASE BmcClose
    BY <1>2, BmcOfEmpty
    DEF BmcClose, BmcInv, BmcType, BmcLocked, BmcTally, BmcIdle, BmcHolding, BmcPcs
  <1>3. ASSUME NEW t \in BmcThreads, BmcTake(t)
        PROVE  BmcInv'
    <2>1. BmcType'
      BY <1>3, BmcCounters DEF BmcTake, BmcInv, BmcType, BmcPcs, bmcContext, bmcWires
    <2>2. BmcLocked'
      BY <1>0, <1>3 DEF BmcTake, BmcInv, BmcType, BmcLocked, BmcHolding, bmcContext
    <2>3. BmcTally'
      BY <1>0, <1>3, BmcCounters DEF BmcTake, BmcInv, BmcType, BmcTally
    <2>4. QED BY <2>1, <2>2, <2>3 DEF BmcInv
  <1>4. ASSUME NEW t \in BmcThreads, BmcCount(t)
        PROVE  BmcInv'
    <2>1. BmcType'
      BY <1>4, BmcCounters DEF BmcCount, BmcInv, BmcType, BmcPcs, bmcContext, bmcWires
    <2>2. BmcLocked'
      BY <1>0, <1>4 DEF BmcCount, BmcInv, BmcType, BmcLocked, BmcHolding, bmcContext
    <2>3. bmcLock = t /\ bmcLock # NoOne
      BY <1>0, <1>4 DEF BmcCount, BmcInv, BmcLocked, BmcHolding
    <2>4. bmcStats'.cmd = bmcStats.cmd
          /\ bmcStats'.success + bmcStats'.fail = bmcStats.success + bmcStats.fail + 1
      BY <1>4, BmcCounters DEF BmcCount, BmcInv, BmcType
    <2>5. bmcStats'.cmd = bmcStats'.success + bmcStats'.fail
      BY <2>3, <2>4 DEF BmcInv, BmcType, BmcTally
    <2>6. bmcLock' = NoOne
      BY <1>4 DEF BmcCount
    <2>7. bmcStats'.success \in Nat /\ bmcStats'.fail \in Nat
      BY <2>1 DEF BmcType
    <2>8. BmcTally'
      BY <2>5, <2>6, <2>7 DEF BmcTally
    <2>9. QED BY <2>1, <2>2, <2>8 DEF BmcInv
  <1>5. ASSUME NEW t \in BmcThreads, BmcProgress(t), ~BmcCount(t)
        PROVE  BmcInv'
    BY <1>5, BmcGoing, BmcGoesOn DEF BmcProgress
  <1>6. ASSUME NEW t \in BmcThreads,
               PowerOn(t) \/ PowerOff(t) \/ PowerReset(t) \/ GetPowerState(t) \/ ReadSensors(t)
        PROVE  BmcInv'
    BY <1>6, BmcGoing, BmcGoesOn DEF PowerOn, PowerOff, PowerReset, GetPowerState, ReadSensors
  <1>7. ASSUME NEW t \in BmcThreads, NEW c \in Channels, BmcSwitch(t, c)
        PROVE  BmcInv'
    BY <1>7, BmcCounters DEF BmcSwitch, BmcInv, BmcType, BmcLocked, BmcTally, bmcWires
  <1>8. CASE UNCHANGED bmcVars
    BY <1>8 DEF bmcVars, bmcContext, bmcWires, BmcInv, BmcType, BmcLocked, BmcTally
  <1>9. CASE BmcLose \/ BmcHangUp \/ \E c \in Channels : BmcAnswer(c) \/ BmcAnswerInPart(c)
    BY <1>9, BmcWiresMove DEF bmcContext, BmcInv, BmcType, BmcLocked, BmcTally
  <1>10. QED
    BY <1>1, <1>2, <1>3, <1>4, <1>5, <1>6, <1>7, <1>8, <1>9 DEF BmcNext, BmcSwitchRefused

\* Whoever gets the mutex reads counters that agree.
THEOREM BmcCountsAlways == BmcSpec => []BmcCounts
  <1>1. BmcInv => BmcCounts
    BY DEF BmcInv, BmcType, BmcTally, BmcCounts, BmcGetStats
  <1>2. QED BY BmcInvInit, BmcInvStep, <1>1, PTL DEF BmcSpec

\* The mutex is had by the one call that sends, receives or counts, and by nobody
\* otherwise.
THEOREM BmcLockedAlways == BmcSpec => []BmcLocked
  <1>1. BmcInv => BmcLocked
    BY DEF BmcInv
  <1>2. QED BY BmcInvInit, BmcInvStep, <1>1, PTL DEF BmcSpec

-----------------------------------------------------------------------------
(* The BMC: whose the answers are.                                         *)

\* A call that found nothing of an ended one on its channel has taken nothing of
\* another, and while it waits everything there is of its own command; a call that
\* has not sent has taken nothing.
BmcInTurn ==
  /\ \A t \in BmcThreads : bmcCall[t].clean =>
       /\ bmcCall[t].answer \in {0, Noise, bmcCall[t].number}
       /\ bmcPc[t] = "receive" =>
            /\ BmcOf(bmcSent[bmcChannel], bmcCall[t].number)
            /\ BmcOf(bmcReceived[bmcChannel], bmcCall[t].number)
  /\ \A t \in BmcThreads : bmcPc[t] \in {"lock", "send"} => bmcCall[t].answer = 0

\* Only the holder of the mutex waits.
LEMMA BmcOneWaits ==
  ASSUME BmcInv, NEW t \in BmcThreads, NEW u \in BmcThreads,
         bmcPc[t] \in BmcHolding, bmcPc[u] = "receive"
  PROVE  u = t
  BY DEF BmcInv, BmcLocked, BmcHolding

\* A step after which whoever waits has waited, with the same on its channel.
LEMMA BmcApart ==
  ASSUME BmcInTurn,
         \A u \in BmcThreads :
           \/ /\ bmcCall'[u] = bmcCall[u]
              /\ bmcPc'[u] = "receive" =>
                   bmcPc[u] = "receive" /\ UNCHANGED <<bmcSent, bmcReceived, bmcChannel>>
              /\ bmcPc'[u] \in {"lock", "send"} => bmcPc[u] \in {"lock", "send"}
           \/ ~bmcCall'[u].clean /\ bmcCall'[u].answer = 0
  PROVE  BmcInTurn'
  BY DEF BmcInTurn

\* A call ends its wait with its own answer, or none.
LEMMA BmcTakesOwn ==
  ASSUME BmcInv, BmcInTurn, NEW t \in BmcThreads,
         BmcSendFails(t) \/ BmcReceive(t) \/ BmcReceiveEnd(t) \/ BmcTimeout(t)
         \/ BmcReceiveFails(t)
  PROVE  BmcInTurn'
  <1>1. bmcChannel \in Channels /\ bmcReceived[bmcChannel] \in Seq(BmcItems)
    BY DEF BmcInv, BmcType
  <1>2. bmcPc[t] \in BmcHolding
    BY BmcTakes DEF BmcHolding
  <1>3. PICK n \in Nat \cup {Noise}, r \in Nat :
          /\ BmcResult(t, n, r)
          /\ \/ n \in {0, Noise}
             \/ /\ bmcPc[t] = "receive" /\ bmcReceived[bmcChannel] # <<>>
                /\ n = Head(bmcReceived[bmcChannel]).number
    BY BmcTakes
  <1>4. bmcCall[t].clean => n \in {0, Noise, bmcCall[t].number}
    BY <1>1, <1>3, BmcOfTail DEF BmcInTurn
  <1>5. \A u \in BmcThreads \ {t} : bmcPc[u] # "receive"
    BY <1>2, BmcOneWaits
  <1>6. \A u \in BmcThreads \ {t} : bmcCall'[u] = bmcCall[u] /\ bmcPc'[u] = bmcPc[u]
    BY <1>3, BmcResults
  <1>7. /\ bmcPc'[t] = "count" /\ bmcCall'[t].answer = n
        /\ bmcCall'[t].clean = bmcCall[t].clean /\ bmcCall'[t].number = bmcCall[t].number
    BY <1>3, BmcResults
  <1>8. QED BY <1>4, <1>5, <1>6, <1>7 DEF BmcInTurn

\* A call that finds its channel clean has it for itself.
LEMMA BmcSends ==
  ASSUME BmcInv, BmcInTurn, NEW t \in BmcThreads, BmcSend(t)
  PROVE  BmcInTurn'
  <1>1. \A u \in BmcThreads : bmcPc[u] # "receive"
    BY BmcOneWaits DEF BmcSend, BmcHolding
  <1>2. /\ bmcSent[bmcChannel] \in Seq(BmcItems) /\ bmcReceived[bmcChannel] \in Seq(BmcItems)
        /\ bmcCall[t].answer = 0
    BY DEF BmcInv, BmcType, BmcSend, BmcInTurn
  <1>3. ASSUME BmcClean(bmcChannel), NEW n
        PROVE  BmcOf(bmcSent[bmcChannel], n) /\ BmcOf(bmcReceived[bmcChannel], n)
    <2>1. \A s \in Seq(BmcItems) : \A i \in 1..Len(s) : s[i] \in Range(s)
      BY DEF Range
    <2>2. Range(bmcSent[bmcChannel]) = {} /\ Range(bmcReceived[bmcChannel]) = {}
      BY <1>1, <1>3 DEF BmcClean
    <2>3. QED BY <1>2, <2>1, <2>2 DEF BmcOf
  <1>4. /\ bmcChannel' = bmcChannel /\ bmcReceived' = bmcReceived
        /\ bmcPc'[t] = "receive" /\ \A u \in BmcThreads \ {t} : bmcPc'[u] = bmcPc[u]
    BY DEF BmcSend, bmcContext, BmcInv, BmcType
  <1>5. bmcCall'[t].clean =>
          /\ bmcCall'[t].answer = 0
          /\ BmcOf(bmcSent'[bmcChannel], bmcCall'[t].number)
          /\ BmcOf(bmcReceived'[bmcChannel], bmcCall'[t].number)
    BY <1>2, <1>3, <1>4, BmcSending
  <1>6. \A u \in BmcThreads \ {t} : bmcCall'[u] = bmcCall[u] /\ bmcPc'[u] # "receive"
    BY <1>1, <1>4, BmcSending
  <1>7. QED BY <1>4, <1>5, <1>6 DEF BmcInTurn

LEMMA BmcInTurnStep == BmcInv /\ BmcInTurn /\ [BmcNext]_bmcVars => BmcInTurn'
  <1> SUFFICES ASSUME BmcInv, BmcInTurn, [BmcNext]_bmcVars PROVE BmcInTurn'
    OBVIOUS
  <1>1. CASE \/ \E p \in Channels, o \in SUBSET Channels : BmcOpen(p, o)
             \/ BmcClose
             \/ \E t \in BmcThreads, c \in Channels : BmcSwitch(t, c)
    <2>1. \A t \in BmcThreads : bmcPc[t] # "receive"
      <3>1. NoOne \notin BmcThreads
        BY BmcAssumption
      <3>2. QED
        BY <1>1, <3>1 DEF BmcOpen, BmcClose, BmcIdle, BmcSwitch, BmcInv, BmcLocked, BmcHolding
    <2>2. UNCHANGED <<bmcPc, bmcCall>>
      BY <1>1 DEF BmcOpen, BmcClose, BmcSwitch
    <2>3. QED BY <2>1, <2>2, BmcApart
  <1>2. ASSUME NEW t \in BmcThreads, NEW b \in BOOLEAN, BmcBegin(t, b)
        PROVE  BmcInTurn'
    <2>1. bmcLast + 1 \in Nat
      BY DEF BmcInv, BmcType
    <2>2. LET q == [NoCommand EXCEPT !.stub = b, !.number = bmcLast + 1] IN
            ~q.clean /\ q.answer = 0
      BY <2>1, BmcNumbers
    <2>3. QED BY <1>2, <2>2, BmcApart DEF BmcBegin, BmcInv, BmcType, bmcContext, bmcWires
  <1>3. ASSUME NEW t \in BmcThreads, BmcTake(t) \/ BmcCount(t)
        PROVE  BmcInTurn'
    BY <1>3, BmcApart DEF BmcTake, BmcCount, BmcInv, BmcType, bmcContext, bmcWires
  <1>4. ASSUME NEW t \in BmcThreads, BmcSeen(t)
        PROVE  BmcInTurn'
    BY <1>4, BmcNoCommand, BmcApart DEF BmcSeen, BmcInv, BmcType, bmcContext, bmcWires
  <1>5. CASE UNCHANGED bmcVars
    BY <1>5, BmcApart DEF bmcVars, bmcContext, bmcWires
  <1>6. CASE BmcLose \/ BmcHangUp \/ \E c \in Channels : BmcAnswer(c) \/ BmcAnswerInPart(c)
    <2>1. bmcChannel \in Channels
      BY DEF BmcInv, BmcType
    <2>2. QED BY <1>6, <2>1, BmcWiresMove DEF BmcInTurn, bmcContext
  <1>7. QED
    BY <1>1, <1>2, <1>3, <1>4, <1>5, <1>6, BmcSends, BmcTakesOwn
    DEF BmcNext, BmcProgress, BmcSwitchRefused, PowerOn, PowerOff, PowerReset, GetPowerState,
        ReadSensors

\* A command takes something of another only if one that had ended left it on the
\* channel before: whatever the channels lose, cut in pieces and fail to read, and
\* whenever the callers overlap and switch between them.
THEOREM BmcOwnAnswerAlways == BmcSpec => []BmcOwnAnswer
  <1>1. BmcInit => BmcInTurn
    BY BmcNoCommand DEF BmcInit, BmcInTurn
  <1>2. BmcInTurn => BmcOwnAnswer
    BY DEF BmcInTurn, BmcOwnAnswer
  <1>3. QED BY BmcInvInit, BmcInvStep, <1>1, BmcInTurnStep, <1>2, PTL DEF BmcSpec

-----------------------------------------------------------------------------
(* The MCU: the mutexes.                                                   *)

McuItems == [number : Nat, part : {"whole", "head", "short", "tail"}]
McuCalls == [number : Nat, answer : Nat, ret : Nat, clean : BOOLEAN]
McuPcs == {"idle", "lock", "send", "lock rx", "receive", "unlock", "returned"}
McuHolding == {"send", "lock rx", "receive", "unlock"}

McuType ==
  /\ mcuLink \in {"none", "can", "serial"}
  /\ mcuLock \in McuThreads \cup {NoMcuThread}
  /\ mcuRxLock \in McuThreads \cup {NoMcuThread}
  /\ mcuPc \in [McuThreads -> McuPcs]
  /\ mcuCall \in [McuThreads -> McuCalls]
  /\ mcuLast \in Nat
  /\ mcuSent \in Seq(McuItems)
  /\ mcuReceived \in Seq(McuItems)

\* A call has ctx->mutex from its sending to its end, and the mutex of the
\* interface while it receives; nobody is in a call of a context that is not there.
McuLocked ==
  /\ \A t \in McuThreads : mcuPc[t] \in McuHolding <=> mcuLock = t
  /\ \A t \in McuThreads : mcuPc[t] = "receive" <=> mcuRxLock = t
  /\ mcuLink = "none" => \A t \in McuThreads : mcuPc[t] = "idle"

McuInv == McuType /\ McuLocked

LEMMA McuNobody == NoMcuThread \notin McuThreads
  BY McuAssumption

LEMMA McuNoCall == NoMcuCall \in McuCalls /\ NoMcuCall.answer = 0 /\ ~NoMcuCall.clean
  BY DEF NoMcuCall, McuCalls, OSAL_SUCCESS

LEMMA McuInvInit == McuInit => McuInv
  BY McuNobody, McuNoCall DEF McuInit, McuInv, McuType, McuLocked, McuPcs, McuHolding

\* What the steps of a call make of it.
LEMMA McuNumbers ==
  ASSUME NEW n \in Nat
  PROVE  LET q == [NoMcuCall EXCEPT !.number = n] IN
           q \in McuCalls /\ q.answer = 0 /\ ~q.clean
  BY DEF NoMcuCall, McuCalls, OSAL_SUCCESS

LEMMA McuMarks ==
  ASSUME NEW q \in McuCalls, NEW b \in BOOLEAN
  PROVE  LET p == [q EXCEPT !.clean = b] IN
           p \in McuCalls /\ p.answer = q.answer /\ p.number = q.number /\ p.clean = b
  BY DEF McuCalls

LEMMA McuFailed ==
  ASSUME NEW q \in McuCalls
  PROVE  LET p == [q EXCEPT !.ret = OSAL_ERR_GENERIC] IN
           p \in McuCalls /\ p.answer = q.answer
  BY DEF McuCalls, OSAL_ERR_GENERIC

\* The items of s are of command n, or frames of other nodes.
McuOf(s, n) == \A i \in 1..Len(s) : s[i].number \in {0, n}

\* What sending, answering, losing and reading make of the items.
LEMMA McuOfEmpty == <<>> \in Seq(McuItems) /\ \A n : McuOf(<<>>, n)
  BY DEF McuOf

LEMMA McuOfTail ==
  ASSUME NEW s \in Seq(McuItems), s # <<>>
  PROVE  /\ Tail(s) \in Seq(McuItems) /\ Head(s) \in McuItems
         /\ Head(s) = s[1] /\ 1 \in 1..Len(s)
         /\ \A n : McuOf(s, n) => McuOf(Tail(s), n) /\ Head(s).number \in {0, n}
  BY DEF McuOf

LEMMA McuOfMore ==
  ASSUME NEW s \in Seq(McuItems), NEW x \in McuItems
  PROVE  /\ s \o <<x>> \in Seq(McuItems) /\ Append(s, x) \in Seq(McuItems)
         /\ \A n : McuOf(s, n) /\ x.number \in {0, n} =>
              McuOf(s \o <<x>>, n) /\ McuOf(Append(s, x), n)
  <1> DEFINE z == s \o <<x>>
  <1>1. /\ z \in Seq(McuItems) /\ Append(s, x) = z /\ Len(z) = Len(s) + 1 /\ Len(s) \in Nat
        /\ z[Len(s) + 1] = x /\ \A i \in 1..Len(s) : z[i] = s[i]
    OBVIOUS
  <1> HIDE DEF z
  <1>2. \A n : McuOf(s, n) /\ x.number \in {0, n} => McuOf(z, n)
    BY <1>1 DEF McuOf
  <1>3. QED BY <1>1, <1>2 DEF z

LEMMA McuOfPart ==
  ASSUME NEW x \in McuItems, NEW p \in {"whole", "head", "short", "tail"}
  PROVE  [x EXCEPT !.part = p] \in McuItems /\ [x EXCEPT !.part = p].number = x.number
  BY DEF McuItems

\* The calls of a step that gives t its result, and the mutexes.
LEMMA McuResults ==
  ASSUME McuInv, NEW t \in McuThreads, mcuPc[t] = "receive", NEW n \in Nat, NEW r \in Nat,
         McuResult(t, n, r), mcuSent' \in Seq(McuItems), mcuReceived' \in Seq(McuItems)
  PROVE  /\ McuInv'
         /\ mcuPc'[t] = "unlock"
         /\ mcuCall'[t].answer = n /\ mcuCall'[t].number = mcuCall[t].number
         /\ mcuCall'[t].clean = mcuCall[t].clean
         /\ \A u \in McuThreads \ {t} : mcuPc'[u] = mcuPc[u] /\ mcuCall'[u] = mcuCall[u]
  <1> USE McuNobody DEF McuInv
  <1> DEFINE q == [mcuCall[t] EXCEPT !.answer = n, !.ret = r]
  <1>1. mcuCall' = [mcuCall EXCEPT ![t] = q]
    BY DEF McuResult
  <1>2. q \in McuCalls /\ q.answer = n /\ q.number = mcuCall[t].number /\ q.clean = mcuCall[t].clean
    <2>1. mcuCall[t] \in McuCalls
      BY DEF McuType
    <2>2. PICK p \in McuCalls : p = mcuCall[t]
      BY <2>1
    <2>3. LET x == [p EXCEPT !.answer = n, !.ret = r] IN
            x \in McuCalls /\ x.answer = n /\ x.number = p.number /\ x.clean = p.clean
      BY DEF McuCalls
    <2>4. QED BY <2>2, <2>3
  <1> HIDE DEF q
  <1>3. /\ mcuCall' \in [McuThreads -> McuCalls] /\ mcuCall'[t] = q
        /\ \A u \in McuThreads \ {t} : mcuCall'[u] = mcuCall[u]
    BY <1>1, <1>2 DEF McuType
  <1>4. McuType'
    BY <1>3 DEF McuResult, McuType, McuPcs, mcuContext
  <1>5. McuLocked'
    BY DEF McuResult, McuType, McuLocked, McuHolding, mcuContext
  <1>6. mcuPc'[t] = "unlock" /\ \A u \in McuThreads \ {t} : mcuPc'[u] = mcuPc[u]
    BY DEF McuResult, McuType
  <1>7. QED BY <1>2, <1>3, <1>4, <1>5, <1>6

McuReceives(t) ==
  McuReceiveCan(t) \/ McuReceiveSerial(t) \/ McuTimeout(t) \/ McuReceiveFails(t)

\* What a step that ends the wait takes.
LEMMA McuTakes ==
  ASSUME McuInv, NEW t \in McuThreads, McuReceives(t)
  PROVE  /\ \E n \in Nat, r \in Nat :
              /\ McuResult(t, n, r)
              /\ \/ n = 0
                 \/ mcuReceived # <<>> /\ n = Head(mcuReceived).number
         /\ mcuPc[t] = "receive"
         /\ mcuSent' \in Seq(McuItems) /\ mcuReceived' \in Seq(McuItems)
  <1> USE DEF McuInv, McuType
  <1>1. OSAL_SUCCESS \in Nat /\ OSAL_ERR_GENERIC \in Nat /\ OSAL_ERR_TIMEOUT \in Nat /\ 0 \in Nat
    BY DEF OSAL_SUCCESS, OSAL_ERR_GENERIC, OSAL_ERR_TIMEOUT
  <1>2. CASE McuReceiveCan(t)
    <2>1. Head(mcuReceived) \in McuItems /\ Tail(mcuReceived) \in Seq(McuItems)
      BY <1>2, McuOfTail DEF McuReceiveCan
    <2>2. Head(mcuReceived).number \in Nat
      BY <2>1 DEF McuItems
    <2>3. mcuSent' = mcuSent /\ mcuReceived' = Tail(mcuReceived) /\ mcuPc[t] = "receive"
          /\ mcuReceived # <<>>
      BY <1>2 DEF McuReceiveCan
    <2>4. \E r \in Nat : McuResult(t, 0, r) \/ McuResult(t, Head(mcuReceived).number, r)
      BY <1>1, <1>2 DEF McuReceiveCan
    <2>5. QED BY <1>1, <2>1, <2>2, <2>3, <2>4
  <1>3. CASE McuReceiveSerial(t)
    <2>1. Head(mcuReceived) \in McuItems
      BY <1>3, McuOfTail DEF McuReceiveSerial
    <2>2. Head(mcuReceived).number \in Nat
      BY <2>1 DEF McuItems
    <2>3. PICK r : r \in {OSAL_SUCCESS, OSAL_ERR_GENERIC} /\ McuResult(t, Head(mcuReceived).number, r)
      <3> HIDE DEF McuInv
      <3>1. \A b : (IF b THEN OSAL_SUCCESS ELSE OSAL_ERR_GENERIC) \in {OSAL_SUCCESS, OSAL_ERR_GENERIC}
        OBVIOUS
      <3>2. QED BY <1>3, <3>1, Zenon DEF McuReceiveSerial
    <2>4. mcuSent' = mcuSent /\ mcuReceived' = <<>> /\ mcuPc[t] = "receive" /\ mcuReceived # <<>>
      BY <1>3 DEF McuReceiveSerial
    <2>5. r \in Nat
      BY <1>1, <2>3
    <2>6. QED BY <2>2, <2>3, <2>4, <2>5, McuOfEmpty
  <1>4. CASE McuTimeout(t)
    <2>1. \E r \in Nat : McuResult(t, 0, r)
      BY <1>1, <1>4 DEF McuTimeout
    <2>2. mcuSent' = mcuSent /\ mcuReceived' = mcuReceived /\ mcuPc[t] = "receive"
      BY <1>4 DEF McuTimeout
    <2>3. QED BY <1>1, <2>1, <2>2
  <1>5. CASE McuReceiveFails(t)
    <2>1. \E r \in Nat : McuResult(t, 0, r)
      BY <1>1, <1>5 DEF McuReceiveFails
    <2>2. mcuSent' = mcuSent /\ mcuReceived' \in Seq(McuItems) /\ mcuPc[t] = "receive"
      BY <1>5, McuOfEmpty DEF McuReceiveFails, McuReopened
    <2>3. QED BY <1>1, <2>1, <2>2
  <1>6. QED BY <1>2, <1>3, <1>4, <1>5 DEF McuReceives

LEMMA McuWaitEnds ==
  ASSUME McuInv, NEW t \in McuThreads, McuReceives(t)
  PROVE  McuInv'
  <1>1. PICK n \in Nat, r \in Nat : McuResult(t, n, r)
    BY McuTakes
  <1>2. QED BY <1>1, McuTakes, McuResults

\* Sending, and what it makes of the call.
LEMMA McuSending ==
  ASSUME McuInv, NEW t \in McuThreads, McuSend(t)
  PROVE  /\ mcuSent' \in Seq(McuItems)
         /\ \A n : McuOf(mcuSent, n) /\ mcuCall[t].number = n => McuOf(mcuSent', n)
         /\ mcuCall' \in [McuThreads -> McuCalls]
         /\ mcuCall'[t].answer = mcuCall[t].answer /\ mcuCall'[t].number = mcuCall[t].number
         /\ mcuCall'[t].clean = McuClean
         /\ \A u \in McuThreads \ {t} : mcuCall'[u] = mcuCall[u]
  <1> DEFINE x == [number |-> mcuCall[t].number, part |-> "whole"]
             b == McuClean
             q == [mcuCall[t] EXCEPT !.clean = b]
  <1>1. mcuCall[t] \in McuCalls /\ mcuSent \in Seq(McuItems) /\ mcuCall[t].number \in Nat
    BY DEF McuInv, McuType, McuCalls
  <1>2. x \in McuItems /\ x.number = mcuCall[t].number
    BY <1>1 DEF McuItems
  <1>3. mcuSent' = Append(mcuSent, x) /\ mcuCall' = [mcuCall EXCEPT ![t] = q]
    BY DEF McuSend
  <1>4. b \in BOOLEAN
    BY DEF McuClean
  <1> HIDE DEF x, b
  <1>5. q \in McuCalls /\ q.answer = mcuCall[t].answer /\ q.number = mcuCall[t].number /\ q.clean = b
    BY <1>1, <1>4, McuMarks
  <1> HIDE DEF q
  <1>6. mcuSent' \in Seq(McuItems)
        /\ \A n : McuOf(mcuSent, n) /\ mcuCall[t].number = n => McuOf(mcuSent', n)
    BY <1>1, <1>2, <1>3, McuOfMore
  <1>7. QED BY <1>3, <1>5, <1>6 DEF McuInv, McuType, b

\* The MCU, the bus and the line bring what is on its way, or lose it.
LEMMA McuWorldMoves ==
  ASSUME McuInv, McuAnswers \/ McuAnswersInPart \/ McuLose \/ McuForeignFrame
  PROVE  /\ mcuSent' \in Seq(McuItems) /\ mcuReceived' \in Seq(McuItems)
         /\ \A n : McuOf(mcuSent, n) /\ McuOf(mcuReceived, n) =>
              McuOf(mcuSent', n) /\ McuOf(mcuReceived', n)
         /\ UNCHANGED <<mcuContext, mcuLock, mcuRxLock, mcuPc, mcuCall, mcuLast>>
  <1>1. mcuSent \in Seq(McuItems) /\ mcuReceived \in Seq(McuItems)
    BY DEF McuInv, McuType
  <1>2. UNCHANGED <<mcuContext, mcuLock, mcuRxLock, mcuPc, mcuCall, mcuLast>>
    BY DEF McuAnswers, McuAnswersInPart, McuLose, McuForeignFrame, Came
  <1>3. CASE McuAnswers
    BY <1>1, <1>2, <1>3, McuOfTail, McuOfMore DEF McuAnswers, Came
  <1>4. CASE McuAnswersInPart
    <2> DEFINE x == Head(mcuSent)
    <2>1. mcuSent # <<>> /\ mcuSent' = [mcuSent EXCEPT ![1].part = "tail"]
      BY <1>4 DEF McuAnswersInPart
    <2>2. PICK p \in {"head", "short"} : Came(<<[x EXCEPT !.part = p]>>)
      BY <1>4 DEF McuAnswersInPart
    <2> DEFINE y == [x EXCEPT !.part = p]
               z == [x EXCEPT !.part = "tail"]
    <2>3. /\ x \in McuItems /\ x = mcuSent[1] /\ 1 \in 1..Len(mcuSent)
          /\ \A n : McuOf(mcuSent, n) => x.number \in {0, n}
      BY <1>1, <2>1, McuOfTail
    <2>4. mcuReceived' = mcuReceived \o <<y>> /\ mcuSent' = [mcuSent EXCEPT ![1] = z]
      BY <2>1, <2>2, <2>3 DEF Came
    <2> HIDE DEF x
    <2>5. y \in McuItems /\ y.number = x.number /\ z \in McuItems /\ z.number = x.number
      BY <2>3, McuOfPart
    <2> HIDE DEF y, z
    <2>6. mcuSent' \in Seq(McuItems)
      BY <1>1, <2>3, <2>4, <2>5
    <2>7. Len(mcuSent') = Len(mcuSent) /\ mcuSent'[1] = z
          /\ \A i \in 1..Len(mcuSent) : i # 1 => mcuSent'[i] = mcuSent[i]
      BY <1>1, <2>3, <2>4
    <2>8. \A n : McuOf(mcuSent, n) => McuOf(mcuSent', n)
      BY <2>3, <2>5, <2>7 DEF McuOf
    <2>9. QED BY <1>1, <1>2, <2>3, <2>4, <2>5, <2>6, <2>8, McuOfMore
  <1>5. CASE McuLose
    <2>1. mcuReceived' = mcuReceived
      BY <1>1, <1>5 DEF McuLose, Came
    <2>2. QED BY <1>1, <1>2, <1>5, <2>1, McuOfTail DEF McuLose
  <1>6. CASE McuForeignFrame
    <2> DEFINE x == [number |-> 0, part |-> "whole"]
    <2>1. x \in McuItems /\ x.number = 0
      BY DEF McuItems
    <2>2. mcuReceived' = mcuReceived \o <<x>> /\ mcuSent' = mcuSent
      BY <1>6 DEF McuForeignFrame, Came
    <2> HIDE DEF x
    <2>3. QED BY <1>1, <1>2, <2>1, <2>2, McuOfMore
  <1>7. QED BY <1>3, <1>4, <1>5, <1>6

\* The calls are as they were.
LEMMA McuCallsKept ==
  ASSUME McuInv, UNCHANGED <<mcuLock, mcuRxLock, mcuPc, mcuCall, mcuLast>>,
         mcuLink' \in {"none", "can", "serial"},
         mcuLink' = "none" => mcuLink = "none" \/ McuIdle,
         mcuSent' \in Seq(McuItems), mcuReceived' \in Seq(McuItems)
  PROVE  McuInv'
  BY DEF McuInv, McuType, McuLocked, McuIdle

LEMMA McuInvStep == McuInv /\ [McuNext]_mcuVars => McuInv'
  <1> SUFFICES ASSUME McuInv, [McuNext]_mcuVars PROVE McuInv'
    OBVIOUS
  <1> USE McuNobody
  <1>0. mcuSent \in Seq(McuItems) /\ mcuReceived \in Seq(McuItems) /\ <<>> \in Seq(McuItems)
    BY DEF McuInv, McuType
  <1>1. CASE McuOpen
    BY <1>0, <1>1, McuCallsKept DEF McuOpen, McuCanInit, McuSerialInit
  <1>2. CASE McuClose
    BY <1>0, <1>2, McuCallsKept DEF McuClose
  <1>3. ASSUME NEW t \in McuThreads, McuBegin(t)
        PROVE  McuInv'
    <2>1. [NoMcuCall EXCEPT !.number = mcuLast + 1] \in McuCalls
      <3>1. mcuLast + 1 \in Nat
        BY DEF McuInv, McuType
      <3>2. QED BY <3>1, McuNumbers
    <2>2. McuType'
      <3>1. mcuLast + 1 \in Nat
        BY DEF McuInv, McuType
      <3> DEFINE q == [NoMcuCall EXCEPT !.number = mcuLast + 1]
      <3>2. mcuCall' = [mcuCall EXCEPT ![t] = q] /\ q \in McuCalls
        BY <1>3, <2>1 DEF McuBegin
      <3> HIDE DEF q
      <3>3. QED BY <1>3, <3>1, <3>2 DEF McuBegin, McuInv, McuType, McuPcs, mcuContext
    <2>3. McuLocked'
      BY <1>3 DEF McuBegin, McuInv, McuType, McuLocked, McuHolding, mcuContext
    <2>4. QED BY <2>2, <2>3 DEF McuInv
  <1>4. ASSUME NEW t \in McuThreads, McuTake(t) \/ McuTakeRx(t) \/ McuUnlock(t)
        PROVE  McuInv'
    <2>1. McuType'
      BY <1>4 DEF McuTake, McuTakeRx, McuUnlock, McuInv, McuType, McuPcs, mcuContext
    <2>2. McuLocked'
      BY <1>4
      DEF McuTake, McuTakeRx, McuUnlock, McuInv, McuType, McuLocked, McuHolding, mcuContext
    <2>3. QED BY <2>1, <2>2 DEF McuInv
  <1>5. ASSUME NEW t \in McuThreads, McuSend(t)
        PROVE  McuInv'
    <2>1. /\ mcuPc' = [mcuPc EXCEPT ![t] = "lock rx"] /\ mcuPc[t] = "send"
          /\ UNCHANGED <<mcuContext, mcuLock, mcuRxLock, mcuLast, mcuReceived>>
      BY <1>5 DEF McuSend
    <2>2. McuType'
      BY <1>5, <2>1, McuSending DEF McuInv, McuType, McuPcs, mcuContext
    <2>3. McuLocked'
      BY <2>1 DEF McuInv, McuType, McuLocked, McuHolding, mcuContext
    <2>4. QED BY <2>2, <2>3 DEF McuInv
  <1>6. ASSUME NEW t \in McuThreads, McuSendFails(t)
        PROVE  McuInv'
    <2>1. [mcuCall[t] EXCEPT !.ret = OSAL_ERR_GENERIC] \in McuCalls
      BY McuFailed DEF McuInv, McuType
    <2>2. mcuCall' = [mcuCall EXCEPT ![t] = [mcuCall[t] EXCEPT !.ret = OSAL_ERR_GENERIC]]
      BY <1>6 DEF McuSendFails
    <2>3. McuType'
      BY <1>0, <1>6, <2>1, <2>2 DEF McuSendFails, McuReopened, McuInv, McuType, McuPcs, mcuContext
    <2>4. McuLocked'
      BY <1>6 DEF McuSendFails, McuInv, McuType, McuLocked, McuHolding, mcuContext
    <2>5. QED BY <2>3, <2>4 DEF McuInv
  <1>7. ASSUME NEW t \in McuThreads, McuSeen(t)
        PROVE  McuInv'
    <2>1. McuType'
      BY <1>7, McuNoCall DEF McuSeen, McuInv, McuType, McuPcs, mcuContext
    <2>2. McuLocked'
      BY <1>7 DEF McuSeen, McuInv, McuType, McuLocked, McuHolding, mcuContext
    <2>3. QED BY <2>1, <2>2 DEF McuInv
  <1>8. CASE UNCHANGED mcuVars
    BY <1>0, <1>8, McuCallsKept DEF mcuVars, mcuContext, McuInv, McuType
  <1>9. CASE McuAnswers \/ McuAnswersInPart \/ McuLose \/ McuForeignFrame
    BY <1>9, McuWorldMoves, McuCallsKept DEF mcuContext, McuInv, McuType
  <1>10. QED
    BY <1>1, <1>2, <1>3, <1>4, <1>5, <1>6, <1>7, <1>8, <1>9, McuWaitEnds
    DEF McuNext, McuProgress, McuReceives, GetVersion, GetStatus, Reset, ReadRegister,
        WriteRegister, SendCommand

\* ctx->mutex and rx_mutex are had by the one call they are for, and by nobody
\* otherwise.
THEOREM McuLockedAlways == McuSpec => []McuLocked
  <1>1. McuInv => McuLocked
    BY DEF McuInv
  <1>2. QED BY McuInvInit, McuInvStep, <1>1, PTL DEF McuSpec

-----------------------------------------------------------------------------
(* The MCU: whose the answers are.                                         *)

\* A call that found nothing of an ended one has taken nothing of another, and
\* while it waits there is nothing but what is of its own command and the frames
\* of other nodes; a call that has not sent has taken nothing.
McuInTurn ==
  /\ \A t \in McuThreads : mcuCall[t].clean =>
       /\ mcuCall[t].answer \in {0, mcuCall[t].number}
       /\ McuWaits(t) => /\ McuOf(mcuSent, mcuCall[t].number)
                         /\ McuOf(mcuReceived, mcuCall[t].number)
  /\ \A t \in McuThreads : mcuPc[t] \in {"lock", "send"} => mcuCall[t].answer = 0

\* Only the holder of the mutex waits.
LEMMA McuOneWaits ==
  ASSUME McuInv, NEW t \in McuThreads, NEW u \in McuThreads,
         mcuPc[t] \in McuHolding, McuWaits(u)
  PROVE  u = t
  BY DEF McuInv, McuLocked, McuHolding, McuWaits

\* A step after which whoever waits has waited, with the same to come.
LEMMA McuApart ==
  ASSUME McuInTurn,
         \A u \in McuThreads :
           \/ /\ mcuCall'[u] = mcuCall[u]
              /\ McuWaits(u)' => McuWaits(u) /\ UNCHANGED <<mcuSent, mcuReceived>>
              /\ mcuPc'[u] \in {"lock", "send"} => mcuPc[u] \in {"lock", "send"}
           \/ ~mcuCall'[u].clean /\ mcuCall'[u].answer = 0
  PROVE  McuInTurn'
  BY DEF McuInTurn

\* A call ends its wait with its own answer, or none.
LEMMA McuTakesOwn ==
  ASSUME McuInv, McuInTurn, NEW t \in McuThreads, McuReceives(t)
  PROVE  McuInTurn'
  <1>1. /\ mcuReceived \in Seq(McuItems) /\ mcuPc[t] = "receive" /\ McuWaits(t)
        /\ mcuPc[t] \in McuHolding
    BY McuTakes DEF McuInv, McuType, McuHolding, McuWaits
  <1>2. PICK n \in Nat, r \in Nat :
          /\ McuResult(t, n, r)
          /\ \/ n = 0
             \/ mcuReceived # <<>> /\ n = Head(mcuReceived).number
    BY McuTakes
  <1>3. mcuCall[t].clean => n \in {0, mcuCall[t].number}
    BY <1>1, <1>2, McuOfTail DEF McuInTurn
  <1>4. \A u \in McuThreads \ {t} : ~McuWaits(u)
    BY <1>1, McuOneWaits
  <1>5. /\ mcuPc'[t] = "unlock" /\ mcuCall'[t].answer = n
        /\ mcuCall'[t].number = mcuCall[t].number /\ mcuCall'[t].clean = mcuCall[t].clean
        /\ \A u \in McuThreads \ {t} : mcuPc'[u] = mcuPc[u] /\ mcuCall'[u] = mcuCall[u]
    BY <1>1, <1>2, McuTakes, McuResults
  <1>6. QED BY <1>3, <1>4, <1>5 DEF McuInTurn, McuWaits

\* A call that finds the bus or the line clean has it for itself.
LEMMA McuSends ==
  ASSUME McuInv, McuInTurn, NEW t \in McuThreads, McuSend(t)
  PROVE  McuInTurn'
  <1>1. \A u \in McuThreads : ~McuWaits(u)
    BY McuOneWaits DEF McuSend, McuHolding, McuWaits
  <1>2. /\ mcuSent \in Seq(McuItems) /\ mcuReceived \in Seq(McuItems)
        /\ mcuCall[t].answer = 0
    BY DEF McuInv, McuType, McuSend, McuInTurn
  <1>3. ASSUME McuClean, NEW n
        PROVE  McuOf(mcuSent, n) /\ McuOf(mcuReceived, n)
    <2>1. \A s \in Seq(McuItems) : \A i \in 1..Len(s) : s[i] \in Range(s)
      BY DEF Range
    <2>2. \A x \in Range(mcuSent) \cup Range(mcuReceived) : x.number = 0
      BY <1>1, <1>3 DEF McuClean
    <2>3. QED BY <1>2, <2>1, <2>2 DEF McuOf
  <1>4. /\ mcuReceived' = mcuReceived
        /\ mcuPc'[t] = "lock rx" /\ \A u \in McuThreads \ {t} : mcuPc'[u] = mcuPc[u]
    BY DEF McuSend, McuInv, McuType
  <1>5. mcuCall'[t].clean =>
          /\ mcuCall'[t].answer = 0
          /\ McuOf(mcuSent', mcuCall'[t].number)
          /\ McuOf(mcuReceived', mcuCall'[t].number)
    BY <1>2, <1>3, <1>4, McuSending
  <1>6. \A u \in McuThreads \ {t} : mcuCall'[u] = mcuCall[u] /\ ~McuWaits(u)'
    BY <1>1, <1>4, McuSending DEF McuWaits
  <1>7. QED BY <1>4, <1>5, <1>6 DEF McuInTurn

LEMMA McuInTurnStep == McuInv /\ McuInTurn /\ [McuNext]_mcuVars => McuInTurn'
  <1> SUFFICES ASSUME McuInv, McuInTurn, [McuNext]_mcuVars PROVE McuInTurn'
    OBVIOUS
  <1>1. CASE McuOpen \/ McuClose
    <2>1. \A t \in McuThreads : ~McuWaits(t)
      BY <1>1 DEF McuOpen, McuClose, McuIdle, McuInv, McuLocked, McuWaits
    <2>2. UNCHANGED <<mcuPc, mcuCall>>
      BY <1>1 DEF McuOpen, McuClose
    <2>3. QED BY <2>1, <2>2, McuApart DEF McuWaits
  <1>2. ASSUME NEW t \in McuThreads, McuBegin(t)
        PROVE  McuInTurn'
    <2>1. LET q == [NoMcuCall EXCEPT !.number = mcuLast + 1] IN ~q.clean /\ q.answer = 0
      <3>1. mcuLast + 1 \in Nat
        BY DEF McuInv, McuType
      <3>2. QED BY <3>1, McuNumbers
    <2>2. QED BY <1>2, <2>1, McuApart DEF McuBegin, McuInv, McuType, McuWaits
  <1>3. ASSUME NEW t \in McuThreads, McuTake(t) \/ McuTakeRx(t) \/ McuUnlock(t)
        PROVE  McuInTurn'
    BY <1>3, McuApart DEF McuTake, McuTakeRx, McuUnlock, McuInv, McuType, McuWaits
  <1>4. ASSUME NEW t \in McuThreads, McuSendFails(t)
        PROVE  McuInTurn'
    <2>1. \A u \in McuThreads : ~McuWaits(u)
      BY <1>4, McuOneWaits DEF McuSendFails, McuHolding, McuWaits
    <2>2. /\ mcuPc'[t] = "unlock" /\ \A u \in McuThreads \ {t} : mcuPc'[u] = mcuPc[u]
          /\ mcuCall[t].answer = 0
      BY <1>4 DEF McuSendFails, McuInv, McuType, McuInTurn
    <2>3. LET q == [mcuCall[t] EXCEPT !.ret = OSAL_ERR_GENERIC] IN
            /\ mcuCall' = [mcuCall EXCEPT ![t] = q]
            /\ q.answer = mcuCall[t].answer
      BY <1>4, McuFailed DEF McuSendFails, McuInv, McuType
    <2>4. mcuCall'[t].answer = 0 /\ \A u \in McuThreads \ {t} : mcuCall'[u] = mcuCall[u]
      BY <2>2, <2>3 DEF McuInv, McuType
    <2>5. QED BY <2>1, <2>2, <2>4 DEF McuInTurn, McuWaits
  <1>5. ASSUME NEW t \in McuThreads, McuSeen(t)
        PROVE  McuInTurn'
    BY <1>5, McuNoCall, McuApart DEF McuSeen, McuInv, McuType, McuWaits
  <1>6. CASE UNCHANGED mcuVars
    BY <1>6, McuApart DEF mcuVars, McuWaits
  <1>7. CASE McuAnswers \/ McuAnswersInPart \/ McuLose \/ McuForeignFrame
    BY <1>7, McuWorldMoves DEF McuInTurn, McuWaits
  <1>8. QED
    BY <1>1, <1>2, <1>3, <1>4, <1>5, <1>6, <1>7, McuSends, McuTakesOwn
    DEF McuNext, McuProgress, McuReceives, GetVersion, GetStatus, Reset, ReadRegister,
        WriteRegister, SendCommand

\* A command takes something of another only if one that had ended left it on the
\* bus or the line before, whatever is lost, late, cut in pieces or of other nodes.
THEOREM McuOwnAnswerAlways == McuSpec => []McuOwnAnswer
  <1>1. McuInit => McuInTurn
    BY McuNoCall DEF McuInit, McuInTurn
  <1>2. McuInTurn => McuOwnAnswer
    BY DEF McuInTurn, McuOwnAnswer
  <1>3. QED BY McuInvInit, McuInvStep, <1>1, McuInTurnStep, <1>2, PTL DEF McuSpec
=============================================================================
