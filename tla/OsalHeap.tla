------------------------------ MODULE OsalHeap ------------------------------
(***************************************************************************)
(* The heap of OSAL and its monitor, osal/src/posix/lib/osal_heap.c.       *)
(*                                                                         *)
(* A step is one critical section of g_heap_monitor.lock, a malloc with    *)
(* the filling of the header, or a free with the clearing of the magic.    *)
(* A caller frees a block once.  Counters are words of HeapWord values.    *)
(* The process may have a /proc or not, HeapProc being what it may read    *)
(* there; an empty reading is <<0, 0>>.                                    *)
(***************************************************************************)
EXTENDS Naturals, FiniteSets, FiniteSetsExt

CONSTANTS HeapThreads,  \* threads that check the threshold
          HeapBlocks,   \* blocks that can be allocated at a time
          BlockSizes,   \* sizes
          HeapWord,     \* 2^32
          HeapPercents, \* thresholds that are set, at most HeapFull
          HeapFull,     \* OSAL_HEAP_PERCENT_MULTIPLIER
          HeapProc      \* <<VmRSS, VmPeak>> pairs

ASSUME HeapAssumption ==
  /\ IsFiniteSet(HeapBlocks)
  /\ HeapWord \in Nat \ {0}
  /\ HeapFull \in Nat
  /\ BlockSizes \subseteq Nat
  /\ HeapProc \subseteq (0..(HeapWord - 1)) \X (0..(HeapWord - 1))

VARIABLES
  heapCurrent,    \* current_usage
  heapPeak,       \* peak_usage
  heapThreshold,  \* threshold_percent
  heapAlert,      \* alert_triggered
  heapBlock,      \* each block: how far it has come, and its size
  heapCheck,      \* the usage_percent a thread has computed, HeapWord if none
  heapSampled     \* history: current_usage has been overwritten by VmRSS

heapCounters == <<heapCurrent, heapPeak>>
heapVars == <<heapCounters, heapThreshold, heapAlert, heapBlock, heapCheck, heapSampled>>

HeapInit ==
  /\ heapCurrent = 0
  /\ heapPeak = 0
  /\ heapThreshold \in HeapPercents
  /\ heapAlert = FALSE
  /\ heapBlock = [b \in HeapBlocks |-> [at |-> "free", size |-> 0]]
  /\ heapCheck = [t \in HeapThreads |-> HeapWord]
  /\ heapSampled = FALSE

Larger(a, b) == IF a > b THEN a ELSE b

-----------------------------------------------------------------------------
(* OSAL_Malloc and OSAL_Free.                                              *)

HeapMalloc(b, n) ==
  /\ heapBlock[b].at = "free"
  /\ heapBlock' = [heapBlock EXCEPT ![b] = [at |-> "raw", size |-> n]]
  /\ UNCHANGED <<heapCounters, heapThreshold, heapAlert, heapCheck, heapSampled>>

HeapCount(b) ==
  /\ heapBlock[b].at = "raw"
  /\ heapCurrent' = (heapCurrent + heapBlock[b].size) % HeapWord
  /\ heapPeak' = Larger(heapPeak, heapCurrent')
  /\ heapBlock' = [heapBlock EXCEPT ![b].at = "live"]
  /\ UNCHANGED <<heapThreshold, heapAlert, heapCheck, heapSampled>>

\* More than is counted leaves 0.
HeapFree(b) ==
  LET n == heapBlock[b].size IN
  /\ heapBlock[b].at = "live"
  /\ heapCurrent' = IF n > heapCurrent THEN 0 ELSE heapCurrent - n
  /\ heapBlock' = [heapBlock EXCEPT ![b].at = "uncounted"]
  /\ UNCHANGED <<heapPeak, heapThreshold, heapAlert, heapCheck, heapSampled>>

HeapRelease(b) ==
  /\ heapBlock[b].at = "uncounted"
  /\ heapBlock' = [heapBlock EXCEPT ![b] = [at |-> "free", size |-> 0]]
  /\ UNCHANGED <<heapCounters, heapThreshold, heapAlert, heapCheck, heapSampled>>

-----------------------------------------------------------------------------
(* OSAL_HeapGetInfo, SetThreshold, CheckThreshold and GetStats.            *)

\* Mutant: what /proc says counts though nothing could be read.
MutHeapSample(p) ==
  /\ heapCurrent' = p[1]
  /\ heapPeak' = Larger(heapPeak, p[1])
  /\ heapSampled' = (heapSampled \/ p # <<0, 0>>)

\* The reading p replaces the counter, unless it is empty.
HeapSample(p) ==
  IF p = <<0, 0>>
  THEN UNCHANGED <<heapCounters, heapSampled>>
  ELSE /\ heapCurrent' = p[1]
       /\ heapPeak' = Larger(heapPeak, p[1])
       /\ heapSampled' = TRUE

\* What HeapGetInfo answers: the bytes in use and in all.
HeapTotal(p) == IF p = <<0, 0>> THEN heapPeak ELSE p[2]
HeapUsed(p) ==
  LET rss == IF p = <<0, 0>> THEN heapCurrent ELSE p[1]
      peak == HeapTotal(p)
  IN  peak - (IF peak > rss THEN peak - rss ELSE 0)

HeapGetInfo(p) ==
  /\ HeapSample(p)
  /\ UNCHANGED <<heapThreshold, heapAlert, heapBlock, heapCheck>>

HeapSetThreshold(n) ==
  /\ n <= HeapFull
  /\ heapThreshold' = n
  /\ UNCHANGED <<heapCounters, heapAlert, heapBlock, heapCheck, heapSampled>>

\* The product is a word; nothing in use at all is below any threshold, and
\* leaves the alert alone.
HeapCheckUsage(t, p) ==
  /\ heapCheck[t] = HeapWord
  /\ HeapSample(p)
  /\ HeapTotal(p) # 0
  /\ heapCheck' = [heapCheck EXCEPT ![t] =
       ((HeapUsed(p) * HeapFull) % HeapWord) \div HeapTotal(p)]
  /\ UNCHANGED <<heapThreshold, heapAlert, heapBlock>>

HeapCheckThreshold(t) ==
  /\ heapCheck[t] # HeapWord
  /\ heapAlert' = (heapCheck[t] >= heapThreshold)
  /\ heapCheck' = [heapCheck EXCEPT ![t] = HeapWord]
  /\ UNCHANGED <<heapCounters, heapThreshold, heapBlock, heapSampled>>

HeapGetStats == [current |-> heapCurrent, peak |-> heapPeak]

\* The bytes of the blocks S, block b being of f[b] bytes.
HeapBytes(f, S) == MapThenSumSet(LAMBDA b : f[b], S)

\* The bytes that are counted in: of the blocks that are out, a block being
\* out until its Free has taken it off the count.
HeapOut ==
  HeapBytes([b \in HeapBlocks |-> heapBlock[b].size],
            {b \in HeapBlocks : heapBlock[b].at = "live"})

-----------------------------------------------------------------------------
HeapNext ==
  \/ \E b \in HeapBlocks :
       \/ \E n \in BlockSizes : HeapMalloc(b, n)
       \/ HeapCount(b) \/ HeapFree(b) \/ HeapRelease(b)
  \/ \E n \in HeapPercents : HeapSetThreshold(n)
  \/ \E p \in HeapProc :
       \/ HeapGetInfo(p)
       \/ \E t \in HeapThreads : HeapCheckUsage(t, p)
  \/ \E t \in HeapThreads : HeapCheckThreshold(t)

HeapSpec == HeapInit /\ [][HeapNext]_heapVars

-----------------------------------------------------------------------------
(* Properties.                                                             *)

\* osal_heap.c:57-221: until /proc overwrites it, current_usage is the sum of the
\* blocks that are out, in whatever order blocks are counted in and out and the
\* usage is read, as long as they are less than 2^32; and the peak is never below it.
HeapUsage ==
  /\ HeapGetStats.current <= HeapGetStats.peak
  /\ ~heapSampled => HeapGetStats.current = HeapOut
=============================================================================
