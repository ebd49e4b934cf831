----------------------------- MODULE ResultsProofs -----------------------------
(***************************************************************************)
(* The safety properties of Results, for any number of results, any        *)
(* capacity of the channels and any size of the writer's buffer, with and  *)
(* without a database.                                                     *)
(***************************************************************************)
EXTENDS Results, SequenceTheorems, TLAPS

USE ResultsAssumption

-------------------------------------------------------------------------------
(* Types: the record file gets lines of nodes, so what the writer's buffer *)
(* holds where a flush takes it from must be lines of nodes.               *)

\* The daemon has a result in hand at these places, and room for a line when it
\* copies one.
InHand ==
  /\ dpc \in {"check", "copy", "advance", "flush", "write", "reset", "db", "draindb"} =>
       cur \in Result
  /\ dpc \in {"copy", "advance"} => n < BufSize
  /\ dpc = "advance" => n <= dn /\ dn < BufSize

Lines(k) == \A i \in 1..k : buf[i] \in Node

Filled ==
  /\ Lines(n)
  /\ dpc = "advance" => Lines(dn + 1)
  /\ dpc = "write" => Lines(dn)
  /\ bpc = "write" => Lines(bn)

Basic == TypeOK /\ InHand /\ Filled

LEMMA BasicInit == Init => Basic
<1> SUFFICES ASSUME Init PROVE Basic
  OBVIOUS
<1>1. /\ OutputCh \in Seq(Result) /\ Len(OutputCh) = 0
      /\ databaseCh \in Seq(Result) /\ Len(databaseCh) = 0
      /\ file \in Seq(Node) /\ inTime \in Seq(Node)
  BY EmptySeq DEF Init
<1>2. TypeOK
  <2>1. /\ proc \in {"running", "exited", "dead"} /\ ctxDone \in BOOLEAN /\ outShut \in BOOLEAN
        /\ err \in BOOLEAN /\ fileOpen \in BOOLEAN /\ dpc \in DaemonPC /\ bpc \in BootPC
    BY DEF Init, DaemonPC, BootPC
  <2>2. /\ sent \in 0..MaxNodes /\ n \in 0..BufSize /\ dn \in 0..BufSize /\ bn \in 0..BufSize
        /\ buf \in [1..BufSize -> Node \cup {NoNode}]
        /\ cur \in Result \cup {None} /\ saving \in Result \cup {None}
        /\ table \in [Node -> Kind \cup {"old"}]
    BY DEF Init
  <2> QED
    BY <1>1, <2>1, <2>2 DEF TypeOK
<1>3. InHand /\ Filled
  BY DEF Init, InHand, Filled, Lines
<1> QED
  BY <1>2, <1>3 DEF Basic

\* What a channel of results holds after a send and after a receive.
LEMMA SendTyped ==
  ASSUME NEW ch \in Seq(Result), HasRoom(ch), NEW x \in Result
  PROVE  Append(ch, x) \in Seq(Result) /\ Len(Append(ch, x)) <= ChanCap
BY AppendProperties, LenProperties DEF HasRoom

LEMMA ReceiveTyped ==
  ASSUME NEW ch \in Seq(Result), ch # <<>>, Len(ch) <= ChanCap
  PROVE  Head(ch) \in Result /\ Tail(ch) \in Seq(Result) /\ Len(Tail(ch)) <= ChanCap
<1>1. Head(ch) \in Result /\ Tail(ch) \in Seq(Result) /\ Len(Tail(ch)) = Len(ch) - 1
  BY HeadTailProperties
<1>2. Len(ch) \in Nat
  BY LenProperties
<1> QED
  BY <1>1, <1>2

\* A flush of k lines adds lines of nodes.
LEMMA FlushTyped ==
  ASSUME file \in Seq(Node), NEW k \in 0..BufSize, Lines(k)
  PROVE  /\ SubSeq(buf, 1, k) \in Seq(Node) /\ file \o SubSeq(buf, 1, k) \in Seq(Node)
         /\ Len(SubSeq(buf, 1, k)) = k
         /\ \A i \in 1..k : SubSeq(buf, 1, k)[i] = buf[i]
<1>1. /\ SubSeq(buf, 1, k) \in Seq(Node)
      /\ Len(SubSeq(buf, 1, k)) = IF 1 <= k THEN k - 1 + 1 ELSE 0
      /\ \A i \in 1..k - 1 + 1 : SubSeq(buf, 1, k)[i] = buf[1 + i - 1]
  <2>1. 1 \in Int /\ k \in Int /\ \A i \in 1..k : buf[i] \in Node
    BY DEF Lines
  <2> HIDE DEF Node
  <2> QED
    BY <2>1, SubSeqProperties
<1>2. file \o SubSeq(buf, 1, k) \in Seq(Node)
  BY <1>1, ConcatProperties
<1> QED
  BY <1>1, <1>2

LEMMA BasicNext == Basic /\ [Next]_vars => Basic'
<1> SUFFICES ASSUME Basic, [Next]_vars PROVE Basic'
  OBVIOUS
<1> USE DEF Basic, TypeOK, InHand, Filled, Lines
<1>1. CASE Timeout
  BY <1>1 DEF Timeout, writer, boot, db
<1>2. CASE CrawlOutput
  <2>1. PICK kind \in Kind : OutputCh' = Append(OutputCh, [node |-> sent', kind |-> kind])
    BY <1>2 DEF CrawlOutput
  <2>2. sent' \in 0..MaxNodes /\ [node |-> sent', kind |-> kind] \in Result
    BY <1>2 DEF CrawlOutput, Node, Result
  <2>3. OutputCh' \in Seq(Result) /\ Len(OutputCh') <= ChanCap
    BY <1>2, <2>1, <2>2, SendTyped DEF CrawlOutput
  <2> QED
    BY <1>2, <2>2, <2>3 DEF CrawlOutput, writer, boot, db
<1>3. CASE CrawlOutputClosed
  BY <1>3 DEF CrawlOutputClosed, Panic, allButProc, writer, boot, db
<1>4. CASE DaemonTakes
  BY <1>4 DEF DaemonTakes, daemonFrame, writer, boot, db, DaemonPC
<1>5. CASE DaemonTakesNil
  BY <1>5 DEF DaemonTakesNil, Panic, allButProc, writer, boot, db
<1>6. CASE WriteCheck
  BY <1>6 DEF WriteCheck, AfterLine, writeFrame, daemonFrame, writer, boot, db, DaemonPC
<1>7. CASE WriteCopy
  <2>1. cur.node \in Node /\ n \in 0..BufSize /\ n < BufSize
    BY <1>7 DEF WriteCopy, Result
  <2>2. /\ buf' \in [1..BufSize -> Node \cup {NoNode}]
        /\ buf'[n + 1] \in Node /\ \A i \in 1..BufSize : i # n + 1 => buf'[i] = buf[i]
    BY <1>7, <2>1 DEF WriteCopy
  <2>3. \A m \in 0..BufSize : Lines(m) => Lines(m)'
    BY <2>2 DEF Lines
  <2>4. Lines(n + 1)'
    BY <1>7, <2>1, <2>2 DEF Lines, WriteCopy
  <2>5. InHand' /\ TypeOK'
    BY <1>7, <2>1, <2>2 DEF WriteCopy, writeFrame, daemonFrame, boot, db, DaemonPC
  <2> QED
    BY <1>7, <2>3, <2>4, <2>5 DEF WriteCopy, writeFrame, daemonFrame, boot, db
<1>8. CASE WriteAdvance
  <2>1. cur.node \in Node /\ inTime \in Seq(Node) /\ n' \in 0..BufSize /\ n' <= dn + 1
    BY <1>8 DEF WriteAdvance, Result
  <2>2. inTime' \in Seq(Node)
    BY <1>8, <2>1, AppendProperties DEF WriteAdvance
  <2>3. \A i \in 1..n' : buf'[i] \in Node
    BY <1>8, <2>1 DEF WriteAdvance, writeFrame
  <2> QED
    BY <1>8, <2>1, <2>2, <2>3
       DEF WriteAdvance, AfterLine, writeFrame, daemonFrame, boot, db, DaemonPC
<1>9. CASE WriteFlush
  BY <1>9 DEF WriteFlush, writeFrame, daemonFrame, writer, boot, db, DaemonPC
<1>10. CASE WriteFile
  BY <1>10 DEF WriteFile, writeFrame, daemonFrame, writer, boot, db, DaemonPC
<1>11. CASE WriteReset
  BY <1>11 DEF WriteReset, writeFrame, daemonFrame, writer, boot, db, DaemonPC
<1>12. CASE DaemonDB
  BY <1>12 DEF DaemonDB, SendToDatabase, HasRoom, daemonFrame, writer, boot, db, DaemonPC
<1>13. CASE DaemonSleeps
  BY <1>13 DEF DaemonSleeps, writeFrame, daemonFrame, writer, boot, db, DaemonPC
<1>14. CASE DaemonCloses
  BY <1>14 DEF DaemonCloses, daemonFrame, writer, boot, db, DaemonPC
<1>15. CASE DaemonDrains
  BY <1>15 DEF DaemonDrains, daemonFrame, writer, boot, db, DaemonPC
<1>16. CASE DaemonEnds
  BY <1>16 DEF DaemonEnds, writeFrame, daemonFrame, writer, boot, db, DaemonPC
<1>17. CASE RunTakes
  BY <1>17 DEF RunTakes, dbFrame, writer, boot
<1>18. CASE RunSaves
  <2>1. saving \in Result /\ table' = [table EXCEPT ![saving.node] = saving.kind]
    BY <1>18 DEF RunSaves
  <2>2. table' \in [Node -> Kind \cup {"old"}]
    BY <2>1 DEF Result
  <2> QED
    BY <1>18, <2>2 DEF RunSaves, dbFrame, writer, boot
<1>19. CASE RunFails \/ PrepareFails
  BY <1>19 DEF RunFails, PrepareFails, Panic, allButProc, writer, boot, db
<1>20. CASE BootEnds
  BY <1>20 DEF BootEnds, MayFlush, bootFrame, writer, db, BootPC
<1>21. CASE FlushLoad
  BY <1>21 DEF FlushLoad, bootFrame, writer, db, BootPC
<1>22. CASE FlushFile
  BY <1>22 DEF FlushFile, bootFrame, writer, db, BootPC
<1>23. CASE FlushReset
  <2>1. n' \in 0..BufSize /\ n' <= n /\ err' \in BOOLEAN
    <3>1. CASE bn < n
      BY <1>23, <3>1 DEF FlushReset
    <3>2. CASE ~(bn < n)
      BY <1>23, <3>2 DEF FlushReset
    <3> QED
      BY <3>1, <3>2
  <2>2. buf' \in [1..BufSize -> Node \cup {NoNode}] /\ \A i \in 1..n' : buf'[i] \in Node
    <3>1. CASE bn < n
      <4>1. /\ buf' = [i \in 1..BufSize |-> IF i <= n - bn THEN buf[i + bn] ELSE buf[i]]
            /\ n' = n - bn
        BY <1>23, <3>1 DEF FlushReset
      <4>2. \A i \in 1..BufSize : i <= n - bn => i + bn \in 1..n
        BY <3>1
      <4>3. /\ DOMAIN buf' = 1..BufSize
            /\ \A i \in 1..BufSize : buf'[i] \in Node \cup {NoNode}
            /\ \A i \in 1..n' : buf'[i] \in Node
        BY <3>1, <4>1, <4>2
      <4> QED
        BY <4>1, <4>3
    <3>2. CASE ~(bn < n)
      BY <1>23, <3>2 DEF FlushReset
    <3> QED
      BY <3>1, <3>2
  <2> QED
    BY <1>23, <2>1, <2>2 DEF FlushReset, bootFrame, db, BootPC
<1>24. CASE BootCloses
  BY <1>24 DEF BootCloses, bootFrame, writer, db, BootPC
<1>25. CASE CloseTwice
  BY <1>25 DEF CloseTwice, Panic, allButProc, writer, boot, db
<1>26. CASE BootClosesFile
  BY <1>26 DEF BootClosesFile, bootFrame, writer, db, BootPC
<1>27. CASE Exit
  BY <1>27 DEF Exit, Panic, allButProc, writer, boot, db
<1>28. CASE UNCHANGED vars
  BY <1>28 DEF vars, allButProc, writer, boot, db
<1> QED
  BY <1>1, <1>2, <1>3, <1>4, <1>5, <1>6, <1>7, <1>8, <1>9, <1>10, <1>11, <1>12, <1>13, <1>14, <1>15, <1>16, <1>17, <1>18, <1>19, <1>20, <1>21, <1>22, <1>23, <1>24, <1>25, <1>26, <1>27, <1>28 DEF Next, DaemonStep, WriteStep, RunStep, BootStep, Stopped

LEMMA BasicAlways == Spec => []Basic
BY BasicInit, BasicNext, PTL DEF Spec

\* Every state has the types TypeOK gives: the channels hold no more results than
\* their capacity, the buffer no more lines than its size, and the record file is
\* lines of nodes, whatever of the buffer a flush of Boot takes while the daemon
\* writes to it (crawler.go:252, 314).
THEOREM TypeCorrect == Spec => []TypeOK
<1>1. Basic => TypeOK
  BY DEF Basic
<1> QED
  BY <1>1, BasicAlways, PTL

-------------------------------------------------------------------------------
(* The record: the lines before the timeout are always in the file or in   *)
(* that part of the buffer that the next flush takes.                      *)

Prefix(s, t) == Len(s) <= Len(t) /\ \A i \in 1..Len(s) : t[i] = s[i]

\* The record with the first k lines of the buffer.
Held(k) == file \o SubSeq(buf, 1, k)

\* Boot has taken nothing from the writer yet, or what it has taken is not yet
\* written.
Alone == bpc \in {"serve", "load", "write"}

Recorded ==
  /\ ~ctxDone => bpc = "serve"
  /\ proc = "exited" => bpc = "exit"
  /\ Alone => ~err /\ fileOpen /\ (dpc \in {"advance", "write"} => dn = n)
  /\ Alone => Prefix(inTime, IF dpc = "reset" THEN file ELSE Held(n))
  /\ bpc = "write" => Prefix(inTime, file) \/ (bn <= n /\ Prefix(inTime, Held(bn)))
  /\ ~Alone => Prefix(inTime, file)
  /\ ~ctxDone => inTime = (IF dpc = "reset" THEN file ELSE Held(n))
  /\ ~ctxDone /\ dpc = "advance" => buf[n + 1] = cur.node

\* Prefix in the words of RecordKept.
LEMMA PrefixIsSubSeq ==
  ASSUME NEW S, NEW s \in Seq(S), NEW t \in Seq(S), Prefix(s, t)
  PROVE  Len(s) <= Len(t) /\ SubSeq(t, 1, Len(s)) = s
<1>1. /\ Len(s) \in Nat /\ Len(t) \in Nat /\ Len(s) <= Len(t)
      /\ \A i \in 1..Len(s) : t[i] = s[i] /\ t[i] \in S
  BY LenProperties, ElementOfSeq DEF Prefix
<1>2. /\ SubSeq(t, 1, Len(s)) \in Seq(S)
      /\ Len(SubSeq(t, 1, Len(s))) = IF 1 <= Len(s) THEN Len(s) - 1 + 1 ELSE 0
      /\ \A i \in 1..Len(s) - 1 + 1 : SubSeq(t, 1, Len(s))[i] = t[1 + i - 1]
  BY <1>1, SubSeqProperties
<1>3. /\ Len(SubSeq(t, 1, Len(s))) = Len(s)
      /\ \A i \in 1..Len(s) : SubSeq(t, 1, Len(s))[i] = s[i]
  BY <1>1, <1>2
<1> QED
  BY <1>1, <1>2, <1>3, SeqEqual

\* What is in the record stays in it as it grows.
LEMMA PrefixGrows ==
  ASSUME NEW S, NEW s \in Seq(S), NEW t \in Seq(S), NEW u \in Seq(S), Prefix(s, t)
  PROVE  Prefix(s, t \o u)
<1>1. /\ Len(s) \in Nat /\ Len(t) \in Nat /\ Len(u) \in Nat
      /\ Len(t \o u) = Len(t) + Len(u)
      /\ \A i \in 1..Len(t) + Len(u) : (t \o u)[i] = IF i <= Len(t) THEN t[i] ELSE u[i - Len(t)]
  BY LenProperties, ConcatProperties
<1> QED
  BY <1>1 DEF Prefix

\* The record is as long as the file and the lines, and a line more is added at its
\* end.
LEMMA HeldLines ==
  ASSUME file \in Seq(Node), NEW k \in 0..BufSize, Lines(k)
  PROVE  /\ Held(k) \in Seq(Node) /\ Len(Held(k)) = Len(file) + k
         /\ \A i \in 1..Len(file) + k :
              Held(k)[i] = IF i <= Len(file) THEN file[i] ELSE buf[i - Len(file)]
<1>1. /\ SubSeq(buf, 1, k) \in Seq(Node) /\ Len(SubSeq(buf, 1, k)) = k
      /\ \A i \in 1..k : SubSeq(buf, 1, k)[i] = buf[i]
  BY FlushTyped
<1>2. /\ Held(k) \in Seq(Node) /\ Len(Held(k)) = Len(file) + k
      /\ \A i \in 1..Len(file) + k :
           Held(k)[i] = IF i <= Len(file) THEN file[i] ELSE SubSeq(buf, 1, k)[i - Len(file)]
  <2> HIDE DEF Node
  <2> QED
    BY <1>1, ConcatProperties DEF Held
<1>3. Len(file) \in Nat
  BY LenProperties
<1> QED
  BY <1>1, <1>2, <1>3

\* What is beyond the first k lines of the buffer does not matter.
LEMMA SubSeqSame ==
  ASSUME NEW S, NEW k \in Nat, NEW f, NEW g, \A i \in 1..k : f[i] \in S /\ g[i] = f[i]
  PROVE  SubSeq(g, 1, k) = SubSeq(f, 1, k)
<1>1. 1 \in Int /\ k \in Int /\ \A i \in 1..k : f[i] \in S /\ g[i] \in S
  OBVIOUS
<1>2. /\ SubSeq(f, 1, k) \in Seq(S)
      /\ Len(SubSeq(f, 1, k)) = IF 1 <= k THEN k - 1 + 1 ELSE 0
      /\ \A i \in 1..k - 1 + 1 : SubSeq(f, 1, k)[i] = f[1 + i - 1]
  BY <1>1, SubSeqProperties
<1>3. /\ SubSeq(g, 1, k) \in Seq(S)
      /\ Len(SubSeq(g, 1, k)) = IF 1 <= k THEN k - 1 + 1 ELSE 0
      /\ \A i \in 1..k - 1 + 1 : SubSeq(g, 1, k)[i] = g[1 + i - 1]
  BY <1>1, SubSeqProperties
<1>4. /\ Len(SubSeq(g, 1, k)) = Len(SubSeq(f, 1, k))
      /\ \A i \in 1..Len(SubSeq(g, 1, k)) : SubSeq(g, 1, k)[i] = SubSeq(f, 1, k)[i]
  BY <1>2, <1>3
<1> QED
  BY <1>2, <1>3, <1>4, SeqEqual

LEMMA HeldNone == file \in Seq(Node) => Held(0) = file
BY SubSeqEmpty, ConcatEmptySeq DEF Held

LEMMA HeldNext ==
  ASSUME file \in Seq(Node), NEW k \in 0..BufSize - 1, Lines(k + 1)
  PROVE  Held(k + 1) = Append(Held(k), buf[k + 1])
<1>1. Lines(k) /\ k \in 0..BufSize /\ k + 1 \in 0..BufSize /\ buf[k + 1] \in Node
  BY DEF Lines
<1>2. /\ Held(k) \in Seq(Node) /\ Len(Held(k)) = Len(file) + k
      /\ \A i \in 1..Len(file) + k :
           Held(k)[i] = IF i <= Len(file) THEN file[i] ELSE buf[i - Len(file)]
      /\ Held(k + 1) \in Seq(Node) /\ Len(Held(k + 1)) = Len(file) + (k + 1)
      /\ \A i \in 1..Len(file) + (k + 1) :
           Held(k + 1)[i] = IF i <= Len(file) THEN file[i] ELSE buf[i - Len(file)]
  BY <1>1, HeldLines
<1>3. /\ Append(Held(k), buf[k + 1]) \in Seq(Node)
      /\ Len(Append(Held(k), buf[k + 1])) = Len(Held(k)) + 1
      /\ \A i \in 1..Len(Held(k)) : Append(Held(k), buf[k + 1])[i] = Held(k)[i]
      /\ Append(Held(k), buf[k + 1])[Len(Held(k)) + 1] = buf[k + 1]
  BY <1>1, <1>2, AppendProperties
<1>4. Len(file) \in Nat
  BY LenProperties
<1>5. /\ Len(Append(Held(k), buf[k + 1])) = Len(Held(k + 1))
      /\ \A i \in 1..Len(Held(k + 1)) : Held(k + 1)[i] = Append(Held(k), buf[k + 1])[i]
  BY <1>2, <1>3, <1>4
<1> QED
  BY <1>2, <1>3, <1>5, SeqEqual

LEMMA RecordedInit == Init => Recorded
<1> SUFFICES ASSUME Init PROVE Recorded
  OBVIOUS
<1>1. file \in Seq(Node) /\ inTime = file /\ n = 0 /\ Len(file) = 0
  BY EmptySeq DEF Init
<1>2. inTime = Held(n) /\ Prefix(inTime, Held(n))
  BY <1>1, HeldNone DEF Prefix
<1> QED
  BY <1>2 DEF Init, Recorded, Alone

LEMMA RecordedNext == Basic /\ Recorded /\ [Next]_vars => Recorded'
<1> SUFFICES ASSUME Basic, Recorded, [Next]_vars PROVE Recorded'
  OBVIOUS
<1>0. /\ file \in Seq(Node) /\ inTime \in Seq(Node) /\ n \in 0..BufSize /\ Lines(n)
      /\ dn \in 0..BufSize /\ bn \in 0..BufSize
      /\ proc \in {"running", "exited", "dead"}
  BY DEF Basic, TypeOK, Filled
<1>1. CASE Timeout
  BY <1>1 DEF Timeout, Recorded, Alone, Held, writer, boot, db
<1>2. CASE CrawlOutput
  BY <1>2 DEF CrawlOutput, Recorded, Alone, Held, writer, boot, db
<1>3. CASE CrawlOutputClosed
  BY <1>3 DEF CrawlOutputClosed, Recorded, Alone, Held, Panic, allButProc, writer, boot, db
<1>4. CASE DaemonTakes
  BY <1>4 DEF DaemonTakes, Recorded, Alone, Held, daemonFrame, writer, boot, db
<1>5. CASE DaemonTakesNil
  BY <1>5 DEF DaemonTakesNil, Recorded, Alone, Held, Panic, allButProc, writer, boot, db
<1>6. CASE WriteCheck
  BY <1>6 DEF WriteCheck, Recorded, Alone, Held, AfterLine, writeFrame, daemonFrame, writer, boot, db
<1>7. CASE WriteCopy
  <2>1. /\ n < BufSize /\ \A i \in 1..BufSize : i # n + 1 => buf'[i] = buf[i]
        /\ buf'[n + 1] = cur.node
    BY <1>7 DEF WriteCopy, Basic, TypeOK, InHand
  <2>2. UNCHANGED <<file, inTime, n, err, cur, ctxDone, proc, bpc, bn, fileOpen>>
    BY <1>7 DEF WriteCopy, writeFrame, daemonFrame, boot
  <2>3. \A m \in 0..n : Held(m)' = Held(m)
    <3>1. SUFFICES ASSUME NEW m \in 0..n PROVE SubSeq(buf', 1, m) = SubSeq(buf, 1, m)
      BY <2>2 DEF Held
    <3>2. m \in Nat /\ \A i \in 1..m : buf[i] \in Node /\ buf'[i] = buf[i]
      BY <1>0, <2>1 DEF Lines
    <3> QED
      BY <3>2, SubSeqSame
  <2>4. Held(n)' = Held(n) /\ (bn <= n => Held(bn)' = Held(bn))
    BY <1>0, <2>2, <2>3
  <2> QED
    BY <1>7, <1>0, <2>1, <2>2, <2>4 DEF WriteCopy, Recorded, Alone
<1>8. CASE WriteAdvance
  <2>1. /\ n \in 0..BufSize - 1 /\ Lines(dn + 1) /\ n <= dn /\ cur.node \in Node
        /\ UNCHANGED <<file, buf, err, ctxDone, proc, bpc, bn, fileOpen>>
        /\ dpc' # "advance" /\ dpc' # "write" /\ dpc' # "reset"
    BY <1>8, <1>0 DEF WriteAdvance, AfterLine, writeFrame, daemonFrame, boot, Basic, InHand, Filled,
       Result
  <2>2. Lines(n + 1)
    BY <1>0, <2>1 DEF Lines
  <2>3. Held(n + 1) = Append(Held(n), buf[n + 1]) /\ buf[n + 1] \in Node /\ Held(n) \in Seq(Node)
    BY <1>0, <2>1, <2>2, HeldNext, HeldLines DEF Lines
  <2>4. ASSUME Prefix(inTime, Held(n)) PROVE Prefix(inTime, Held(n + 1))
    <3>1. Append(Held(n), buf[n + 1]) = Held(n) \o <<buf[n + 1]>> /\ <<buf[n + 1]>> \in Seq(Node)
      BY <2>3, AppendIsConcat
    <3> HIDE DEF Node
    <3> QED
      BY <1>0, <2>3, <2>4, <3>1, PrefixGrows
  <2>5. CASE Alone
    <3>1. n' = n + 1 /\ Held(n)' = Held(n + 1) /\ Held(bn)' = Held(bn) /\ (bn <= n => bn' <= n')
          /\ Prefix(inTime, Held(n))
      <4>1. dpc = "advance" /\ n' \in {n + 1, dn + 1}
        BY <1>8 DEF WriteAdvance
      <4>2. dn = n /\ Prefix(inTime, Held(n))
        BY <2>5, <4>1 DEF Recorded
      <4>3. n' = n + 1
        BY <4>1, <4>2
      <4>4. Held(n)' = Held(n') /\ Held(bn)' = Held(bn)
        BY <2>1 DEF Held
      <4>5. Held(n)' = Held(n + 1)
        BY <4>3, <4>4
      <4>6. bn <= n => bn' <= n'
        BY <1>0, <2>1, <4>3
      <4> QED
        BY <4>2, <4>3, <4>4, <4>5, <4>6
    <3>2. CASE ctxDone
      BY <1>8, <2>1, <2>4, <2>5, <3>1, <3>2 DEF WriteAdvance, Recorded, Alone
    <3>3. CASE ~ctxDone
      <4>1. inTime' = Held(n)' /\ bpc = "serve"
        BY <1>8, <2>3, <3>1, <3>3 DEF WriteAdvance, Recorded
      <4>2. Prefix(inTime', Held(n)')
        <5> Len(Held(n + 1)) \in Nat
          BY <1>0, <2>1, <2>2, HeldLines, LenProperties
        <5> QED
          BY <3>1, <4>1 DEF Prefix
      <4> QED
        BY <1>8, <2>1, <2>5, <3>1, <3>3, <4>1, <4>2 DEF Recorded, Alone
    <3> QED
      BY <3>2, <3>3
  <2>6. CASE ~Alone
    BY <1>8, <2>1, <2>6 DEF WriteAdvance, Recorded, Alone
  <2> QED
    BY <2>5, <2>6
<1>9. CASE WriteFlush
  BY <1>9 DEF WriteFlush, Recorded, Alone, Held, writeFrame, daemonFrame, writer, boot, db
<1>10. CASE WriteFile
  <2>1. UNCHANGED <<buf, n, inTime, ctxDone, proc, bpc, bn, fileOpen>> /\ Lines(dn)
    BY <1>10 DEF WriteFile, writeFrame, daemonFrame, boot, Basic, Filled
  <2>2. SubSeq(buf, 1, dn) \in Seq(Node) /\ file' \in Seq(Node)
    BY <1>10, <1>0, <2>1, FlushTyped DEF WriteFile
  <2>3. Prefix(inTime, file) => Prefix(inTime, file')
    <3> HIDE DEF Node
    <3> QED
      BY <1>10, <1>0, <2>2, PrefixGrows DEF WriteFile
  <2>4. CASE Alone
    <3>1. fileOpen /\ dn = n /\ ~err /\ Prefix(inTime, Held(n))
      BY <1>10, <2>4 DEF WriteFile, Recorded
    <3>2. file' = Held(n) /\ ~err' /\ dpc' = "reset"
      BY <1>10, <3>1 DEF WriteFile, Held
    <3> QED
      BY <1>10, <2>1, <2>4, <3>1, <3>2 DEF WriteFile, Recorded, Alone
  <2>5. CASE ~Alone
    BY <1>10, <2>1, <2>3, <2>5 DEF WriteFile, Recorded, Alone
  <2> QED
    BY <2>4, <2>5
<1>11. CASE WriteReset
  <2>1. UNCHANGED <<file, buf, err, inTime, ctxDone, proc, bpc, bn, fileOpen>> /\ n' = 0
    BY <1>11 DEF WriteReset, writeFrame, daemonFrame, boot
  <2>2. Held(n)' = file /\ dpc' = "check"
    BY <1>11, <1>0, <2>1, HeldNone DEF WriteReset, Held
  <2> QED
    BY <1>11, <2>1, <2>2 DEF WriteReset, Recorded, Alone
<1>12. CASE DaemonDB
  BY <1>12 DEF DaemonDB, Recorded, Alone, Held, daemonFrame, writer, boot, db
<1>13. CASE DaemonSleeps
  BY <1>13 DEF DaemonSleeps, Recorded, Alone, Held, writeFrame, daemonFrame, writer, boot, db
<1>14. CASE DaemonCloses
  BY <1>14 DEF DaemonCloses, Recorded, Alone, Held, daemonFrame, writer, boot, db
<1>15. CASE DaemonDrains
  BY <1>15 DEF DaemonDrains, Recorded, Alone, Held, daemonFrame, writer, boot, db
<1>16. CASE DaemonEnds
  BY <1>16 DEF DaemonEnds, Recorded, Alone, Held, writeFrame, daemonFrame, writer, boot, db
<1>17. CASE RunTakes
  BY <1>17 DEF RunTakes, Recorded, Alone, Held, dbFrame, writer, boot
<1>18. CASE RunSaves
  BY <1>18 DEF RunSaves, Recorded, Alone, Held, dbFrame, writer, boot
<1>19. CASE RunFails \/ PrepareFails
  <2>1. UNCHANGED allButProc /\ proc' = "dead"
    BY <1>19 DEF RunFails, PrepareFails, Panic
  <2> QED
    BY <2>1 DEF Recorded, Alone, Held, allButProc, writer, boot, db
<1>20. CASE BootEnds
  <2>1. UNCHANGED <<file, buf, n, err, inTime, ctxDone, proc, bn, fileOpen, dpc, dn>>
    BY <1>20 DEF BootEnds, bootFrame, writer
  <2>2. ~err /\ ctxDone /\ Prefix(inTime, IF dpc = "reset" THEN file ELSE Held(n)) /\ bpc = "serve"
    BY <1>20 DEF BootEnds, Recorded, Alone
  <2>3. Held(n)' = Held(n)
    BY <2>1 DEF Held
  <2>4. CASE n = 0
    BY <1>20, <1>0, <2>1, <2>2, <2>4, HeldNone DEF BootEnds, MayFlush, Recorded, Alone
  <2>5. CASE n # 0
    BY <1>20, <2>1, <2>2, <2>3, <2>5 DEF BootEnds, MayFlush, Recorded, Alone
  <2> QED
    BY <2>4, <2>5
<1>21. CASE FlushLoad
  <2>1. UNCHANGED <<file, buf, n, err, inTime, ctxDone, proc, fileOpen, dpc, dn, cur>>
    BY <1>21 DEF FlushLoad, bootFrame, writer
  <2>2. Held(n)' = Held(n) /\ Held(bn)' = Held(n) /\ bn' <= n' /\ bpc' = "write"
    BY <1>21, <1>0, <2>1 DEF FlushLoad, Held
  <2> QED
    BY <1>21, <2>1, <2>2 DEF FlushLoad, Recorded, Alone
<1>22. CASE FlushFile
  <2>1. UNCHANGED <<inTime, ctxDone, proc>> /\ Lines(bn) /\ ctxDone /\ bpc' = "reset" /\ file' = Held(bn)
        /\ proc # "exited"
    BY <1>22 DEF FlushFile, bootFrame, Basic, Filled, Recorded, Held
  <2>2. SubSeq(buf, 1, bn) \in Seq(Node)
    BY <1>0, <2>1, FlushTyped
  <2>3. Prefix(inTime, file) => Prefix(inTime, file')
    <3> HIDE DEF Node
    <3> QED
      BY <1>0, <2>1, <2>2, PrefixGrows DEF Held
  <2> QED
    BY <1>22, <2>1, <2>3 DEF FlushFile, Recorded, Alone
<1>23. CASE FlushReset
  BY <1>23 DEF FlushReset, Recorded, Alone, Held, bootFrame, writer, db
<1>24. CASE BootCloses
  BY <1>24 DEF BootCloses, Recorded, Alone, Held, bootFrame, writer, db
<1>25. CASE CloseTwice
  BY <1>25 DEF CloseTwice, Recorded, Alone, Held, Panic, allButProc, writer, boot, db
<1>26. CASE BootClosesFile
  BY <1>26 DEF BootClosesFile, Recorded, Alone, Held, bootFrame, writer, db
<1>27. CASE Exit
  BY <1>27 DEF Exit, Recorded, Alone, Held, Panic, allButProc, writer, boot, db
<1>28. CASE UNCHANGED vars
  BY <1>28 DEF Recorded, Alone, Held, vars, allButProc, writer, boot, db
<1> QED
  BY <1>1, <1>2, <1>3, <1>4, <1>5, <1>6, <1>7, <1>8, <1>9, <1>10, <1>11, <1>12, <1>13, <1>14, <1>15, <1>16, <1>17, <1>18, <1>19, <1>20, <1>21, <1>22, <1>23, <1>24, <1>25, <1>26, <1>27, <1>28 DEF Next, DaemonStep, WriteStep, RunStep, BootStep, Stopped

LEMMA RecordedAlways == Spec => [](Basic /\ Recorded)
BY BasicInit, BasicNext, RecordedInit, RecordedNext, PTL DEF Spec

\* The lines written before the timeout are whole, in order and at the front of the
\* record file when the process has ended regularly, wherever the daemon was in its
\* write when Boot flushed the same buffer (crawler.go:252, 314).
THEOREM RecordSafe == Spec => []RecordKept
<1>1. Basic /\ Recorded => RecordKept
  <2> SUFFICES ASSUME Basic, Recorded, proc = "exited"
               PROVE  Len(inTime) <= Len(file) /\ SubSeq(file, 1, Len(inTime)) = inTime
    BY DEF RecordKept
  <2>1. Prefix(inTime, file)
    BY DEF Recorded, Alone
  <2>2. file \in Seq(Node) /\ inTime \in Seq(Node)
    BY DEF Basic, TypeOK
  <2> QED
    BY <2>1, <2>2, PrefixIsSubSeq
<1> QED
  BY <1>1, RecordedAlways, PTL

-------------------------------------------------------------------------------
(* The rows: while the time is not out everything on its way to the table  *)
(* has client info.                                                        *)

HasInfo(x) == x.kind \in Informed

Clients ==
  /\ dpc = "db" => HasInfo(cur)
  /\ ~ctxDone => /\ saving = None \/ HasInfo(saving)
                 /\ \A i \in 1..Len(databaseCh) : HasInfo(databaseCh[i])
                 /\ dpc \notin {"sleep", "drain", "draindb", "done"}

LEMMA ClientsInit == Init => Clients
BY DEF Init, Clients

LEMMA ClientsNext == Basic /\ Clients /\ [Next]_vars => Clients'
<1> SUFFICES ASSUME Basic, Clients, [Next]_vars PROVE Clients'
  OBVIOUS
<1> USE DEF Clients
<1>0. databaseCh \in Seq(Result)
  BY DEF Basic, TypeOK
<1>1. CASE Timeout
  BY <1>1 DEF Timeout, writer, boot, db
<1>2. CASE CrawlOutput
  BY <1>2 DEF CrawlOutput, writer, boot, db
<1>3. CASE CrawlOutputClosed
  BY <1>3 DEF CrawlOutputClosed, Panic, allButProc, writer, boot, db
<1>4. CASE DaemonTakes
  BY <1>4 DEF DaemonTakes, daemonFrame, writer, boot, db
<1>5. CASE DaemonTakesNil
  BY <1>5 DEF DaemonTakesNil, Panic, allButProc, writer, boot, db
<1>6. CASE WriteCheck
  BY <1>6 DEF WriteCheck, AfterLine, ToDatabase, HasInfo, writeFrame, daemonFrame, writer, boot, db
<1>7. CASE WriteCopy
  BY <1>7 DEF WriteCopy, writeFrame, daemonFrame, writer, boot, db
<1>8. CASE WriteAdvance
  BY <1>8 DEF WriteAdvance, AfterLine, ToDatabase, HasInfo, writeFrame, daemonFrame, writer, boot, db
<1>9. CASE WriteFlush
  BY <1>9 DEF WriteFlush, writeFrame, daemonFrame, writer, boot, db
<1>10. CASE WriteFile
  BY <1>10 DEF WriteFile, writeFrame, daemonFrame, writer, boot, db
<1>11. CASE WriteReset
  BY <1>11 DEF WriteReset, writeFrame, daemonFrame, writer, boot, db
<1>12. CASE DaemonDB
  <2>1. cur \in Result /\ databaseCh' = Append(databaseCh, cur) /\ UNCHANGED <<saving, ctxDone>>
    BY <1>12 DEF DaemonDB, SendToDatabase, daemonFrame, db, Basic, InHand
  <2>2. ASSUME ~ctxDone PROVE \A i \in 1..Len(databaseCh') : HasInfo(databaseCh'[i])
    <3>1. /\ Len(databaseCh') = Len(databaseCh) + 1 /\ Len(databaseCh) \in Nat
          /\ \A i \in 1..Len(databaseCh) : databaseCh'[i] = databaseCh[i]
          /\ databaseCh'[Len(databaseCh) + 1] = cur
      BY <1>0, <2>1, AppendProperties, LenProperties
    <3>2. HasInfo(cur)
      BY <1>12, <2>2 DEF DaemonDB
    <3>3. \A i \in 1..Len(databaseCh) + 1 : i \in 1..Len(databaseCh) \/ i = Len(databaseCh) + 1
      BY <3>1
    <3> QED
      BY <2>2, <3>1, <3>2, <3>3
  <2> QED
    BY <1>12, <2>1, <2>2 DEF DaemonDB
<1>13. CASE DaemonSleeps
  BY <1>13 DEF DaemonSleeps, writeFrame, daemonFrame, writer, boot, db
<1>14. CASE DaemonCloses
  BY <1>14 DEF DaemonCloses, daemonFrame, writer, boot, db
<1>15. CASE DaemonDrains
  BY <1>15 DEF DaemonDrains, daemonFrame, writer, boot, db
<1>16. CASE DaemonEnds
  BY <1>16 DEF DaemonEnds, writeFrame, daemonFrame, writer, boot, db
<1>17. CASE RunTakes
  <2>1. /\ saving' = Head(databaseCh) /\ databaseCh' = Tail(databaseCh) /\ databaseCh # <<>>
        /\ UNCHANGED <<ctxDone, dpc, cur>>
    BY <1>17 DEF RunTakes, dbFrame
  <2>2. /\ Head(databaseCh) = databaseCh[1] /\ Len(databaseCh) \in Nat /\ Len(databaseCh) # 0
        /\ Len(Tail(databaseCh)) = Len(databaseCh) - 1
        /\ \A i \in 1..Len(Tail(databaseCh)) : Tail(databaseCh)[i] = databaseCh[i + 1]
    BY <1>0, <2>1, HeadTailProperties, LenProperties, EmptySeq
  <2>3. ~ctxDone => HasInfo(saving') /\ \A i \in 1..Len(databaseCh') : HasInfo(databaseCh'[i])
    BY <2>1, <2>2
  <2> QED
    BY <2>1, <2>3
<1>18. CASE RunSaves
  BY <1>18 DEF RunSaves, dbFrame, writer, boot
<1>19. CASE RunFails \/ PrepareFails
  BY <1>19 DEF RunFails, PrepareFails, Panic, allButProc, writer, boot, db
<1>20. CASE BootEnds
  BY <1>20 DEF BootEnds, bootFrame, writer, db
<1>21. CASE FlushLoad
  BY <1>21 DEF FlushLoad, bootFrame, writer, db
<1>22. CASE FlushFile
  BY <1>22 DEF FlushFile, bootFrame, writer, db
<1>23. CASE FlushReset
  BY <1>23 DEF FlushReset, bootFrame, writer, db
<1>24. CASE BootCloses
  BY <1>24 DEF BootCloses, bootFrame, writer, db
<1>25. CASE CloseTwice
  BY <1>25 DEF CloseTwice, Panic, allButProc, writer, boot, db
<1>26. CASE BootClosesFile
  BY <1>26 DEF BootClosesFile, bootFrame, writer, db
<1>27. CASE Exit
  BY <1>27 DEF Exit, Panic, allButProc, writer, boot, db
<1>28. CASE UNCHANGED vars
  BY <1>28 DEF vars, allButProc, writer, boot, db
<1> QED
  BY <1>1, <1>2, <1>3, <1>4, <1>5, <1>6, <1>7, <1>8, <1>9, <1>10, <1>11, <1>12, <1>13, <1>14, <1>15, <1>16, <1>17, <1>18, <1>19, <1>20, <1>21, <1>22, <1>23, <1>24, <1>25, <1>26, <1>27, <1>28 DEF Next, DaemonStep, WriteStep, RunStep, BootStep, Stopped

\* The row of a node loses its client to a result whose client's name does not parse
\* and, once the time is out, to one the daemon drains, but to no other: until then only
\* results with client info are in databaseCh and with DB.Run (db.go:71, crawler.go:307, 317).
THEOREM ClientsSafe == Spec => ClientsKept
<1>1. Basic /\ Clients /\ [Next]_vars =>
        [\A x \in Node :
           HasClient(table[x]) /\ ~HasClient(table'[x]) => ctxDone \/ table'[x] = "unnamed"]_vars
  <2> SUFFICES ASSUME Basic, Clients, [Next]_vars, UNCHANGED vars \/ Next,
                      NEW x \in Node, HasClient(table[x]), ~HasClient(table'[x])
               PROVE  ctxDone \/ table'[x] = "unnamed"
    OBVIOUS
  <2>1. RunSaves
    <3>1. table' # table
      OBVIOUS
    <3> QED
      BY <3>1 DEF Next, Stopped, vars, allButProc, daemonFrame, writeFrame, dbFrame, bootFrame,
         Timeout, CrawlOutput, CrawlOutputClosed, Panic, db, writer, boot,
         DaemonStep, DaemonTakes, DaemonTakesNil, WriteStep, WriteCheck, WriteCopy, WriteAdvance,
         WriteFlush, WriteFile, WriteReset, DaemonDB, DaemonSleeps, DaemonCloses, DaemonDrains,
         DaemonEnds, RunStep, RunTakes, RunFails, PrepareFails,
         BootStep, BootEnds, FlushLoad, FlushFile, FlushReset, BootCloses, CloseTwice,
         BootClosesFile, Exit
  <2>2. saving # None /\ table' = [table EXCEPT ![saving.node] = saving.kind]
    BY <2>1 DEF RunSaves
  <2>3. table \in [Node -> Kind \cup {"old"}]
    BY DEF Basic, TypeOK
  <2>4. saving.node = x /\ table'[x] = saving.kind
    BY <2>2, <2>3 DEF HasClient
  <2>5. ~ctxDone => saving.kind \in {"unnamed", "client"}
    BY <2>2 DEF Clients, HasInfo, Informed
  <2> QED
    BY <2>4, <2>5 DEF HasClient
<1> QED
  BY <1>1, BasicInit, BasicNext, ClientsInit, ClientsNext, PTL DEF Spec, ClientsKept
===============================================================================
