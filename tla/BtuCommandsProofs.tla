------------------------- MODULE BtuCommandsProofs -------------------------
(***************************************************************************)
(* The command flow and the start-up of BtuCommands, for every set of      *)
(* commands, every window and all timeouts that GuardAssumption allows.    *)
(***************************************************************************)
EXTENDS BtuCommands, SequenceTheorems, WellFoundedInduction, TLAPS

\* op waits in, or has a copy in, control block c.
Holds(c, op) == \E q \in {c.xmit, c.cmpl} : \E i \in 1 .. Len(q) : q[i] = op

\* What calls of btu_hcif_send_cmd make of control block c: nothing is lost,
\* what still waits waits for the window, and the copies are the old ones under
\* the old timer or the timer has been started afresh.
Flows(c, r) ==
    /\ r \in ControlBlocks
    /\ r.xmit # <<>> => r.window = 0
    /\ \/ r.cmpl = c.cmpl /\ r.timer = c.timer
       \/ r.cmpl # <<>> /\ r.timer = CmdTimeout
    /\ \A op \in UserOps : Holds(c, op) => Holds(r, op)

\* The constants, one by one.
LEMMA Constants ==
    /\ MaxCredits \in Nat \ {0} /\ CmdTimeout \in Nat \ {0} /\ ResetTimeout \in Nat \ {0}
    /\ ReplyTimeout \in Nat \ {0} /\ MaxTimedOut \in Nat \ {0}
    /\ MaxGuard \in Nat /\ ResetTimeout <= MaxGuard /\ ReplyTimeout <= MaxGuard
    /\ CmdTimeout >= MaxGuard + ReplyTimeout
  BY CommandsAssumption, GuardAssumption DEF MaxGuard

\* A queue cut in two.
LEMMA Cut ==
    ASSUME NEW S, NEW s \in Seq(S), NEW n \in 0 .. Len(s)
    PROVE  /\ SubSeq(s, 1, n) \in Seq(S) /\ SubSeq(s, n + 1, Len(s)) \in Seq(S)
           /\ Len(SubSeq(s, 1, n)) = n /\ Len(SubSeq(s, n + 1, Len(s))) = Len(s) - n
           /\ \A i \in 1 .. Len(s) :
                  IF i <= n THEN SubSeq(s, 1, n)[i] = s[i]
                  ELSE i - n \in 1 .. Len(s) - n /\ SubSeq(s, n + 1, Len(s))[i - n] = s[i]
<1>1. Len(s) \in Nat /\ \A i \in 1 .. Len(s) : s[i] \in S
  BY ElementOfSeq, LenProperties
<1>2. /\ SubSeq(s, 1, n) \in Seq(S) /\ Len(SubSeq(s, 1, n)) = n
      /\ \A i \in 1 .. n : SubSeq(s, 1, n)[i] = s[i]
  <2>1. \A i \in 1 .. n : s[i] \in S
    BY <1>1
  <2>2. /\ SubSeq(s, 1, n) \in Seq(S)
        /\ Len(SubSeq(s, 1, n)) = IF 1 <= n THEN n - 1 + 1 ELSE 0
        /\ \A i \in 1 .. n - 1 + 1 : SubSeq(s, 1, n)[i] = s[1 + i - 1]
    BY <1>1, <2>1, SubSeqProperties
  <2>3. QED
    BY <1>1, <2>2
<1>3. /\ SubSeq(s, n + 1, Len(s)) \in Seq(S) /\ Len(SubSeq(s, n + 1, Len(s))) = Len(s) - n
      /\ \A i \in 1 .. Len(s) - n : SubSeq(s, n + 1, Len(s))[i] = s[n + i]
  <2>1. \A i \in n + 1 .. Len(s) : s[i] \in S
    BY <1>1
  <2>2. /\ SubSeq(s, n + 1, Len(s)) \in Seq(S)
        /\ Len(SubSeq(s, n + 1, Len(s))) = IF n + 1 <= Len(s) THEN Len(s) - (n + 1) + 1 ELSE 0
        /\ \A i \in 1 .. Len(s) - (n + 1) + 1 : SubSeq(s, n + 1, Len(s))[i] = s[n + 1 + i - 1]
    BY <1>1, <2>1, SubSeqProperties
  <2>3. QED
    BY <1>1, <2>2
<1>4. QED
  BY <1>1, <1>2, <1>3

\* btu_hcif_send_cmd with a command that is kept, or with none.
LEMMA SendFlows ==
    ASSUME NEW c \in ControlBlocks, NEW d, NEW p \in Seq(Kept)
    PROVE  /\ Flows(c, SendCmd(c, d, p))
           /\ \A op \in UserOps : p = <<op>> => Holds(SendCmd(c, d, p), op)
<1> DEFINE line   == c.xmit \o p
           count  == IF c.xmit = <<>> THEN 0 ELSE Len(line)
           window == IF c.window = 0 /\ d = "wait_reset" THEN count + 1 ELSE c.window
           n      == IF window < Len(line) THEN window ELSE Len(line)
           sent   == SubSeq(line, 1, n)
           rest   == SubSeq(line, n + 1, Len(line))
           r      == SendCmd(c, d, p)
<1>1. /\ c.xmit \in Seq(Kept) /\ c.cmpl \in Seq(Kept) /\ c.lower \in Seq(Ops)
      /\ c.window \in Nat /\ c.timer \in Off .. CmdTimeout
  BY DEF ControlBlocks
<1>2. line \in Seq(Kept) /\ Len(line) \in Nat
  BY <1>1, ConcatProperties, LenProperties
<1>3. window \in Nat /\ n \in 0 .. Len(line) /\ window - n \in Nat /\ (n # Len(line) => window - n = 0)
  BY <1>1, <1>2, SMTT(20)
<1> HIDE DEF line, n, window
<1>4. /\ sent \in Seq(Kept) /\ rest \in Seq(Kept) /\ Len(sent) = n /\ Len(rest) = Len(line) - n
      /\ \A i \in 1 .. Len(line) :
             IF i <= n THEN sent[i] = line[i]
             ELSE i - n \in 1 .. Len(line) - n /\ rest[i - n] = line[i]
  BY <1>2, <1>3, Cut
<1> HIDE DEF sent, rest
<1>5. Stored(sent) = sent
  <2>1. sent # <<"RESET">>
    <3>1. SUFFICES ASSUME sent = <<"RESET">> PROVE FALSE
      OBVIOUS
    <3>2. Len(sent) = 1 /\ sent[1] = "RESET"
      BY <3>1
    <3>3. 1 \in 1 .. Len(sent) /\ sent \in Seq(Kept)
      BY <1>4, <3>2
    <3>4. sent[1] \in Kept
      BY <3>3, ElementOfSeq
    <3>5. QED
      BY <3>2, <3>4 DEF Kept
  <2>2. QED
    BY <2>1 DEF Stored
<1>6. r = [xmit |-> rest, cmpl |-> c.cmpl \o sent, window |-> window - n,
           timer |-> IF sent = <<>> THEN c.timer ELSE CmdTimeout, lower |-> c.lower \o sent]
  BY <1>5, Zenon DEF SendCmd, line, window, n, sent, rest
<1> HIDE DEF r
<1>7. r \in ControlBlocks
  <2>1. c.cmpl \o sent \in Seq(Kept)
    BY <1>1, <1>4, ConcatProperties
  <2>2. sent \in Seq(Ops)
    BY <1>4 DEF Kept
  <2>3. c.lower \o sent \in Seq(Ops)
    BY <1>1, <2>2, ConcatProperties
  <2>4. (IF sent = <<>> THEN c.timer ELSE CmdTimeout) \in Off .. CmdTimeout
    BY <1>1, Constants DEF Off
  <2>5. QED
    BY <1>3, <1>4, <1>6, <2>1, <2>3, <2>4, Zenon DEF ControlBlocks
<1>8. r.xmit # <<>> => r.window = 0
  <2>1. SUFFICES ASSUME rest # <<>> PROVE window - n = 0
    BY <1>6
  <2>2. Len(rest) # 0
    BY <1>4, <2>1, EmptySeq
  <2>3. QED
    BY <1>2, <1>3, <1>4, <2>2
<1>9. \/ r.cmpl = c.cmpl /\ r.timer = c.timer
      \/ r.cmpl # <<>> /\ r.timer = CmdTimeout
  <2>1. CASE sent = <<>>
    BY <1>1, <1>6, <2>1, ConcatEmptySeq
  <2>2. CASE sent # <<>>
    <3>1. Len(sent) \in Nat \ {0} /\ Len(c.cmpl) \in Nat
      BY <1>1, <1>4, <2>2, EmptySeq, LenProperties, Zenon
    <3>2. Len(c.cmpl \o sent) = Len(c.cmpl) + Len(sent)
      BY <1>1, <1>4, ConcatProperties, Zenon
    <3>3. c.cmpl \o sent # <<>>
      BY <3>1, <3>2
    <3>4. QED
      BY <1>6, <2>2, <3>3
  <2>3. QED
    BY <2>1, <2>2
<1>10. ASSUME NEW op, NEW i \in 1 .. Len(line), line[i] = op PROVE Holds(r, op)
  <2>1. CASE i <= n
    <3>1. Len(c.cmpl) \in Nat /\ i \in 1 .. Len(sent) /\ sent[i] = op
      BY <1>1, <1>2, <1>3, <1>4, <1>10, <2>1, LenProperties, SMTT(20)
    <3>2. /\ Len(c.cmpl \o sent) = Len(c.cmpl) + Len(sent)
          /\ \A j \in 1 .. Len(c.cmpl) + Len(sent) : (c.cmpl \o sent)[j] =
                 IF j <= Len(c.cmpl) THEN c.cmpl[j] ELSE sent[j - Len(c.cmpl)]
      BY <1>1, <1>4, ConcatProperties, Zenon
    <3>3. Len(c.cmpl) + i \in 1 .. Len(c.cmpl \o sent) /\ (c.cmpl \o sent)[Len(c.cmpl) + i] = op
      BY <1>3, <1>2, <1>4, <3>1, <3>2
    <3>4. QED
      BY <1>6, <3>3, Zenon DEF Holds
  <2>2. CASE ~(i <= n)
    <3>1. i - n \in 1 .. Len(rest) /\ rest[i - n] = op
      BY <1>4, <1>10, <2>2
    <3>2. QED
      BY <1>6, <3>1 DEF Holds
  <2>3. QED
    BY <2>1, <2>2
<1>11. /\ Len(line) = Len(c.xmit) + Len(p) /\ Len(c.xmit) \in Nat /\ Len(p) \in Nat
       /\ \A i \in 1 .. Len(c.xmit) + Len(p) :
              line[i] = IF i <= Len(c.xmit) THEN c.xmit[i] ELSE p[i - Len(c.xmit)]
  BY <1>1, ConcatProperties, LenProperties, Zenon DEF line
<1>12. ASSUME NEW op, Holds(c, op) PROVE Holds(r, op)
  <2>1. CASE \E i \in 1 .. Len(c.xmit) : c.xmit[i] = op
    <3>1. PICK i \in 1 .. Len(c.xmit) : c.xmit[i] = op
      BY <2>1
    <3>2. i \in 1 .. Len(line) /\ line[i] = op
      BY <1>11, <3>1
    <3>3. QED
      BY <1>10, <3>2
  <2>2. CASE \E i \in 1 .. Len(c.cmpl) : c.cmpl[i] = op
    <3>1. PICK i \in 1 .. Len(c.cmpl) : c.cmpl[i] = op
      BY <2>2
    <3>2. /\ Len(c.cmpl \o sent) = Len(c.cmpl) + Len(sent)
          /\ \A j \in 1 .. Len(c.cmpl) + Len(sent) : (c.cmpl \o sent)[j] =
                 IF j <= Len(c.cmpl) THEN c.cmpl[j] ELSE sent[j - Len(c.cmpl)]
      BY <1>1, <1>4, ConcatProperties, Zenon
    <3>3. Len(c.cmpl) \in Nat /\ Len(sent) \in Nat
      BY <1>1, <1>4, LenProperties
    <3>4. i \in 1 .. Len(c.cmpl \o sent) /\ (c.cmpl \o sent)[i] = op
      BY <3>1, <3>2, <3>3
    <3>5. QED
      BY <1>6, <3>4 DEF Holds
  <2>3. QED
    BY <1>12, <2>1, <2>2 DEF Holds
<1>13. ASSUME NEW op, p = <<op>> PROVE Holds(r, op)
  <2>1. Len(p) = 1 /\ p[1] = op
    BY <1>13
  <2>2. Len(line) \in 1 .. Len(line) /\ line[Len(line)] = op
    BY <1>11, <2>1
  <2>3. QED
    BY <1>10, <2>2
<1>14. QED
  BY <1>7, <1>8, <1>9, <1>12, <1>13 DEF Flows, r

\* Calls that follow each other.
LEMMA FlowsTwice ==
    ASSUME NEW c, NEW r, NEW q, Flows(c, r), Flows(r, q) PROVE Flows(c, q)
  BY DEF Flows

\* Whatever is in s, and is not op, is in t.
KeepsOthers(s, t, op) ==
    \A o : o # op /\ (\E i \in 1 .. Len(s) : s[i] = o) => \E i \in 1 .. Len(t) : t[i] = o

\* The search of btu_hcif_command_complete_evt takes out at most a copy of op.
LEMMA RemoveFirstKeeps ==
    ASSUME NEW S, NEW s \in Seq(S), NEW op
    PROVE  RemoveFirst(s, op) \in Seq(S) /\ KeepsOthers(s, RemoveFirst(s, op), op)
<1>1. CASE ~ \E i \in 1 .. Len(s) : s[i] = op
  BY <1>1 DEF RemoveFirst, KeepsOthers
<1>2. CASE \E i \in 1 .. Len(s) : s[i] = op
  <2> DEFINE I == {i \in 1 .. Len(s) : s[i] = op}
             k == Min(I)
             left == SubSeq(s, 1, k - 1)
             right == SubSeq(s, k + 1, Len(s))
  <2>1. Len(s) \in Nat /\ \A i \in 1 .. Len(s) : s[i] \in S
    BY ElementOfSeq, LenProperties
  <2>2. I # {} /\ I \subseteq Nat
    BY <1>2, <2>1
  <2>3. \E x \in I : \A y \in I : ~(<<y, x>> \in OpToRel(<, Nat))
    BY <2>2, NatLessThanWellFounded, WFMin, Zenon
  <2>4. \E x \in I : \A y \in I : x =< y
    <3>1. PICK x \in I : \A y \in I : ~(<<y, x>> \in OpToRel(<, Nat))
      BY <2>3, Zenon
    <3>2. ASSUME NEW y \in I PROVE x =< y
      <4>1. x \in Nat /\ y \in Nat
        BY <2>2
      <4>2. ~(y < x)
        BY <3>1, <4>1, Zenon DEF OpToRel
      <4>3. QED
        BY <4>1, <4>2
    <3>3. QED
      BY <3>2
  <2>5. k \in I
    BY <2>4 DEF Min
  <2>6. k \in 1 .. Len(s) /\ s[k] = op
    BY <2>5
  <2>7. RemoveFirst(s, op) = left \o right
    BY <1>2, <2>2, Zenon DEF RemoveFirst, RemoveAt, SelectInSeq
  <2> HIDE DEF k
  <2>8. /\ left \in Seq(S) /\ Len(left) = k - 1
        /\ \A i \in 1 .. k - 1 : left[i] = s[i]
    <3>1. \A i \in 1 .. k - 1 : s[i] \in S
      BY <2>1, <2>6
    <3>2. k - 1 \in Int
      BY <2>1, <2>6
    <3>3. /\ left \in Seq(S) /\ Len(left) = IF 1 <= k - 1 THEN k - 1 - 1 + 1 ELSE 0
          /\ \A i \in 1 .. k - 1 - 1 + 1 : left[i] = s[1 + i - 1]
      BY <3>1, <3>2, SubSeqProperties
    <3>4. QED
      BY <2>1, <2>6, <3>3
  <2>9. /\ right \in Seq(S) /\ Len(right) = Len(s) - k
        /\ \A i \in 1 .. Len(s) - k : right[i] = s[k + i]
    BY <2>1, <2>6, Cut
  <2> HIDE DEF left, right
  <2>10. /\ left \o right \in Seq(S) /\ Len(left \o right) = Len(s) - 1
         /\ \A i \in 1 .. Len(s) - 1 :
                (left \o right)[i] = IF i <= k - 1 THEN left[i] ELSE right[i - (k - 1)]
    <3>1. /\ left \o right \in Seq(S) /\ Len(left \o right) = Len(left) + Len(right)
          /\ \A i \in 1 .. Len(left) + Len(right) : (left \o right)[i] =
                 IF i <= Len(left) THEN left[i] ELSE right[i - Len(left)]
      BY <2>8, <2>9, ConcatProperties, Zenon
    <3>2. QED
      BY <2>1, <2>6, <2>8, <2>9, <3>1, SMTT(20)
  <2>11. ASSUME NEW o, o # op, NEW i \in 1 .. Len(s), s[i] = o
         PROVE  \E j \in 1 .. Len(left \o right) : (left \o right)[j] = o
    <3>1. CASE i < k
      <4>1. i \in 1 .. Len(left \o right) /\ (left \o right)[i] = o
        BY <2>1, <2>6, <2>8, <2>10, <2>11, <3>1, SMTT(20)
      <4>2. QED
        BY <4>1
    <3>2. CASE i > k
      <4>1. i - 1 \in 1 .. Len(left \o right) /\ ~(i - 1 <= k - 1) /\ i - 1 - (k - 1) = i - k
        BY <2>1, <2>6, <2>10, <3>2, SMTT(20)
      <4>2. i - k \in 1 .. Len(s) - k /\ k + (i - k) = i
        BY <2>1, <2>6, <3>2
      <4>3. (left \o right)[i - 1] = o
        BY <2>9, <2>10, <2>11, <4>1, <4>2, Zenon
      <4>4. QED
        BY <4>1, <4>3
    <3>3. QED
      BY <2>1, <2>6, <2>11, <3>1, <3>2, SMTT(20)
  <2>12. QED
    BY <2>7, <2>10, <2>11, Zenon DEF KeepsOthers
<1>3. QED
  BY <1>1, <1>2

\* HCI_RESET, sent on flushed queues, goes straight out and leaves no copy.
LEMMA ResetSent ==
    ASSUME NEW c \in ControlBlocks
    PROVE  SendCmd(Flush(c), "wait_reset", <<"RESET">>)
             = [xmit |-> <<>>, cmpl |-> <<>>, window |-> 0, timer |-> c.timer,
                lower |-> c.lower \o <<"RESET">>]
<1> DEFINE f == Flush(c)
           p == <<"RESET">>
<1>1. f.xmit = <<>> /\ f.cmpl = <<>> /\ f.window = 0 /\ f.timer = c.timer /\ f.lower = c.lower
  BY DEF Flush, ControlBlocks
<1>2. p \in Seq({"RESET"}) /\ Len(p) = 1 /\ p[1] = "RESET"
  OBVIOUS
<1>3. <<>> \o p = p
  BY <1>2, ConcatEmptySeq
<1> HIDE DEF p
<1>4. SubSeq(p, 1, Len(p)) = p /\ SubSeq(p, 1 + 1, Len(p)) = <<>>
  <2>1. SubSeq(p, 1, Len(p)) = p
    BY <1>2, SubSeqFull
  <2>2. 1 + 1 \in Int /\ Len(p) \in Int /\ Len(p) < 1 + 1
    BY <1>2
  <2>3. SubSeq(p, 1 + 1, Len(p)) = <<>>
    BY <2>2, SubSeqEmpty
  <2>4. QED
    BY <2>1, <2>3
<1>5. <<>> \o <<>> = <<>>
  BY EmptySeq, ConcatEmptySeq
<1> HIDE DEF f
<1>6. Stored(p) = <<>>
  BY DEF Stored, p
<1>7. SendCmd(f, "wait_reset", p)
        = [xmit |-> <<>>, cmpl |-> <<>>, window |-> 0, timer |-> c.timer, lower |-> c.lower \o p]
  <2> DEFINE line   == f.xmit \o p
             window == IF f.window = 0 /\ "wait_reset" = "wait_reset"
                       THEN (IF f.xmit = <<>> THEN 0 ELSE Len(line)) + 1 ELSE f.window
             n      == IF window < Len(line) THEN window ELSE Len(line)
  <2>1. line = p /\ window = 1 /\ n = 1
    BY <1>1, <1>2, <1>3
  <2>2. SendCmd(f, "wait_reset", p)
          = [xmit |-> SubSeq(line, n + 1, Len(line)), cmpl |-> f.cmpl \o Stored(SubSeq(line, 1, n)),
             window |-> window - n,
             timer |-> IF Stored(SubSeq(line, 1, n)) = <<>> THEN f.timer ELSE CmdTimeout,
             lower |-> f.lower \o SubSeq(line, 1, n)]
    BY DEF SendCmd
  <2> HIDE DEF line, window, n
  <2>3. SubSeq(line, n + 1, Len(line)) = <<>> /\ SubSeq(line, 1, n) = p /\ window - n = 0
    <3>1. n = Len(p) /\ n + 1 = 1 + 1 /\ window - n = 0
      BY <1>2, <2>1
    <3>2. QED
      BY <1>4, <2>1, <3>1, Zenon
  <2>4. QED
    BY <1>1, <1>5, <1>6, <2>2, <2>3, Zenon
<1>8. QED
  BY <1>7 DEF f, p

\* "if more commands in queue restart timer"
LEMMA Retimed ==
    ASSUME NEW c \in ControlBlocks
    PROVE  /\ Retime(c) \in ControlBlocks
           /\ Retime(c).cmpl = c.cmpl /\ Retime(c).xmit = c.xmit
           /\ Retime(c).timer = IF c.cmpl = <<>> THEN Off ELSE CmdTimeout
<1>1. (IF c.cmpl = <<>> THEN Off ELSE CmdTimeout) \in Off .. CmdTimeout
  BY Constants DEF Off
<1>2. QED
  BY <1>1 DEF Retime, ControlBlocks

\* The ways a handler of Command Complete moves the start-up.
SetupMove(op) ==
    \/ UNCHANGED <<dev, guard, refused>>
    \/ /\ op = "RESET" /\ dev = "wait_reset" /\ dev' = "wait_after"
       /\ guard' = ReplyTimeout /\ UNCHANGED refused
    \/ op # "RESET" /\ guard' = ReplyTimeout /\ UNCHANGED <<dev, refused>>
    \/ op # "RESET" /\ guard' = Off /\ dev' = "ready" /\ refused' = FALSE
    \/ op # "RESET" /\ guard' = Off /\ UNCHANGED dev /\ refused' = TRUE

\* btu_hcif_hdl_command_complete sends commands and moves the start-up.
LEMMA HdlFlows ==
    ASSUME NEW c \in ControlBlocks, NEW op \in Ops, NEW ok \in BOOLEAN,
           HdlCommandComplete(c, op, ok)
    PROVE  Flows(c, cb') /\ SetupMove(op)
<1>1. /\ <<>> \in Seq(Kept) /\ <<"BUF">> \in Seq(Kept) /\ <<"VER">> \in Seq(Kept)
      /\ <<"FEAT">> \in Seq(Kept) /\ <<"AUX">> \in Seq(Kept)
  BY DEF Kept, Ops, SetupOps
<1>2. ASSUME NEW r \in ControlBlocks, NEW d, NEW p \in Seq(Kept)
      PROVE  Flows(r, SendCmd(r, d, p)) /\ SendCmd(r, d, p) \in ControlBlocks
  BY SendFlows DEF Flows
<1>3. ASSUME NEW r \in ControlBlocks, NEW d, NEW p \in Seq(Kept)
      PROVE  Flows(r, SendCmd(SendCmd(r, d, p), d, <<>>))
  BY <1>1, <1>2, FlowsTwice, Zenon
<1>4. CASE op = "RESET" /\ ResetComplete(c)
  BY <1>1, <1>3, <1>4, Zenon DEF ResetComplete, SetupMove
<1>5. CASE op = "BUF" /\ BufSizeComplete(c, ok)
  <2>1. PICK c1 \in {IF ok THEN SendCmd(c, dev, <<"AUX">>) ELSE c} :
            \E c2 \in {SendCmd(c1, dev, <<"VER">>)} : \E c3 \in {SendCmd(c2, dev, <<"AUX">>)} :
                cb' = SendCmd(c3, dev, <<>>)
    BY <1>5 DEF BufSizeComplete
  <2> DEFINE c2 == SendCmd(c1, dev, <<"VER">>)
             c3 == SendCmd(c2, dev, <<"AUX">>)
  <2>2. c1 \in ControlBlocks /\ (c1 = c \/ Flows(c, c1))
    BY <1>1, <1>2, Zenon
  <2>3. Flows(c1, c2) /\ c2 \in ControlBlocks
    BY <1>1, <1>2, <2>2, Zenon
  <2>4. Flows(c2, c3) /\ c3 \in ControlBlocks
    BY <1>1, <1>2, <2>3, Zenon
  <2>5. cb' = SendCmd(c3, dev, <<>>)
    BY <2>1
  <2> HIDE DEF c2, c3
  <2>6. Flows(c3, cb')
    BY <1>1, <1>2, <2>4, <2>5, Zenon
  <2>7. Flows(c1, cb')
    BY <2>3, <2>4, <2>6, FlowsTwice
  <2>8. Flows(c, cb')
    BY <2>2, <2>7, FlowsTwice
  <2>9. QED
    BY <1>5, <2>8 DEF BufSizeComplete, SetupMove
<1>6. CASE op = "VER" /\ LocalVersionComplete(c)
  BY <1>1, <1>3, <1>6, Zenon DEF LocalVersionComplete, SetupMove
<1>7. CASE op = "FEAT" /\ LocalFeaturesComplete(c, ok)
  BY <1>1, <1>2, <1>3, <1>7, Zenon DEF LocalFeaturesComplete, SetupMove
<1>8. CASE cb' = SendCmd(c, dev, <<>>) /\ UNCHANGED <<dev, guard, refused>>
  BY <1>1, <1>2, <1>8, Zenon DEF SetupMove
<1>9. QED
  BY <1>4, <1>5, <1>6, <1>7, <1>8, Zenon DEF HdlCommandComplete

\* The part of the invariant that is about the timers and the queues.
FlowInv ==
    /\ cb \in ControlBlocks /\ dev \in {"wait_reset", "wait_after", "ready"}
    /\ guard \in Off .. MaxGuard
    /\ StoredAreTimed /\ NothingHeldBack /\ StaleTimerGuarded /\ GuardFirst

\* Every handler that ends in btu_hcif_send_cmd keeps it: the handler starts from
\* copies and timer as they were, or from a timer that has just been set anew.
LEMMA HandlerKeeps ==
    ASSUME FlowInv, NEW c \in ControlBlocks, NEW op, Flows(c, cb'), SetupMove(op),
           \/ /\ c.cmpl = cb.cmpl /\ c.timer = cb.timer /\ guard # 0
              /\ op = "RESET" \/ UNCHANGED <<dev, guard, refused>>
           \/ c.timer = IF c.cmpl = <<>> THEN Off ELSE CmdTimeout
    PROVE  FlowInv'
<1>1. /\ cb' \in ControlBlocks /\ (cb'.xmit # <<>> => cb'.window = 0)
      /\ \/ cb'.cmpl = c.cmpl /\ cb'.timer = c.timer
         \/ cb'.cmpl # <<>> /\ cb'.timer = CmdTimeout
  BY DEF Flows
<1>2. /\ cb.timer \in Off .. CmdTimeout /\ c.timer \in Off .. CmdTimeout
      /\ cb'.timer \in Off .. CmdTimeout
  BY <1>1 DEF FlowInv, ControlBlocks
<1>3. dev' \in {"wait_reset", "wait_after", "ready"} /\ guard' \in Off .. MaxGuard
  BY Constants DEF FlowInv, SetupMove, Off
<1>4. StoredAreTimed'
  BY <1>1, <1>2, Constants DEF FlowInv, StoredAreTimed, Off
<1>5. NothingHeldBack'
  BY <1>1 DEF NothingHeldBack
<1>6. StaleTimerGuarded'
  BY <1>1, Constants DEF FlowInv, StaleTimerGuarded, SetupMove, Off
<1>7. GuardFirst'
  <2>1. SUFFICES ASSUME dev' # "ready", ~refused'
                 PROVE  /\ guard' # Off
                        /\ cb'.cmpl # <<>> /\ Head(cb'.cmpl) \in SetupOps =>
                               IF dev' = "wait_reset" THEN cb'.timer >= guard' + ReplyTimeout
                               ELSE cb'.timer > guard'
    BY DEF GuardFirst
  <2>2. dev # "ready" /\ ~refused
    BY <2>1 DEF SetupMove
  <2>3. guard' # Off
    BY <2>1, <2>2, Constants DEF FlowInv, GuardFirst, SetupMove, Off
  <2>4. CASE cb'.timer = CmdTimeout
    BY <1>3, <2>3, <2>4, Constants, SMTT(20) DEF Off
  <2>5. CASE cb'.timer # CmdTimeout /\ cb'.cmpl # <<>>
    <3>1. cb'.cmpl = c.cmpl /\ cb'.timer = c.timer /\ c.cmpl = cb.cmpl /\ c.timer = cb.timer
      BY <1>1, <2>5
    <3>2. guard # 0 /\ (op = "RESET" \/ UNCHANGED <<dev, guard, refused>>)
      BY <1>1, <2>5
    <3>3. CASE UNCHANGED <<dev, guard, refused>>
      BY <2>2, <2>3, <3>1, <3>3, Zenon DEF FlowInv, GuardFirst
    <3>4. CASE op = "RESET" /\ dev = "wait_reset" /\ dev' = "wait_after" /\ guard' = ReplyTimeout
      <4>1. Head(cb.cmpl) \in SetupOps => cb.timer >= guard + ReplyTimeout
        BY <2>2, <2>5, <3>1, <3>4, Zenon DEF FlowInv, GuardFirst
      <4>2. guard \in Nat /\ guard >= 1
        BY <2>2, <3>2 DEF FlowInv, GuardFirst, Off
      <4>3. QED
        BY <1>2, <3>1, <3>4, <4>1, <4>2, <2>3, Constants, SMTT(20) DEF Off
    <3>5. QED
      BY <3>2, <3>3, <3>4 DEF SetupMove
  <2>6. QED
    BY <2>3, <2>4, <2>5
<1>8. QED
  BY <1>1, <1>3, <1>4, <1>5, <1>6, <1>7, Zenon DEF FlowInv

\* What the stack has asked for stays in the queues when it was there before the
\* calls of btu_hcif_send_cmd.
LEMMA HandlerTracks ==
    ASSUME NEW c, Flows(c, cb'),
           alive' /\ ~mixed' => \A op \in UserOps : st'[op] = "asked" => Holds(c, op)
    PROVE  RequestsTracked'
  BY DEF Flows, RequestsTracked, Tracked, Holds

\* The first reset of btm_dev_reset.
LEMMA InitKeeps == CmdInit => CmdInv
<1> SUFFICES ASSUME CmdInit PROVE CmdInv
  OBVIOUS
<1> DEFINE z == [xmit |-> <<>>, cmpl |-> <<>>, window |-> 1, timer |-> Off, lower |-> <<>>]
<1>1. z \in ControlBlocks
  <2>1. Off \in Off .. CmdTimeout
    BY Constants DEF Off
  <2>2. QED
    BY <2>1, EmptySeq DEF ControlBlocks
<1>2. cb = [xmit |-> <<>>, cmpl |-> <<>>, window |-> 0, timer |-> Off, lower |-> <<>> \o <<"RESET">>]
  <2>1. cb = SendCmd(Flush(z), "wait_reset", <<"RESET">>) /\ z.timer = Off /\ z.lower = <<>>
    BY DEF CmdInit
  <2> HIDE DEF z
  <2>2. QED
    BY <1>1, <2>1, ResetSent, Zenon
<1>3. <<>> \o <<"RESET">> \in Seq(Ops)
  BY EmptySeq, ConcatProperties DEF Ops
<1>4. cb \in ControlBlocks
  <2>1. Off \in Off .. CmdTimeout
    BY Constants DEF Off
  <2>2. QED
    BY <1>2, <1>3, <2>1, EmptySeq, Zenon DEF ControlBlocks
<1>5. dev = "wait_reset" /\ guard = ResetTimeout
  BY DEF CmdInit
<1>6. guard \in Off .. MaxGuard /\ guard # Off
  BY <1>5, Constants DEF Off
<1>7. StoredAreTimed /\ NothingHeldBack /\ StaleTimerGuarded /\ GuardFirst
  BY <1>2, <1>5, <1>6 DEF StoredAreTimed, NothingHeldBack, StaleTimerGuarded, GuardFirst
<1>8. st = [o \in UserOps |-> "idle"] /\ tout = 0
  BY DEF CmdInit
<1>9. RequestsTracked
  BY <1>8 DEF RequestsTracked
<1>10. tout \in 0 .. MaxTimedOut /\ tout < MaxTimedOut
  BY <1>8, Constants
<1>11. QED
  BY <1>4, <1>5, <1>6, <1>7, <1>8, <1>9, <1>10, Zenon DEF CmdInv

\* btm_dev_reset throws the queues away and forgets what was asked for.
LEMMA DevResetKeeps == ASSUME CmdInv, DevReset PROVE FlowInv' /\ RequestsTracked'
                                  /\ st' \in [UserOps -> {"idle", "asked"}]
<1>1. cb \in ControlBlocks /\ cb.lower \in Seq(Ops) /\ cb.timer \in Off .. CmdTimeout
  BY DEF CmdInv, ControlBlocks
<1>2. cb' = [xmit |-> <<>>, cmpl |-> <<>>, window |-> 0, timer |-> cb.timer,
             lower |-> cb.lower \o <<"RESET">>]
  BY <1>1, ResetSent DEF DevReset
<1>3. cb.lower \o <<"RESET">> \in Seq(Ops)
  BY <1>1, ConcatProperties DEF Ops
<1>4. cb' \in ControlBlocks
  BY <1>1, <1>2, <1>3, EmptySeq, Zenon DEF ControlBlocks
<1>5. dev' = "wait_reset" /\ guard' = ResetTimeout /\ st' = [o \in UserOps |-> "idle"]
  BY DEF DevReset
<1>6. guard' \in Off .. MaxGuard /\ guard' # Off
  BY <1>5, Constants DEF Off
<1>7. (StoredAreTimed /\ NothingHeldBack /\ StaleTimerGuarded /\ GuardFirst)'
  BY <1>2, <1>5, <1>6 DEF StoredAreTimed, NothingHeldBack, StaleTimerGuarded, GuardFirst
<1>8. RequestsTracked'
  BY <1>5 DEF RequestsTracked
<1>9. QED
  BY <1>4, <1>5, <1>6, <1>7, <1>8, Zenon DEF FlowInv

\* A command of the stack.
LEMMA IssueKeeps == ASSUME CmdInv, NEW op \in UserOps, Issue(op) PROVE CmdInv'
<1>1. /\ FlowInv /\ RequestsTracked /\ st \in [UserOps -> {"idle", "asked"}]
      /\ cb \in ControlBlocks /\ guard # 0 /\ UNCHANGED <<dev, guard, refused>>
      /\ UNCHANGED <<tout, alive, mixed>> /\ st' = [st EXCEPT ![op] = "asked"]
      /\ cb' = SendCmd(cb, dev, <<op>>)
  BY DEF CmdInv, FlowInv, Issue, NoneDue
<1>2. <<op>> \in Seq(Kept)
  BY CommandsAssumption DEF Kept, Ops
<1>3. Flows(cb, cb') /\ Holds(cb', op)
  BY <1>1, <1>2, SendFlows, Zenon
<1>4. FlowInv'
  BY <1>1, <1>3, HandlerKeeps DEF SetupMove
<1>5. RequestsTracked'
  <2>1. SUFFICES ASSUME alive', ~mixed', NEW o \in UserOps, st'[o] = "asked" PROVE Holds(cb', o)
    BY DEF RequestsTracked, Tracked, Holds
  <2>2. CASE o = op
    BY <1>3, <2>2
  <2>3. CASE o # op
    <3>1. st[o] = "asked" /\ alive /\ ~mixed
      BY <1>1, <2>1, <2>3, Zenon
    <3>2. Holds(cb, o)
      BY <1>1, <3>1 DEF RequestsTracked, Tracked, Holds
    <3>3. QED
      BY <1>3, <3>2 DEF Flows
  <2>4. QED
    BY <2>2, <2>3
<1>6. st' \in [UserOps -> {"idle", "asked"}]
  BY <1>1
<1>7. tout' \in 0 .. MaxTimedOut /\ (alive' => tout' < MaxTimedOut)
  BY <1>1 DEF CmdInv
<1>8. QED
  BY <1>4, <1>5, <1>6, <1>7, Zenon DEF CmdInv, FlowInv

\* The answered command is told; the oldest of the lower layer's is gone.
LEMMA AnswerTypes ==
    ASSUME CmdInv, NEW n \in 0 .. MaxCredits, Answered(n)
    PROVE  /\ Head(cb.lower) \in Ops /\ [cb EXCEPT !.window = n, !.lower = Tail(@)] \in ControlBlocks
           /\ st' \in [UserOps -> {"idle", "asked"}]
           /\ \A o \in UserOps : st'[o] = "asked" => o # Head(cb.lower) /\ st[o] = "asked"
           /\ tout' \in 0 .. MaxTimedOut /\ tout' < MaxTimedOut /\ alive /\ guard # 0
<1>1. /\ cb \in ControlBlocks /\ cb.lower \in Seq(Ops) /\ cb.lower # <<>>
      /\ st \in [UserOps -> {"idle", "asked"}]
  BY DEF CmdInv, ControlBlocks, Answered
<1>2. Head(cb.lower) \in Ops /\ Tail(cb.lower) \in Seq(Ops)
  BY <1>1, HeadTailProperties
<1>3. n \in Nat
  BY Constants
<1>4. [cb EXCEPT !.window = n, !.lower = Tail(@)] \in ControlBlocks
  BY <1>1, <1>2, <1>3, Zenon DEF ControlBlocks
<1>5. st' = [o \in UserOps |-> IF o = Head(cb.lower) THEN "idle" ELSE st[o]] /\ tout' = 0
      /\ alive /\ guard # 0
  BY DEF Answered, Told, NoneDue
<1>6. /\ st' \in [UserOps -> {"idle", "asked"}]
      /\ \A o \in UserOps : st'[o] = "asked" => o # Head(cb.lower) /\ st[o] = "asked"
  BY <1>1, <1>5
<1>7. tout' \in 0 .. MaxTimedOut /\ tout' < MaxTimedOut
  BY <1>5, Constants
<1>8. QED
  BY <1>2, <1>4, <1>5, <1>6, <1>7, Zenon

\* btu_hcif_command_complete_evt.
LEMMA CompleteKeeps ==
    ASSUME CmdInv, NEW n \in 0 .. MaxCredits, NEW ok \in BOOLEAN, CommandComplete(n, ok)
    PROVE  CmdInv'
<1> DEFINE op == Head(cb.lower)
           c  == [cb EXCEPT !.window = n, !.lower = Tail(@)]
           q  == [c EXCEPT !.cmpl = RemoveFirst(@, op)]
           c1 == IF op = "RESET" THEN c ELSE Retime(q)
<1>1. Answered(n) /\ HdlCommandComplete(c1, op, ok) /\ mixed' = mixed /\ alive' = alive
  BY Zenon DEF CommandComplete, Answered
<1>2. /\ op \in Ops /\ c \in ControlBlocks /\ st' \in [UserOps -> {"idle", "asked"}]
      /\ \A o \in UserOps : st'[o] = "asked" => o # op /\ st[o] = "asked"
      /\ tout' \in 0 .. MaxTimedOut /\ tout' < MaxTimedOut /\ alive /\ guard # 0
  BY <1>1, AnswerTypes, Zenon
<1>3. cb \in ControlBlocks /\ c.cmpl = cb.cmpl /\ c.xmit = cb.xmit /\ c.timer = cb.timer
  BY DEF CmdInv, ControlBlocks
<1> HIDE DEF op, c
<1>4. cb.cmpl \in Seq(Kept)
  BY <1>3 DEF ControlBlocks
<1>5. RemoveFirst(cb.cmpl, op) \in Seq(Kept) /\ KeepsOthers(cb.cmpl, RemoveFirst(cb.cmpl, op), op)
  BY <1>4, RemoveFirstKeeps
<1>6. q \in ControlBlocks /\ q.cmpl = RemoveFirst(cb.cmpl, op) /\ q.xmit = cb.xmit
  BY <1>2, <1>3, <1>5, Zenon DEF ControlBlocks
<1> HIDE DEF q
<1>7. /\ c1 \in ControlBlocks /\ c1.xmit = cb.xmit
      /\ \/ op = "RESET" /\ c1.cmpl = cb.cmpl /\ c1.timer = cb.timer
         \/ /\ c1.cmpl = RemoveFirst(cb.cmpl, op)
            /\ c1.timer = IF c1.cmpl = <<>> THEN Off ELSE CmdTimeout
  BY <1>2, <1>3, <1>6, Retimed, Zenon
<1> HIDE DEF c1
<1>8. Flows(c1, cb') /\ SetupMove(op)
  BY <1>1, <1>2, <1>7, HdlFlows, Zenon
<1>9. FlowInv'
  <2>1. FlowInv
    BY DEF CmdInv, FlowInv
  <2>2. QED
    BY <1>2, <1>7, <1>8, <2>1, HandlerKeeps, Zenon
<1>10. RequestsTracked'
  <2>1. SUFFICES ASSUME alive', ~mixed', NEW o \in UserOps, st'[o] = "asked" PROVE Holds(c1, o)
    BY <1>8, HandlerTracks, Zenon
  <2>2. o # op /\ Holds(cb, o)
    BY <1>1, <1>2, <2>1, Zenon DEF CmdInv, RequestsTracked, Tracked, Holds
  <2>3. QED
    BY <1>5, <1>7, <2>2, Zenon DEF Holds, KeepsOthers
<1>11. QED
  BY <1>2, <1>9, <1>10 DEF CmdInv, FlowInv

\* btu_hcif_command_status_evt: while no Command Status has met the copy of
\* another command, only the copy of the command it answers goes.
LEMMA StatusKeeps ==
    ASSUME CmdInv, NEW n \in 0 .. MaxCredits, CommandStatus(n) PROVE CmdInv'
<1> DEFINE op == Head(cb.lower)
           rest == IF cb.cmpl = <<>> THEN cb.cmpl ELSE Tail(cb.cmpl)
           c == [cb EXCEPT !.window = n, !.lower = Tail(@), !.cmpl = IF @ = <<>> THEN @ ELSE Tail(@)]
           c1 == Retime(c)
<1>1. /\ Answered(n) /\ cb' = SendCmd(c1, dev, <<>>) /\ alive' = alive
      /\ mixed' = (mixed \/ (cb.cmpl # <<>> /\ Head(cb.cmpl) # op))
      /\ UNCHANGED <<dev, guard, refused>>
  BY DEF CommandStatus, Answered
<1>2. /\ [cb EXCEPT !.window = n, !.lower = Tail(@)] \in ControlBlocks
      /\ st' \in [UserOps -> {"idle", "asked"}]
      /\ \A o \in UserOps : st'[o] = "asked" => o # op /\ st[o] = "asked"
      /\ tout' \in 0 .. MaxTimedOut /\ tout' < MaxTimedOut /\ alive /\ guard # 0
  BY <1>1, AnswerTypes, Zenon
<1>3. cb \in ControlBlocks /\ cb.cmpl \in Seq(Kept)
  BY DEF CmdInv, ControlBlocks
<1>4. /\ rest \in Seq(Kept)
      /\ cb.cmpl # <<>> => /\ Len(rest) = Len(cb.cmpl) - 1
                           /\ \A i \in 1 .. Len(rest) : rest[i] = cb.cmpl[i + 1]
  BY <1>3, HeadTailProperties
<1>5. c \in ControlBlocks /\ c.cmpl = rest /\ c.xmit = cb.xmit
  BY <1>2, <1>3, <1>4, Zenon DEF ControlBlocks
<1> HIDE DEF c, rest
<1>6. /\ c1 \in ControlBlocks /\ c1.cmpl = rest /\ c1.xmit = cb.xmit
      /\ c1.timer = IF c1.cmpl = <<>> THEN Off ELSE CmdTimeout
  BY <1>5, Retimed
<1> HIDE DEF c1
<1>7. Flows(c1, cb')
  BY <1>1, <1>6, SendFlows, EmptySeq, Zenon
<1>8. FlowInv'
  <2>1. FlowInv /\ SetupMove(op)
    BY <1>1 DEF CmdInv, FlowInv, SetupMove
  <2>2. QED
    BY <1>6, <1>7, <2>1, HandlerKeeps, Zenon
<1>9. RequestsTracked'
  <2>1. SUFFICES ASSUME alive', ~mixed', NEW o \in UserOps, st'[o] = "asked" PROVE Holds(c1, o)
    BY <1>7, HandlerTracks
  <2>2. ~mixed /\ (cb.cmpl # <<>> => Head(cb.cmpl) = op)
    BY <1>1, <2>1, Zenon
  <2>3. o # op /\ Holds(cb, o)
    BY <1>1, <1>2, <2>1, <2>2, Zenon DEF CmdInv, RequestsTracked, Tracked, Holds
  <2>4. CASE \E i \in 1 .. Len(cb.xmit) : cb.xmit[i] = o
    BY <1>6, <2>4 DEF Holds
  <2>5. CASE \E i \in 1 .. Len(cb.cmpl) : cb.cmpl[i] = o
    <3>1. PICK i \in 1 .. Len(cb.cmpl) : cb.cmpl[i] = o
      BY <2>5
    <3>2. cb.cmpl # <<>> /\ Len(cb.cmpl) \in Nat
      BY <1>3, <3>1, LenProperties, SMTT(20)
    <3>3. i # 1
      BY <1>3, <2>2, <2>3, <3>1, <3>2, SMTT(20)
    <3>4. i - 1 \in 1 .. Len(rest) /\ i - 1 + 1 = i
      BY <1>4, <3>1, <3>2, <3>3, SMTT(20)
    <3>5. rest[i - 1] = o
      BY <1>4, <3>1, <3>2, <3>4, Zenon
    <3>6. QED
      BY <1>6, <3>4, <3>5 DEF Holds
  <2>6. QED
    BY <2>3, <2>4, <2>5, Zenon DEF Holds
<1>10. QED
  BY <1>1, <1>2, <1>8, <1>9, Zenon DEF CmdInv, FlowInv

\* btu_hcif_cmd_timeout.
LEMMA TimeoutKeeps == ASSUME CmdInv, CmdTimedOut PROVE CmdInv'
<1>1. /\ cb \in ControlBlocks /\ cb.cmpl \in Seq(Kept) /\ cb.timer = 0 /\ alive
      /\ tout \in 0 .. MaxTimedOut /\ tout < MaxTimedOut /\ mixed' = mixed
      /\ st \in [UserOps -> {"idle", "asked"}]
  BY DEF CmdInv, ControlBlocks, CmdTimedOut
<1>2. CASE cb.cmpl = <<>>
  <2>1. /\ cb' = [cb EXCEPT !.window = 1, !.timer = Off]
        /\ UNCHANGED <<dev, guard, tout, alive, st, refused, mixed>>
    BY <1>2 DEF CmdTimedOut
  <2>2. /\ cb' \in ControlBlocks /\ cb'.cmpl = cb.cmpl /\ cb'.xmit = cb.xmit /\ cb'.timer = Off
    <3>1. Off \in Off .. CmdTimeout
      BY Constants DEF Off
    <3>2. QED
      BY <1>1, <2>1, <3>1, Zenon DEF ControlBlocks
  <2>3. dev # "ready" /\ guard # Off
    BY <1>1, <1>2 DEF CmdInv, StaleTimerGuarded, Off
  <2>4. (StoredAreTimed /\ NothingHeldBack /\ StaleTimerGuarded /\ GuardFirst)'
    BY <1>2, <2>1, <2>2, <2>3, Zenon
       DEF StoredAreTimed, NothingHeldBack, StaleTimerGuarded, GuardFirst
  <2>5. RequestsTracked'
    BY <2>1, <2>2 DEF CmdInv, RequestsTracked, Tracked
  <2>6. QED
    BY <2>1, <2>2, <2>4, <2>5, Zenon DEF CmdInv
<1>3. CASE cb.cmpl # <<>>
  <2> DEFINE op == Head(cb.cmpl)
             c  == [cb EXCEPT !.window = 1, !.cmpl = Tail(@)]
             c1 == Retime(c)
  <2>1. /\ tout' = tout + 1 /\ alive' = (tout' < MaxTimedOut)
        /\ st' = [o \in UserOps |-> IF o = op THEN "idle" ELSE st[o]]
        /\ \/ HdlCommandComplete(c1, op, FALSE)
           \/ cb' = SendCmd(c1, dev, <<>>) /\ UNCHANGED <<dev, guard, refused>>
    BY <1>3, Zenon DEF CmdTimedOut, Told
  <2>2. /\ op \in Kept /\ Tail(cb.cmpl) \in Seq(Kept) /\ Len(Tail(cb.cmpl)) = Len(cb.cmpl) - 1
        /\ \A i \in 1 .. Len(Tail(cb.cmpl)) : Tail(cb.cmpl)[i] = cb.cmpl[i + 1]
    BY <1>1, <1>3, HeadTailProperties
  <2>3. c \in ControlBlocks /\ c.cmpl = Tail(cb.cmpl) /\ c.xmit = cb.xmit
    BY <1>1, <2>2, Zenon DEF ControlBlocks
  <2> HIDE DEF c
  <2>4. /\ c1 \in ControlBlocks /\ c1.cmpl = Tail(cb.cmpl) /\ c1.xmit = cb.xmit
        /\ c1.timer = IF c1.cmpl = <<>> THEN Off ELSE CmdTimeout
    BY <2>3, Retimed
  <2> HIDE DEF c1
  <2>5. Flows(c1, cb') /\ SetupMove(op)
    <3>1. CASE HdlCommandComplete(c1, op, FALSE)
      BY <2>2, <2>4, <3>1, HdlFlows, Zenon DEF Kept
    <3>2. CASE cb' = SendCmd(c1, dev, <<>>) /\ UNCHANGED <<dev, guard, refused>>
      BY <2>4, <3>2, SendFlows, EmptySeq, Zenon DEF SetupMove
    <3>3. QED
      BY <2>1, <3>1, <3>2, Zenon
  <2>6. FlowInv'
    <3>1. FlowInv
      BY DEF CmdInv, FlowInv
    <3>2. QED
      BY <2>4, <2>5, <3>1, HandlerKeeps, Zenon
  <2>7. RequestsTracked'
    <3>1. SUFFICES ASSUME alive', ~mixed', NEW o \in UserOps, st'[o] = "asked" PROVE Holds(c1, o)
      BY <2>5, HandlerTracks
    <3>2. o # op /\ st[o] = "asked"
      BY <2>1, <3>1
    <3>3. Holds(cb, o)
      BY <1>1, <3>1, <3>2, Zenon DEF CmdInv, RequestsTracked, Tracked, Holds
    <3>4. CASE \E i \in 1 .. Len(cb.xmit) : cb.xmit[i] = o
      BY <2>4, <3>4 DEF Holds
    <3>5. CASE \E i \in 1 .. Len(cb.cmpl) : cb.cmpl[i] = o
      <4>1. PICK i \in 1 .. Len(cb.cmpl) : cb.cmpl[i] = o
        BY <3>5
      <4>2. Len(cb.cmpl) \in Nat /\ i # 1
        BY <1>1, <1>3, <3>2, <4>1, LenProperties, SMTT(20)
      <4>3. i - 1 \in 1 .. Len(Tail(cb.cmpl)) /\ i - 1 + 1 = i
        BY <2>2, <4>1, <4>2, SMTT(20)
      <4>4. Tail(cb.cmpl)[i - 1] = o
        BY <2>2, <4>1, <4>3, Zenon
      <4>5. QED
        BY <2>4, <4>3, <4>4, Zenon DEF Holds
    <3>6. QED
      BY <3>3, <3>4, <3>5, Zenon DEF Holds
  <2>8. st' \in [UserOps -> {"idle", "asked"}]
    BY <1>1, <2>1
  <2>9. tout' \in 0 .. MaxTimedOut /\ (alive' => tout' < MaxTimedOut)
    <3>1. tout' \in 0 .. MaxTimedOut
      BY <1>1, <2>1, Constants
    <3>2. alive' => tout' < MaxTimedOut
      BY <2>1, Zenon
    <3>3. QED
      BY <3>1, <3>2
  <2>10. QED
    BY <2>6, <2>7, <2>8, <2>9, Zenon DEF CmdInv, FlowInv
<1>4. QED
  BY <1>2, <1>3

\* A second passes.
LEMMA SecondKeeps == ASSUME CmdInv, Second PROVE CmdInv'
<1>1. /\ cb \in ControlBlocks /\ cb.timer \in Off .. CmdTimeout /\ guard \in Off .. MaxGuard
      /\ cb.timer # 0 /\ guard # 0 /\ guard' = Less(guard)
      /\ cb' = [cb EXCEPT !.timer = Less(cb.timer)]
      /\ UNCHANGED <<dev, tout, alive, st, refused, mixed>>
  BY DEF CmdInv, ControlBlocks, Second, NoneDue
<1>2. /\ Less(cb.timer) \in Off .. CmdTimeout /\ guard' \in Off .. MaxGuard
      /\ (Less(cb.timer) = Off <=> cb.timer = Off) /\ (guard' = Off <=> guard = Off)
      /\ cb.timer # Off => Less(cb.timer) = cb.timer - 1
      /\ guard # Off => guard' = guard - 1
  BY <1>1, Constants DEF Less, Off
<1>3. /\ cb' \in ControlBlocks /\ cb'.timer = Less(cb.timer) /\ cb'.cmpl = cb.cmpl
      /\ cb'.xmit = cb.xmit /\ cb'.window = cb.window
  BY <1>1, <1>2, Zenon DEF ControlBlocks
<1>4. (StoredAreTimed /\ NothingHeldBack /\ StaleTimerGuarded)'
  BY <1>1, <1>2, <1>3 DEF CmdInv, StoredAreTimed, NothingHeldBack, StaleTimerGuarded
<1>5. GuardFirst'
  <2>1. SUFFICES ASSUME dev # "ready", ~refused
                 PROVE  /\ guard' # Off
                        /\ cb.cmpl # <<>> /\ Head(cb.cmpl) \in SetupOps =>
                               IF dev = "wait_reset" THEN cb'.timer >= guard' + ReplyTimeout
                               ELSE cb'.timer > guard'
    BY <1>1, <1>3 DEF GuardFirst
  <2>2. guard # Off
    BY <2>1 DEF CmdInv, GuardFirst
  <2>3. SUFFICES ASSUME cb.cmpl # <<>>, Head(cb.cmpl) \in SetupOps
                 PROVE  IF dev = "wait_reset" THEN cb'.timer >= guard' + ReplyTimeout
                        ELSE cb'.timer > guard'
    BY <1>2, <2>2
  <2>4. IF dev = "wait_reset" THEN cb.timer >= guard + ReplyTimeout ELSE cb.timer > guard
    BY <2>1, <2>3 DEF CmdInv, GuardFirst
  <2>5. cb.timer # Off
    BY <2>3 DEF CmdInv, StoredAreTimed
  <2>6. cb'.timer = cb.timer - 1 /\ guard' = guard - 1
    BY <1>2, <1>3, <2>2, <2>5, Zenon
  <2>7. QED
    BY <1>1, <2>4, <2>6, Constants, SMTT(20) DEF Off
<1>6. RequestsTracked'
  BY <1>1, <1>3 DEF CmdInv, RequestsTracked, Tracked
<1>7. QED
  BY <1>1, <1>2, <1>3, <1>4, <1>5, <1>6, Zenon DEF CmdInv

\* Steps that leave the queues and the timers as they are, but for the window.
LEMMA NopKeeps == ASSUME CmdInv, NEW n \in 1 .. MaxCredits, Nop(n) PROVE CmdInv'
<1> DEFINE c == [cb EXCEPT !.window = n]
<1>1. /\ cb \in ControlBlocks /\ guard # 0 /\ tout' = 0 /\ cb' = SendCmd(c, dev, <<>>)
      /\ UNCHANGED <<dev, guard, refused>> /\ UNCHANGED <<alive, st, mixed>>
  BY DEF CmdInv, Nop, NoneDue
<1>2. n \in Nat
  BY Constants
<1>3. /\ c \in ControlBlocks /\ c.xmit = cb.xmit /\ c.cmpl = cb.cmpl /\ c.timer = cb.timer
  BY <1>1, <1>2, Zenon DEF ControlBlocks
<1> HIDE DEF c
<1>4. Flows(c, cb')
  BY <1>1, <1>3, SendFlows, EmptySeq, Zenon
<1>5. FlowInv'
  <2>1. FlowInv /\ SetupMove("NONE")
    BY <1>1 DEF CmdInv, FlowInv, SetupMove
  <2>2. QED
    BY <1>1, <1>3, <1>4, <2>1, HandlerKeeps, Zenon
<1>6. RequestsTracked'
  <2>1. SUFFICES ASSUME alive', ~mixed', NEW o \in UserOps, st'[o] = "asked" PROVE Holds(c, o)
    BY <1>4, HandlerTracks
  <2>2. QED
    BY <1>1, <1>3, <2>1, SMTT(20) DEF CmdInv, RequestsTracked, Tracked, Holds
<1>7. tout' \in 0 .. MaxTimedOut /\ tout' < MaxTimedOut
  BY <1>1, Constants
<1>8. QED
  BY <1>1, <1>5, <1>6, <1>7, Zenon DEF CmdInv, FlowInv

\* Another event, or a command that the controller loses.
LEMMA QuietKeeps == ASSUME CmdInv, OtherEvent \/ LoseCommand PROVE CmdInv'
<1>1. CASE OtherEvent
  <2>1. tout' \in 0 .. MaxTimedOut /\ tout' < MaxTimedOut
    BY <1>1, Constants DEF OtherEvent
  <2>2. UNCHANGED <<cb, dev, guard, alive, st, refused, mixed>>
    BY <1>1 DEF OtherEvent
  <2>3. QED
    BY <2>1, <2>2 DEF CmdInv, StoredAreTimed, NothingHeldBack, StaleTimerGuarded, GuardFirst,
                      RequestsTracked, Tracked
<1>2. CASE LoseCommand
  <2>1. /\ cb \in ControlBlocks /\ cb.lower \in Seq(Ops) /\ cb.lower # <<>>
        /\ cb' = [cb EXCEPT !.lower = Tail(cb.lower)]
        /\ UNCHANGED <<dev, guard, tout, alive, st, refused, mixed>>
    BY <1>2 DEF CmdInv, ControlBlocks, LoseCommand
  <2>2. Tail(cb.lower) \in Seq(Ops)
    BY <2>1, HeadTailProperties
  <2>3. /\ cb' \in ControlBlocks /\ cb'.xmit = cb.xmit /\ cb'.cmpl = cb.cmpl
        /\ cb'.window = cb.window /\ cb'.timer = cb.timer
    BY <2>1, <2>2, Zenon DEF ControlBlocks
  <2>4. QED
    BY <2>1, <2>3 DEF CmdInv, StoredAreTimed, NothingHeldBack, StaleTimerGuarded, GuardFirst,
                      RequestsTracked, Tracked
<1>3. QED
  BY <1>1, <1>2, Zenon

\* CmdInv is inductive.
LEMMA CmdStep == CmdInv /\ [CmdNext]_cmdVars => CmdInv'
<1> SUFFICES ASSUME CmdInv, [CmdNext]_cmdVars PROVE CmdInv'
  OBVIOUS
<1>1. ASSUME DevReset, tout' \in {0, tout}, alive' = alive PROVE CmdInv'
  <2>1. FlowInv' /\ RequestsTracked' /\ st' \in [UserOps -> {"idle", "asked"}]
    BY <1>1, DevResetKeeps
  <2>2. tout' \in 0 .. MaxTimedOut /\ (alive' => tout' < MaxTimedOut)
    BY <1>1, Constants DEF CmdInv
  <2>3. QED
    BY <2>1, <2>2 DEF CmdInv, FlowInv
<1>2. CASE DeviceReset
  BY <1>1, <1>2, Zenon DEF DeviceReset, DevReset
<1>3. CASE DevTimeout
  BY <1>1, <1>3, Zenon DEF DevTimeout, DevReset
<1>4. CASE UNCHANGED cmdVars
  BY <1>4 DEF cmdVars, CmdInv, StoredAreTimed, NothingHeldBack, StaleTimerGuarded, GuardFirst,
              RequestsTracked, Tracked
<1>5. QED
  BY <1>2, <1>3, <1>4, IssueKeeps, CompleteKeeps, StatusKeeps, TimeoutKeeps, SecondKeeps,
     NopKeeps, QuietKeeps, Zenon DEF CmdNext, Answer, NopComes, Time

\* The queues, the two timers, the start-up and the requests of the stack agree.
THEOREM CmdInvariant == CmdSpec => []CmdInv
  BY InitKeeps, CmdStep, PTL DEF CmdSpec

\* hci_cmd_cb keeps its types; in particular cmd_window never goes below zero.
THEOREM CmdTypesKept == CmdSpec => []CmdTypeOK
<1>1. CmdInv => CmdTypeOK
  BY DEF CmdInv, CmdTypeOK, ControlBlocks, Kept
<1>2. QED
  BY <1>1, CmdInvariant, PTL

\* A copy in cmd_cmpl_q is under the running cmd_cmpl_timer.
THEOREM CopiesAreTimed == CmdSpec => []StoredAreTimed
<1>1. CmdInv => StoredAreTimed
  BY DEF CmdInv
<1>2. QED
  BY <1>1, CmdInvariant, PTL

\* Commands wait in cmd_xmit_q only for the window, or under the guard timer.
THEOREM NoneHeldBack == CmdSpec => []NothingHeldBack
<1>1. CmdInv => NothingHeldBack
  BY DEF CmdInv
<1>2. QED
  BY <1>1, CmdInvariant, PTL

\* Until a Command Status meets the copy of another command, a request that is
\* not answered is in a queue.
THEOREM RequestsStayTracked == CmdSpec => []RequestsTracked
<1>1. CmdInv => RequestsTracked
  BY DEF CmdInv
<1>2. QED
  BY <1>1, CmdInvariant, PTL

\* btu_hcif_cmd_timeout never makes up the answer to a setup command during
\* start-up, for all timeouts with CmdTimeout >= MaxGuard + ReplyTimeout.
THEOREM SetupNeverFaked == CmdSpec => []SetupNotFaked
<1>1. CmdInv => SetupNotFaked
  <2>1. SUFFICES ASSUME CmdInv, cb.timer = 0, cb.cmpl # <<>>, dev # "ready", ~refused,
                        Head(cb.cmpl) \in SetupOps
                 PROVE  FALSE
    BY DEF SetupNotFaked
  <2>2. /\ guard # Off /\ guard \in Off .. MaxGuard
        /\ IF dev = "wait_reset" THEN 0 >= guard + ReplyTimeout ELSE 0 > guard
    BY <2>1 DEF CmdInv, GuardFirst
  <2>3. QED
    BY <2>2, Constants DEF Off
<1>2. QED
  BY <1>1, CmdInvariant, PTL
=============================================================================
