--------------------------- MODULE OnChainProofs ---------------------------
(***************************************************************************)
(* Proofs about the opening transaction.  The script is run one opcode at a *)
(* time on a stack of any size; branch by branch that gives the items a     *)
(* witness must have.  The invariant ties the taker's verdict to the outputs*)
(* it saw, and the maker's outputs to what its wallet funds.  The fee of a  *)
(* claim behind bitcoind is bounded for every rate and minimum.             *)
(***************************************************************************)
EXTENDS OnChain, TLAPS

\* A leaf is tried with Zenon, then with Z3; the leaves that need Z3 say so.
USE Zenon, SMT, SMTT(20)

-----------------------------------------------------------------------------
(* The script. *)

\* The opcodes, by their place.
LEMMA Opcodes ==
  /\ Len(OpeningTxScript) = 19
  /\ OpeningTxScript[1] = "maker"
  /\ OpeningTxScript[2] = "CHECKSIG"
  /\ OpeningTxScript[3] = "NOTIF"
  /\ OpeningTxScript[4] = "maker"
  /\ OpeningTxScript[5] = "CHECKSIG"
  /\ OpeningTxScript[6] = "NOTIF"
  /\ OpeningTxScript[7] = "SIZE"
  /\ OpeningTxScript[8] = "32"
  /\ OpeningTxScript[9] = "EQUALVERIFY"
  /\ OpeningTxScript[10] = "SHA256"
  /\ OpeningTxScript[11] = "hash"
  /\ OpeningTxScript[12] = "EQUALVERIFY"
  /\ OpeningTxScript[13] = "ENDIF"
  /\ OpeningTxScript[14] = "taker"
  /\ OpeningTxScript[15] = "CHECKSIG"
  /\ OpeningTxScript[16] = "ELSE"
  /\ OpeningTxScript[17] = "csv"
  /\ OpeningTxScript[18] = "CSV"
  /\ OpeningTxScript[19] = "ENDIF"
BY DEF OpeningTxScript

\* The execution follows the script: its equation has a solution, since the
\* script is finite, and CHOOSE picks one.
LEMMA ExecutionSteps ==
  ASSUME NEW w, NEW lock
  PROVE  LET r == Execution(w, lock)
         IN  /\ r[0] = [stack |-> w, in |-> <<>>, ok |-> TRUE]
             /\ \A n \in 1..19 : r[n] = ScriptStep(r[n - 1], OpeningTxScript[n], lock)
<1> DEFINE m0 == [stack |-> w, in |-> <<>>, ok |-> TRUE]
           m1 == ScriptStep(m0, OpeningTxScript[1], lock)
           m2 == ScriptStep(m1, OpeningTxScript[2], lock)
           m3 == ScriptStep(m2, OpeningTxScript[3], lock)
           m4 == ScriptStep(m3, OpeningTxScript[4], lock)
           m5 == ScriptStep(m4, OpeningTxScript[5], lock)
           m6 == ScriptStep(m5, OpeningTxScript[6], lock)
           m7 == ScriptStep(m6, OpeningTxScript[7], lock)
           m8 == ScriptStep(m7, OpeningTxScript[8], lock)
           m9 == ScriptStep(m8, OpeningTxScript[9], lock)
           m10 == ScriptStep(m9, OpeningTxScript[10], lock)
           m11 == ScriptStep(m10, OpeningTxScript[11], lock)
           m12 == ScriptStep(m11, OpeningTxScript[12], lock)
           m13 == ScriptStep(m12, OpeningTxScript[13], lock)
           m14 == ScriptStep(m13, OpeningTxScript[14], lock)
           m15 == ScriptStep(m14, OpeningTxScript[15], lock)
           m16 == ScriptStep(m15, OpeningTxScript[16], lock)
           m17 == ScriptStep(m16, OpeningTxScript[17], lock)
           m18 == ScriptStep(m17, OpeningTxScript[18], lock)
           m19 == ScriptStep(m18, OpeningTxScript[19], lock)
           ms == <<m1, m2, m3, m4, m5, m6, m7, m8, m9, m10, m11, m12, m13, m14, m15, m16, m17, m18, m19>>
           Eq(g) == g = [n \in 0..Len(OpeningTxScript) |->
                          IF n = 0 THEN [stack |-> w, in |-> <<>>, ok |-> TRUE]
                          ELSE ScriptStep(g[n - 1], OpeningTxScript[n], lock)]
           g0 == [n \in 0..19 |-> IF n = 0 THEN m0 ELSE ms[n]]
<1>1. Len(OpeningTxScript) = 19
  BY Opcodes
<1>2. /\ m1 = ScriptStep(m0, OpeningTxScript[1], lock)
      /\ m2 = ScriptStep(m1, OpeningTxScript[2], lock)
      /\ m3 = ScriptStep(m2, OpeningTxScript[3], lock)
      /\ m4 = ScriptStep(m3, OpeningTxScript[4], lock)
      /\ m5 = ScriptStep(m4, OpeningTxScript[5], lock)
      /\ m6 = ScriptStep(m5, OpeningTxScript[6], lock)
      /\ m7 = ScriptStep(m6, OpeningTxScript[7], lock)
      /\ m8 = ScriptStep(m7, OpeningTxScript[8], lock)
      /\ m9 = ScriptStep(m8, OpeningTxScript[9], lock)
      /\ m10 = ScriptStep(m9, OpeningTxScript[10], lock)
      /\ m11 = ScriptStep(m10, OpeningTxScript[11], lock)
      /\ m12 = ScriptStep(m11, OpeningTxScript[12], lock)
      /\ m13 = ScriptStep(m12, OpeningTxScript[13], lock)
      /\ m14 = ScriptStep(m13, OpeningTxScript[14], lock)
      /\ m15 = ScriptStep(m14, OpeningTxScript[15], lock)
      /\ m16 = ScriptStep(m15, OpeningTxScript[16], lock)
      /\ m17 = ScriptStep(m16, OpeningTxScript[17], lock)
      /\ m18 = ScriptStep(m17, OpeningTxScript[18], lock)
      /\ m19 = ScriptStep(m18, OpeningTxScript[19], lock)
  BY Zenon
<1>m. m0 = [stack |-> w, in |-> <<>>, ok |-> TRUE]
  OBVIOUS
<1> HIDE DEF m0, m1, m2, m3, m4, m5, m6, m7, m8, m9, m10, m11, m12, m13, m14, m15, m16, m17, m18, m19
<1>3. /\ ms[1] = m1
      /\ ms[2] = m2
      /\ ms[3] = m3
      /\ ms[4] = m4
      /\ ms[5] = m5
      /\ ms[6] = m6
      /\ ms[7] = m7
      /\ ms[8] = m8
      /\ ms[9] = m9
      /\ ms[10] = m10
      /\ ms[11] = m11
      /\ ms[12] = m12
      /\ ms[13] = m13
      /\ ms[14] = m14
      /\ ms[15] = m15
      /\ ms[16] = m16
      /\ ms[17] = m17
      /\ ms[18] = m18
      /\ ms[19] = m19
  OBVIOUS
<1> HIDE DEF ms
<1>4. /\ g0[0] = m0
      /\ g0[1] = m1
      /\ g0[2] = m2
      /\ g0[3] = m3
      /\ g0[4] = m4
      /\ g0[5] = m5
      /\ g0[6] = m6
      /\ g0[7] = m7
      /\ g0[8] = m8
      /\ g0[9] = m9
      /\ g0[10] = m10
      /\ g0[11] = m11
      /\ g0[12] = m12
      /\ g0[13] = m13
      /\ g0[14] = m14
      /\ g0[15] = m15
      /\ g0[16] = m16
      /\ g0[17] = m17
      /\ g0[18] = m18
      /\ g0[19] = m19
  BY <1>3, SMT, SMTT(20)
<1>5. \A n \in 1..19 : g0[n] = ScriptStep(g0[n - 1], OpeningTxScript[n], lock)
  <2>1. \A n \in 1..19 : n \in {1, 2, 3, 4, 5, 6, 7, 8, 9, 10, 11, 12, 13, 14, 15, 16, 17, 18, 19}
    OBVIOUS
  <2> HIDE DEF g0
  <2> QED BY <2>1, <1>2, <1>4, SMT, SMTT(20)
<1>6. Eq(g0)
  <2>1. g0[0] = [stack |-> w, in |-> <<>>, ok |-> TRUE]
    BY <1>4, <1>m
  <2>2. g0 = [n \in 0..19 |-> g0[n]]
    OBVIOUS
  <2>3. \A n \in 0..19 : n # 0 => n \in 1..19
    OBVIOUS
  <2> HIDE DEF g0
  <2> QED BY <2>1, <2>2, <2>3, <1>1, <1>5
<1>7. Execution(w, lock) = CHOOSE g : Eq(g)
  BY DEF Execution
<1> HIDE DEF Eq, g0
<1>8. Eq(Execution(w, lock))
  BY <1>6, <1>7
<1>9. Execution(w, lock) = [n \in 0..19 |->
                              IF n = 0 THEN [stack |-> w, in |-> <<>>, ok |-> TRUE]
                              ELSE ScriptStep(Execution(w, lock)[n - 1], OpeningTxScript[n], lock)]
  BY <1>1, <1>8 DEF Eq
<1> DEFINE r == Execution(w, lock)
<1>10. r = [n \in 0..19 |->
              IF n = 0 THEN [stack |-> w, in |-> <<>>, ok |-> TRUE]
              ELSE ScriptStep(r[n - 1], OpeningTxScript[n], lock)]
  BY <1>9
<1> HIDE DEF r
<1>11. \A n \in 0..19 : r[n] = IF n = 0 THEN [stack |-> w, in |-> <<>>, ok |-> TRUE]
                                ELSE ScriptStep(r[n - 1], OpeningTxScript[n], lock)
  BY <1>10
<1>12. \A n \in 1..19 : n \in 0..19 /\ n # 0
  OBVIOUS
<1>13. r[0] = [stack |-> w, in |-> <<>>, ok |-> TRUE]
  BY <1>11, SMT, SMTT(20)
<1>14. \A n \in 1..19 : r[n] = ScriptStep(r[n - 1], OpeningTxScript[n], lock)
  BY <1>11, <1>12
<1> QED BY <1>13, <1>14 DEF r

\* What can be on a stack.
Symbols == {"makerSig", "takerSig", "preimage", "empty", "junk", "maker", "taker", "32", "hash",
            "csv", "true", "size", "digest"}

\* A machine, running or stopped.
Machines == [stack : Seq(Symbols), in : Seq(BOOLEAN), ok : BOOLEAN]

\* A running machine, and whether its branches are all taken.
Machine(s, b) == [stack |-> s, in |-> b, ok |-> TRUE]

\* A branch is live when it and those around it are taken.
Live(b) == \A k \in 1..Len(b) : b[k]

\* The ways a machine changes.
SetStack(m, t) == [m EXCEPT !.stack = t]
SetIn(m, c) == [m EXCEPT !.in = c]
SetBoth(m, t, c) == [m EXCEPT !.stack = t, !.in = c]
Stopped(m) == [m EXCEPT !.ok = FALSE]

\* A machine is its fields.
LEMMA SameMachine ==
  ASSUME NEW m \in Machines, NEW n \in Machines, m.stack = n.stack, m.in = n.in, (m.ok <=> n.ok)
  PROVE  m = n
BY SMT, SMTT(20) DEF Machines

\* A running machine has the fields it was made of.
LEMMA MachineFields ==
  ASSUME NEW s \in Seq(Symbols), NEW b \in Seq(BOOLEAN)
  PROVE  /\ Machine(s, b) \in Machines
         /\ Machine(s, b).stack = s /\ Machine(s, b).in = b /\ Machine(s, b).ok
<1>1. Machine(s, b) \in Machines
  BY DEF Machine, Machines
<1>2. Machine(s, b).stack = s /\ Machine(s, b).in = b /\ Machine(s, b).ok
  BY DEF Machine
<1> QED BY <1>1, <1>2

\* What each of them leaves alone.
LEMMA Changes ==
  ASSUME NEW m \in Machines, NEW t \in Seq(Symbols), NEW c \in Seq(BOOLEAN)
  PROVE  /\ /\ SetStack(m, t) \in Machines
            /\ SetStack(m, t).stack = t /\ SetStack(m, t).in = m.in /\ (SetStack(m, t).ok <=> m.ok)
         /\ /\ SetIn(m, c) \in Machines
            /\ SetIn(m, c).stack = m.stack /\ SetIn(m, c).in = c /\ (SetIn(m, c).ok <=> m.ok)
         /\ /\ SetBoth(m, t, c) \in Machines
            /\ SetBoth(m, t, c).stack = t /\ SetBoth(m, t, c).in = c /\ (SetBoth(m, t, c).ok <=> m.ok)
         /\ Stopped(m) \in Machines /\ ~Stopped(m).ok
<1>1. SetStack(m, t) \in Machines
      /\ SetStack(m, t).stack = t /\ SetStack(m, t).in = m.in /\ (SetStack(m, t).ok <=> m.ok)
  BY DEF Machines, SetStack
<1>2. SetIn(m, c) \in Machines
      /\ SetIn(m, c).stack = m.stack /\ SetIn(m, c).in = c /\ (SetIn(m, c).ok <=> m.ok)
  BY DEF Machines, SetIn
<1>3. SetBoth(m, t, c) \in Machines
      /\ SetBoth(m, t, c).stack = t /\ SetBoth(m, t, c).in = c /\ (SetBoth(m, t, c).ok <=> m.ok)
  BY DEF Machines, SetBoth
<1>4. Stopped(m) \in Machines /\ ~Stopped(m).ok
  BY DEF Machines, Stopped
<1> QED BY <1>1, <1>2, <1>3, <1>4

\* What they make of a running one.
LEMMA Running ==
  ASSUME NEW s \in Seq(Symbols), NEW b \in Seq(BOOLEAN),
         NEW t \in Seq(Symbols), NEW c \in Seq(BOOLEAN)
  PROVE  /\ SetStack(Machine(s, b), t) = Machine(t, b)
         /\ SetIn(Machine(s, b), c) = Machine(s, c)
         /\ SetBoth(Machine(s, b), t, c) = Machine(t, c)
         /\ ~Stopped(Machine(s, b)).ok
<1> DEFINE m == Machine(s, b)
<1>a. m \in Machines
  BY MachineFields
<1>1. m.stack = s /\ m.in = b /\ m.ok
  BY MachineFields
<1> HIDE DEF m
<1>2. SetStack(m, t) = Machine(t, b)
  <2>1. SetStack(m, t) \in Machines /\ SetStack(m, t).stack = t /\ SetStack(m, t).in = b /\ SetStack(m, t).ok
    <3>1. SetStack(m, t) \in Machines /\ SetStack(m, t).stack = t /\ SetStack(m, t).in = m.in /\ (SetStack(m, t).ok <=> m.ok)
      BY <1>a, Changes, SMT, SMTT(20)
    <3> QED BY <1>1, <3>1
  <2>2. Machine(t, b) \in Machines /\ Machine(t, b).stack = t /\ Machine(t, b).in = b /\ Machine(t, b).ok
    BY MachineFields
  <2> QED BY <2>1, <2>2, SameMachine
<1>3. SetIn(m, c) = Machine(s, c)
  <2>1. SetIn(m, c) \in Machines /\ SetIn(m, c).stack = s /\ SetIn(m, c).in = c /\ SetIn(m, c).ok
    <3>1. SetIn(m, c) \in Machines /\ SetIn(m, c).stack = m.stack /\ SetIn(m, c).in = c /\ (SetIn(m, c).ok <=> m.ok)
      BY <1>a, Changes, SMT, SMTT(20)
    <3> QED BY <1>1, <3>1
  <2>2. Machine(s, c) \in Machines /\ Machine(s, c).stack = s /\ Machine(s, c).in = c /\ Machine(s, c).ok
    BY MachineFields
  <2> QED BY <2>1, <2>2, SameMachine
<1>4. SetBoth(m, t, c) = Machine(t, c)
  <2>1. SetBoth(m, t, c) \in Machines /\ SetBoth(m, t, c).stack = t /\ SetBoth(m, t, c).in = c /\ SetBoth(m, t, c).ok
    <3>1. SetBoth(m, t, c) \in Machines /\ SetBoth(m, t, c).stack = t /\ SetBoth(m, t, c).in = c /\ (SetBoth(m, t, c).ok <=> m.ok)
      BY <1>a, Changes, SMT, SMTT(20)
    <3> QED BY <1>1, <3>1
  <2>2. Machine(t, c) \in Machines /\ Machine(t, c).stack = t /\ Machine(t, c).in = c /\ Machine(t, c).ok
    BY MachineFields
  <2> QED BY <2>1, <2>2, SameMachine
<1>5. ~Stopped(m).ok
  BY <1>a, Changes
<1> QED BY <1>2, <1>3, <1>4, <1>5 DEF m

\* A branch is live when those around it are.
LEMMA Branches ==
  /\ Live(<<>>)
  /\ \A b \in Seq(BOOLEAN), x \in BOOLEAN : Live(Append(b, x)) <=> Live(b) /\ x
<1>1. Live(<<>>)
  BY SMT, SMTT(20) DEF Live
<1>2. ASSUME NEW b \in Seq(BOOLEAN), NEW x \in BOOLEAN
      PROVE  Live(Append(b, x)) <=> Live(b) /\ x
  <2>1. /\ Len(Append(b, x)) = Len(b) + 1 /\ Len(b) \in Nat /\ Append(b, x)[Len(b) + 1] = x
        /\ \A k \in 1..Len(b) : Append(b, x)[k] = b[k]
    OBVIOUS
  <2>2. \A k \in 1..(Len(b) + 1) : k \in 1..Len(b) \/ k = Len(b) + 1
    BY <2>1, SMT, SMTT(20)
  <2>3. 1..Len(b) \subseteq 1..(Len(b) + 1) /\ Len(b) + 1 \in 1..(Len(b) + 1)
    BY <2>1, SMT, SMTT(20)
  <2> QED BY <2>1, <2>2, <2>3 DEF Live
<1> QED BY <1>1, <1>2

\* A stopped machine stays as it is.
LEMMA StepStopped ==
  ASSUME NEW m, ~m.ok, NEW op, NEW lock
  PROVE  ScriptStep(m, op, lock) = m
BY DEF ScriptStep

\* The items the script pushes.
Pushed == {"maker", "taker", "32", "hash", "csv"}

\* An item of the script is pushed.
LEMMA StepPush ==
  ASSUME NEW s \in Seq(Symbols), NEW b \in Seq(BOOLEAN), Live(b), NEW op \in Pushed, NEW lock
  PROVE  ScriptStep(Machine(s, b), op, lock) = Machine(Append(s, op), b)
<1> DEFINE m == Machine(s, b)
           t == Append(s, op)
<1>1. m.stack = s /\ m.in = b /\ m.ok
  BY MachineFields
<1>2. t \in Seq(Symbols)
  <2>1. op \in Symbols
    BY DEF Pushed, Symbols
  <2> QED BY <2>1, SMT, SMTT(20)
<1> HIDE DEF m
<1>3. ScriptStep(m, op, lock) = Exec(m, op, lock)
  BY <1>1 DEF ScriptStep, Live, Pushed
<1>4. Exec(m, op, lock) = Push(m, 0, op)
  BY DEF Exec, Pushed
<1>5. Pop(m, 0) = s
  BY <1>1, SMT, SMTT(20) DEF Pop
<1>6. Push(m, 0, op) = SetStack(m, t)
  BY <1>5 DEF Push, SetStack
<1> HIDE DEF t
<1>7. SetStack(m, t) = Machine(t, b)
  BY <1>2, Running DEF m
<1> QED BY <1>3, <1>4, <1>6, <1>7 DEF m, t

\* Outside the taken branch nothing but the branch opcodes counts.
LEMMA StepSkip ==
  ASSUME NEW s, NEW b \in Seq(BOOLEAN), ~Live(b), NEW op, NEW lock,
         op \notin {"NOTIF", "ELSE", "ENDIF"}
  PROVE  ScriptStep(Machine(s, b), op, lock) = Machine(s, b)
BY DEF ScriptStep, Machine, Live

\* NOTIF takes its branch on an empty item.
LEMMA StepNotIf ==
  ASSUME NEW s \in Seq(Symbols), NEW x \in Symbols, NEW b \in Seq(BOOLEAN), Live(b), NEW lock
  PROVE  ScriptStep(Machine(Append(s, x), b), "NOTIF", lock) = Machine(s, Append(b, x = "empty"))
<1> DEFINE t == Append(s, x)
           c == Append(b, x = "empty")
           m == Machine(t, b)
<1>1. t \in Seq(Symbols) /\ c \in Seq(BOOLEAN)
  OBVIOUS
<1>2. t # <<>> /\ SubSeq(t, 1, Len(t) - 1) = s /\ t[Len(t) - 0] = x
  OBVIOUS
<1> HIDE DEF t
<1>3. m.stack = t /\ m.in = b /\ m.ok
  BY <1>1, MachineFields
<1> HIDE DEF m
<1>4. Pop(m, 1) = s /\ Item(m, 0) = x
  BY <1>2, <1>3 DEF Pop, Item
<1>5. ScriptStep(m, "NOTIF", lock) = [m EXCEPT !.stack = Pop(m, 1), !.in = Append(m.in, Item(m, 0) = "empty")]
  BY <1>2, <1>3 DEF ScriptStep, Live
<1>6. ScriptStep(m, "NOTIF", lock) = SetBoth(m, s, c)
  BY <1>3, <1>4, <1>5 DEF SetBoth
<1> HIDE DEF c
<1>7. SetBoth(m, s, c) = Machine(s, c)
  BY <1>1, Running DEF m
<1> QED BY <1>6, <1>7 DEF m, t, c

\* In a branch that is not taken it is not taken either.
LEMMA StepNotIfDead ==
  ASSUME NEW s \in Seq(Symbols), NEW b \in Seq(BOOLEAN), ~Live(b), NEW lock
  PROVE  ScriptStep(Machine(s, b), "NOTIF", lock) = Machine(s, Append(b, FALSE))
<1> DEFINE c == Append(b, FALSE)
           m == Machine(s, b)
<1>1. c \in Seq(BOOLEAN)
  OBVIOUS
<1>2. m.stack = s /\ m.in = b /\ m.ok
  BY MachineFields
<1> HIDE DEF m
<1>3. ScriptStep(m, "NOTIF", lock) = [m EXCEPT !.in = Append(m.in, FALSE)]
  BY <1>2 DEF ScriptStep, Live
<1>4. ScriptStep(m, "NOTIF", lock) = SetIn(m, c)
  BY <1>2, <1>3 DEF SetIn
<1> HIDE DEF c
<1>5. SetIn(m, c) = Machine(s, c)
  BY <1>1, Running DEF m
<1> QED BY <1>4, <1>5 DEF m, c

\* ELSE turns its branch.
LEMMA StepElse ==
  ASSUME NEW s \in Seq(Symbols), NEW b \in Seq(BOOLEAN), NEW x \in BOOLEAN, NEW lock
  PROVE  ScriptStep(Machine(s, Append(b, x)), "ELSE", lock) = Machine(s, Append(b, ~x))
<1> DEFINE t == Append(b, x)
           c == Append(b, ~x)
           m == Machine(s, t)
<1>1. t \in Seq(BOOLEAN) /\ c \in Seq(BOOLEAN)
  OBVIOUS
<1>2. [t EXCEPT ![Len(t)] = ~t[Len(t)]] = c
  <2> DEFINE u == [t EXCEPT ![Len(t)] = ~t[Len(t)]]
  <2>1. Len(t) = Len(b) + 1 /\ Len(b) \in Nat /\ t[Len(t)] = x /\ DOMAIN t = 1..(Len(b) + 1)
    OBVIOUS
  <2>2. \A k \in 1..Len(b) : t[k] = b[k] /\ c[k] = b[k]
    OBVIOUS
  <2>3. DOMAIN c = 1..(Len(b) + 1) /\ c[Len(b) + 1] = ~x
    OBVIOUS
  <2> HIDE DEF t, c
  <2>4. u \in [1..(Len(b) + 1) -> BOOLEAN] /\ c \in [1..(Len(b) + 1) -> BOOLEAN]
    <3>1. t \in [1..(Len(b) + 1) -> BOOLEAN] /\ c \in [1..(Len(b) + 1) -> BOOLEAN]
      BY <1>1, <2>1, <2>3, SMT, SMTT(20)
    <3> QED BY <3>1, <2>1
  <2>5. \A k \in 1..(Len(b) + 1) : u[k] = c[k]
    <3>1. u[Len(b) + 1] = ~x
      BY <2>1, SMT, SMTT(20)
    <3>2. \A k \in 1..Len(b) : u[k] = t[k]
      BY <2>1, SMT, SMTT(20)
    <3>3. \A k \in 1..(Len(b) + 1) : k \in 1..Len(b) \/ k = Len(b) + 1
      BY <2>1, SMT, SMTT(20)
    <3> HIDE DEF u
    <3> QED BY <3>1, <3>2, <3>3, <2>2, <2>3
  <2> HIDE DEF u
  <2>6. u = c
    BY <2>4, <2>5, SMT, SMTT(20)
  <2> QED BY <2>6 DEF u
<1> HIDE DEF t, c
<1>3. m.in = t /\ m.ok
  BY <1>1, MachineFields
<1> HIDE DEF m
<1>4. ScriptStep(m, "ELSE", lock) = [m EXCEPT !.in[Len(m.in)] = ~@]
  BY <1>3 DEF ScriptStep
<1>5. ScriptStep(m, "ELSE", lock) = SetIn(m, c)
  BY <1>2, <1>3, <1>4 DEF SetIn
<1>6. SetIn(m, c) = Machine(s, c)
  BY <1>1, Running DEF m
<1> QED BY <1>5, <1>6 DEF m, t, c

\* ENDIF leaves it.
LEMMA StepEndIf ==
  ASSUME NEW s \in Seq(Symbols), NEW b \in Seq(BOOLEAN), NEW x \in BOOLEAN, NEW lock
  PROVE  ScriptStep(Machine(s, Append(b, x)), "ENDIF", lock) = Machine(s, b)
<1> DEFINE t == Append(b, x)
           m == Machine(s, t)
<1>1. t \in Seq(BOOLEAN) /\ SubSeq(t, 1, Len(t) - 1) = b
  OBVIOUS
<1> HIDE DEF t
<1>2. m.in = t /\ m.ok
  BY <1>1, MachineFields
<1> HIDE DEF m
<1>3. ScriptStep(m, "ENDIF", lock) = [m EXCEPT !.in = SubSeq(m.in, 1, Len(m.in) - 1)]
  BY <1>2 DEF ScriptStep
<1>4. ScriptStep(m, "ENDIF", lock) = SetIn(m, b)
  BY <1>1, <1>2, <1>3 DEF SetIn
<1>5. SetIn(m, b) = Machine(s, b)
  BY <1>1, Running DEF m
<1> QED BY <1>4, <1>5 DEF m, t

\* The opcodes that work on the stack.
Operations == {"CHECKSIG", "SIZE", "SHA256", "EQUALVERIFY", "CSV"}

\* In the taken branch an opcode is executed.
LEMMA StepExec ==
  ASSUME NEW s \in Seq(Symbols), NEW b \in Seq(BOOLEAN), Live(b), NEW op \in Operations, NEW lock
  PROVE  ScriptStep(Machine(s, b), op, lock) = Exec(Machine(s, b), op, lock)
<1> DEFINE m == Machine(s, b)
<1>1. m.in = b /\ m.ok
  BY MachineFields
<1> HIDE DEF m
<1>2. ScriptStep(m, op, lock) = Exec(m, op, lock)
  BY <1>1 DEF ScriptStep, Live, Operations
<1> QED BY <1>2 DEF m

\* The top item of a stack.
LEMMA TopItem ==
  ASSUME NEW s \in Seq(Symbols), NEW x \in Symbols, NEW b \in Seq(BOOLEAN)
  PROVE  LET m == Machine(Append(s, x), b)
         IN  /\ m.stack = Append(s, x) /\ Append(s, x) \in Seq(Symbols)
             /\ Len(m.stack) >= 1 /\ Item(m, 0) = x
             /\ Pop(m, 0) = Append(s, x) /\ Pop(m, 1) = s
<1> DEFINE t == Append(s, x)
           m == Machine(t, b)
<1>1. t \in Seq(Symbols)
  OBVIOUS
<1>2. /\ Len(t) >= 1 /\ t[Len(t) - 0] = x
      /\ SubSeq(t, 1, Len(t) - 0) = t /\ SubSeq(t, 1, Len(t) - 1) = s
  OBVIOUS
<1> HIDE DEF t
<1>3. m.stack = t
  BY <1>1, MachineFields
<1> HIDE DEF m
<1>4. Item(m, 0) = x /\ Pop(m, 0) = t /\ Pop(m, 1) = s
  BY <1>2, <1>3 DEF Item, Pop
<1> QED BY <1>1, <1>2, <1>3, <1>4 DEF m, t

\* The two top items.
LEMMA TopItems ==
  ASSUME NEW s \in Seq(Symbols), NEW x \in Symbols, NEW y \in Symbols, NEW b \in Seq(BOOLEAN)
  PROVE  LET m == Machine(Append(Append(s, x), y), b)
         IN  /\ Append(Append(s, x), y) \in Seq(Symbols)
             /\ Len(m.stack) >= 2 /\ Item(m, 0) = y /\ Item(m, 1) = x /\ Pop(m, 2) = s
<1> DEFINE t == Append(Append(s, x), y)
           m == Machine(t, b)
<1>1. t \in Seq(Symbols)
  OBVIOUS
<1>2. Len(t) >= 2 /\ t[Len(t) - 0] = y /\ t[Len(t) - 1] = x /\ SubSeq(t, 1, Len(t) - 2) = s
  <2>1. Len(t) = Len(s) + 2 /\ Len(s) \in Nat
    OBVIOUS
  <2>2. t[Len(s) + 2] = y /\ t[Len(s) + 1] = x
    OBVIOUS
  <2>3. SubSeq(t, 1, Len(s)) = s
    OBVIOUS
  <2> HIDE DEF t
  <2>4. Len(t) - 0 = Len(s) + 2 /\ Len(t) - 1 = Len(s) + 1 /\ Len(t) - 2 = Len(s)
    BY <2>1, SMT, SMTT(20)
  <2> QED BY <2>1, <2>2, <2>3, <2>4, SMT, SMTT(20)
<1> HIDE DEF t
<1>3. m.stack = t
  BY <1>1, MachineFields
<1> HIDE DEF m
<1>4. Item(m, 0) = y /\ Item(m, 1) = x /\ Pop(m, 2) = s
  BY <1>2, <1>3 DEF Item, Pop
<1> QED BY <1>1, <1>2, <1>3, <1>4 DEF m, t

\* A push over a stack with n items taken off.
LEMMA Pushes ==
  ASSUME NEW s \in Seq(Symbols), NEW b \in Seq(BOOLEAN), NEW n, NEW t \in Seq(Symbols),
         Pop(Machine(s, b), n) = t, NEW x \in Symbols
  PROVE  Push(Machine(s, b), n, x) = Machine(Append(t, x), b)
<1> DEFINE m == Machine(s, b)
           u == Append(t, x)
<1>1. u \in Seq(Symbols)
  OBVIOUS
<1>2. Pop(m, n) = t
  OBVIOUS
<1> HIDE DEF m
<1>3. Push(m, n, x) = SetStack(m, u)
  BY <1>2 DEF Push, SetStack
<1> HIDE DEF u
<1>4. SetStack(m, u) = Machine(u, b)
  BY <1>1, Running DEF m
<1> QED BY <1>3, <1>4 DEF m, u

\* CHECKSIG takes the key's signature for true, an empty one for false, and stops
\* on any other and on a stack without one.
LEMMA StepCheckSig ==
  ASSUME NEW s \in Seq(Symbols), NEW b \in Seq(BOOLEAN), Live(b), NEW k \in {"maker", "taker"}, NEW lock
  PROVE  /\ \A x \in Symbols :
              LET m == ScriptStep(Machine(Append(Append(s, x), k), b), "CHECKSIG", lock)
              IN  /\ x = SigOf(k) => m = Machine(Append(s, "true"), b)
                  /\ x = "empty" => m = Machine(Append(s, "empty"), b)
                  /\ x \notin {SigOf(k), "empty"} => ~m.ok
         /\ ~ScriptStep(Machine(Append(<<>>, k), b), "CHECKSIG", lock).ok
<1>a. k \in Symbols /\ "true" \in Symbols /\ "empty" \in Symbols /\ SigOf(k) # "empty"
      /\ <<>> \in Seq(Symbols) /\ "CHECKSIG" \in Operations
  BY SMT, SMTT(20) DEF Symbols, SigOf, Operations
<1>1. ASSUME NEW x \in Symbols
      PROVE  LET m == ScriptStep(Machine(Append(Append(s, x), k), b), "CHECKSIG", lock)
             IN  /\ x = SigOf(k) => m = Machine(Append(s, "true"), b)
                 /\ x = "empty" => m = Machine(Append(s, "empty"), b)
                 /\ x \notin {SigOf(k), "empty"} => ~m.ok
  <2> DEFINE t == Append(Append(s, x), k)
             m == Machine(t, b)
  <2>1. t \in Seq(Symbols) /\ Len(m.stack) >= 2 /\ Item(m, 0) = k /\ Item(m, 1) = x /\ Pop(m, 2) = s
    BY <1>a, TopItems, SMT, SMTT(20)
  <2> HIDE DEF t
  <2>2. ScriptStep(m, "CHECKSIG", lock) = Exec(m, "CHECKSIG", lock)
    BY <1>a, <2>1, StepExec, SMT, SMTT(20)
  <2>3. Push(m, 2, "true") = Machine(Append(s, "true"), b)
    BY <1>a, <2>1, Pushes, SMT, SMTT(20)
  <2>4. Push(m, 2, "empty") = Machine(Append(s, "empty"), b)
    BY <1>a, <2>1, Pushes, SMT, SMTT(20)
  <2>5. ~Stopped(m).ok
    BY <2>1, Running
  <2> HIDE DEF m
  <2>6. Exec(m, "CHECKSIG", lock) = IF x = SigOf(k) THEN Push(m, 2, "true")
                                    ELSE IF x = "empty" THEN Push(m, 2, "empty") ELSE Stopped(m)
    BY <2>1 DEF Exec, Stopped
  <2>7. /\ x = SigOf(k) => ScriptStep(m, "CHECKSIG", lock) = Machine(Append(s, "true"), b)
        /\ x = "empty" => ScriptStep(m, "CHECKSIG", lock) = Machine(Append(s, "empty"), b)
        /\ x \notin {SigOf(k), "empty"} => ~ScriptStep(m, "CHECKSIG", lock).ok
    BY <1>a, <2>2, <2>3, <2>4, <2>5, <2>6
  <2> QED BY <2>7 DEF m, t
<1>2. ~ScriptStep(Machine(Append(<<>>, k), b), "CHECKSIG", lock).ok
  <2> DEFINE t == Append(<<>>, k)
             m == Machine(t, b)
  <2>1. t \in Seq(Symbols) /\ Len(t) = 1
    BY <1>a, SMT, SMTT(20)
  <2> HIDE DEF t
  <2>2. m.stack = t
    BY <2>1, MachineFields
  <2>3. ScriptStep(m, "CHECKSIG", lock) = Exec(m, "CHECKSIG", lock)
    BY <1>a, <2>1, StepExec
  <2>4. ~Stopped(m).ok
    BY <2>1, Running
  <2> HIDE DEF m
  <2>5. Exec(m, "CHECKSIG", lock) = Stopped(m)
    <3>a. Len(m.stack) = 1
      BY <2>1, <2>2
    <3>1. ~(Len(m.stack) >= 2)
      BY <3>a, SMT, SMTT(20)
    <3> QED BY <3>1 DEF Exec, Stopped
  <2>6. ~ScriptStep(m, "CHECKSIG", lock).ok
    BY <2>3, <2>4, <2>5
  <2> QED BY <2>6 DEF m, t
<1> QED BY <1>1, <1>2

\* SIZE pushes the size of the top item, SHA256 replaces it by its hash; both stop
\* on an empty stack.
LEMMA StepHash ==
  ASSUME NEW s \in Seq(Symbols), NEW b \in Seq(BOOLEAN), Live(b), NEW x \in Symbols, NEW lock
  PROVE  /\ ScriptStep(Machine(Append(s, x), b), "SIZE", lock)
              = Machine(Append(Append(s, x), IF x \in {"preimage", "junk"} THEN "32" ELSE "size"), b)
         /\ ScriptStep(Machine(Append(s, x), b), "SHA256", lock)
              = Machine(Append(s, IF x = "preimage" THEN "hash" ELSE "digest"), b)
<1> DEFINE t == Append(s, x)
           m == Machine(t, b)
           size == IF x \in {"preimage", "junk"} THEN "32" ELSE "size"
           hash == IF x = "preimage" THEN "hash" ELSE "digest"
<1>a. size \in Symbols /\ hash \in Symbols /\ {"SIZE", "SHA256"} \subseteq Operations
  BY DEF Symbols, Operations
<1>1. t \in Seq(Symbols) /\ Len(m.stack) >= 1 /\ Item(m, 0) = x /\ Pop(m, 0) = t /\ Pop(m, 1) = s
  BY TopItem
<1> HIDE DEF t, size, hash
<1>2. ScriptStep(m, "SIZE", lock) = Exec(m, "SIZE", lock)
  BY <1>a, <1>1, StepExec, SMT, SMTT(20)
<1>3. ScriptStep(m, "SHA256", lock) = Exec(m, "SHA256", lock)
  BY <1>a, <1>1, StepExec, SMT, SMTT(20)
<1>4. Push(m, 0, size) = Machine(Append(t, size), b)
  BY <1>a, <1>1, Pushes, SMT, SMTT(20)
<1>5. Push(m, 1, hash) = Machine(Append(s, hash), b)
  BY <1>a, <1>1, Pushes, SMT, SMTT(20)
<1> HIDE DEF m
<1>6. Exec(m, "SIZE", lock) = Push(m, 0, size)
  BY <1>1 DEF Exec, size
<1>7. Exec(m, "SHA256", lock) = Push(m, 1, hash)
  BY <1>1 DEF Exec, hash
<1>8. ScriptStep(m, "SIZE", lock) = Machine(Append(t, size), b)
  BY <1>2, <1>4, <1>6
<1>9. ScriptStep(m, "SHA256", lock) = Machine(Append(s, hash), b)
  BY <1>3, <1>5, <1>7
<1> QED BY <1>8, <1>9 DEF m, t, size, hash

\* SIZE stops on an empty stack.
LEMMA StepHashEmpty ==
  ASSUME NEW b \in Seq(BOOLEAN), Live(b), NEW lock
  PROVE  ~ScriptStep(Machine(<<>>, b), "SIZE", lock).ok
<1> DEFINE m == Machine(<<>>, b)
<1>a. <<>> \in Seq(Symbols) /\ "SIZE" \in Operations /\ Len(<<>>) = 0
  BY SMT, SMTT(20) DEF Operations
<1>1. m.stack = <<>>
  BY <1>a, MachineFields
<1>2. ScriptStep(m, "SIZE", lock) = Exec(m, "SIZE", lock)
  BY <1>a, StepExec
<1>3. ~Stopped(m).ok
  BY <1>a, Running
<1> HIDE DEF m
<1>4. Exec(m, "SIZE", lock) = Stopped(m)
  <2>1. Len(m.stack) = 0
    BY <1>1, SMT, SMTT(20)
  <2>2. ~(Len(m.stack) >= 1)
    BY <2>1, SMT, SMTT(20)
  <2> QED BY <2>2 DEF Exec, Stopped
<1>5. ~ScriptStep(m, "SIZE", lock).ok
  BY <1>2, <1>3, <1>4
<1> QED BY <1>5 DEF m

\* EQUALVERIFY takes two equal items off, and stops on others.
LEMMA StepEqualVerify ==
  ASSUME NEW s \in Seq(Symbols), NEW b \in Seq(BOOLEAN), Live(b),
         NEW x \in Symbols, NEW y \in Symbols, NEW lock
  PROVE  LET m == ScriptStep(Machine(Append(Append(s, x), y), b), "EQUALVERIFY", lock)
         IN  IF x = y THEN m = Machine(s, b) ELSE ~m.ok
<1> DEFINE t == Append(Append(s, x), y)
           m == Machine(t, b)
<1>a. "EQUALVERIFY" \in Operations
  BY DEF Operations
<1>1. t \in Seq(Symbols) /\ Len(m.stack) >= 2 /\ Item(m, 0) = y /\ Item(m, 1) = x /\ Pop(m, 2) = s
  BY TopItems, SMT, SMTT(20)
<1> HIDE DEF t
<1>2. ScriptStep(m, "EQUALVERIFY", lock) = Exec(m, "EQUALVERIFY", lock)
  BY <1>a, <1>1, StepExec
<1>3. SetStack(m, s) = Machine(s, b) /\ ~Stopped(m).ok
  BY <1>1, Running
<1> HIDE DEF m
<1>4. Exec(m, "EQUALVERIFY", lock) = IF x = y THEN SetStack(m, s) ELSE Stopped(m)
  BY <1>1 DEF Exec, SetStack, Stopped
<1>5. IF x = y THEN ScriptStep(m, "EQUALVERIFY", lock) = Machine(s, b)
      ELSE ~ScriptStep(m, "EQUALVERIFY", lock).ok
  BY <1>2, <1>3, <1>4
<1> QED BY <1>5 DEF m, t

\* CSV stops on an input that is too young.
LEMMA StepCsv ==
  ASSUME NEW s \in Seq(Symbols), NEW b \in Seq(BOOLEAN), Live(b), NEW lock
  PROVE  LET m == ScriptStep(Machine(s, b), "CSV", lock)
         IN  IF lock >= OpenCsv THEN m = Machine(s, b) ELSE ~m.ok
<1> DEFINE m == Machine(s, b)
<1>a. "CSV" \in Operations
  BY DEF Operations
<1>1. ScriptStep(m, "CSV", lock) = Exec(m, "CSV", lock)
  BY <1>a, StepExec
<1>2. ~Stopped(m).ok
  BY Running
<1> HIDE DEF m
<1>3. Exec(m, "CSV", lock) = IF lock >= OpenCsv THEN m ELSE Stopped(m)
  BY DEF Exec, Stopped
<1>4. IF lock >= OpenCsv THEN ScriptStep(m, "CSV", lock) = m ELSE ~ScriptStep(m, "CSV", lock).ok
  BY <1>1, <1>2, <1>3
<1> QED BY <1>4 DEF m

-----------------------------------------------------------------------------
(* The script, branch by branch. *)

\* Outside every branch; an empty stack.
NoBranch == <<>>
NoItem == <<>>

\* The states of the machine follow the script.
Follows(r, lock) ==
  /\ r[1] = ScriptStep(r[0], "maker", lock)
  /\ r[2] = ScriptStep(r[1], "CHECKSIG", lock)
  /\ r[3] = ScriptStep(r[2], "NOTIF", lock)
  /\ r[4] = ScriptStep(r[3], "maker", lock)
  /\ r[5] = ScriptStep(r[4], "CHECKSIG", lock)
  /\ r[6] = ScriptStep(r[5], "NOTIF", lock)
  /\ r[7] = ScriptStep(r[6], "SIZE", lock)
  /\ r[8] = ScriptStep(r[7], "32", lock)
  /\ r[9] = ScriptStep(r[8], "EQUALVERIFY", lock)
  /\ r[10] = ScriptStep(r[9], "SHA256", lock)
  /\ r[11] = ScriptStep(r[10], "hash", lock)
  /\ r[12] = ScriptStep(r[11], "EQUALVERIFY", lock)
  /\ r[13] = ScriptStep(r[12], "ENDIF", lock)
  /\ r[14] = ScriptStep(r[13], "taker", lock)
  /\ r[15] = ScriptStep(r[14], "CHECKSIG", lock)
  /\ r[16] = ScriptStep(r[15], "ELSE", lock)
  /\ r[17] = ScriptStep(r[16], "csv", lock)
  /\ r[18] = ScriptStep(r[17], "CSV", lock)
  /\ r[19] = ScriptStep(r[18], "ENDIF", lock)

\* They do in the execution.
LEMMA ExecutionFollows ==
  ASSUME NEW w, NEW lock
  PROVE  Follows(Execution(w, lock), lock) /\ Execution(w, lock)[0] = Machine(w, NoBranch)
<1> DEFINE r == Execution(w, lock)
<1>1. /\ r[0] = [stack |-> w, in |-> <<>>, ok |-> TRUE]
      /\ \A n \in 1..19 : r[n] = ScriptStep(r[n - 1], OpeningTxScript[n], lock)
  BY ExecutionSteps
<1> HIDE DEF r
<1>2. /\ r[1] = ScriptStep(r[0], OpeningTxScript[1], lock)
      /\ r[2] = ScriptStep(r[1], OpeningTxScript[2], lock)
      /\ r[3] = ScriptStep(r[2], OpeningTxScript[3], lock)
      /\ r[4] = ScriptStep(r[3], OpeningTxScript[4], lock)
      /\ r[5] = ScriptStep(r[4], OpeningTxScript[5], lock)
      /\ r[6] = ScriptStep(r[5], OpeningTxScript[6], lock)
      /\ r[7] = ScriptStep(r[6], OpeningTxScript[7], lock)
      /\ r[8] = ScriptStep(r[7], OpeningTxScript[8], lock)
      /\ r[9] = ScriptStep(r[8], OpeningTxScript[9], lock)
      /\ r[10] = ScriptStep(r[9], OpeningTxScript[10], lock)
      /\ r[11] = ScriptStep(r[10], OpeningTxScript[11], lock)
      /\ r[12] = ScriptStep(r[11], OpeningTxScript[12], lock)
      /\ r[13] = ScriptStep(r[12], OpeningTxScript[13], lock)
      /\ r[14] = ScriptStep(r[13], OpeningTxScript[14], lock)
      /\ r[15] = ScriptStep(r[14], OpeningTxScript[15], lock)
      /\ r[16] = ScriptStep(r[15], OpeningTxScript[16], lock)
      /\ r[17] = ScriptStep(r[16], OpeningTxScript[17], lock)
      /\ r[18] = ScriptStep(r[17], OpeningTxScript[18], lock)
      /\ r[19] = ScriptStep(r[18], OpeningTxScript[19], lock)
  BY <1>1, SMT, SMTT(20)
<1>3. Follows(r, lock)
  BY <1>2, Opcodes, SMT, SMTT(20) DEF Follows
<1>4. r[0] = Machine(w, NoBranch)
  BY <1>1 DEF Machine, NoBranch
<1> QED BY <1>3, <1>4 DEF r

\* A machine that ends in order was never stopped.
LEMMA NeverStopped ==
  ASSUME NEW r, NEW lock, Follows(r, lock), r[19].ok
  PROVE  r[2].ok /\ r[5].ok /\ r[7].ok /\ r[9].ok /\ r[12].ok /\ r[15].ok /\ r[18].ok
<1>1. /\ r[1].ok => r[0].ok
      /\ r[2].ok => r[1].ok
      /\ r[3].ok => r[2].ok
      /\ r[4].ok => r[3].ok
      /\ r[5].ok => r[4].ok
      /\ r[6].ok => r[5].ok
      /\ r[7].ok => r[6].ok
      /\ r[8].ok => r[7].ok
      /\ r[9].ok => r[8].ok
      /\ r[10].ok => r[9].ok
      /\ r[11].ok => r[10].ok
      /\ r[12].ok => r[11].ok
      /\ r[13].ok => r[12].ok
      /\ r[14].ok => r[13].ok
      /\ r[15].ok => r[14].ok
      /\ r[16].ok => r[15].ok
      /\ r[17].ok => r[16].ok
      /\ r[18].ok => r[17].ok
      /\ r[19].ok => r[18].ok
  BY StepStopped, SMT, SMTT(20) DEF Follows
<1> QED BY <1>1

\* The branches of the script.
OuterTaken == Append(NoBranch, TRUE)
OuterSkipped == Append(NoBranch, FALSE)
InnerTaken == Append(OuterTaken, TRUE)
InnerSkipped == Append(OuterTaken, FALSE)
BothSkipped == Append(OuterSkipped, FALSE)

\* Which of them are live.
LEMMA BranchFacts ==
  /\ {NoBranch, OuterTaken, OuterSkipped, InnerTaken, InnerSkipped, BothSkipped} \subseteq Seq(BOOLEAN)
  /\ Live(NoBranch) /\ Live(OuterTaken) /\ Live(InnerTaken)
  /\ ~Live(OuterSkipped) /\ ~Live(InnerSkipped) /\ ~Live(BothSkipped)
<1>1. NoBranch \in Seq(BOOLEAN) /\ Live(NoBranch)
  BY Branches, SMT, SMTT(20) DEF NoBranch
<1>2. OuterTaken \in Seq(BOOLEAN) /\ OuterSkipped \in Seq(BOOLEAN)
  BY <1>1, SMT, SMTT(20) DEF OuterTaken, OuterSkipped
<1>3. Live(OuterTaken) /\ ~Live(OuterSkipped)
  BY <1>1, Branches DEF OuterTaken, OuterSkipped
<1>4. InnerTaken \in Seq(BOOLEAN) /\ InnerSkipped \in Seq(BOOLEAN) /\ BothSkipped \in Seq(BOOLEAN)
  BY <1>2, SMT, SMTT(20) DEF InnerTaken, InnerSkipped, BothSkipped
<1>5. Live(InnerTaken) /\ ~Live(InnerSkipped) /\ ~Live(BothSkipped)
  BY <1>2, <1>3, Branches DEF InnerTaken, InnerSkipped, BothSkipped
<1> QED BY <1>1, <1>2, <1>3, <1>4, <1>5

\* A stack with one item more.
On(s, x) == Append(s, x)

\* What the machine works on.
Stacks == Seq(Symbols)

\* A stack is empty or has a top.
LEMMA StackFacts ==
  /\ NoItem \in Stacks
  /\ \A s \in Stacks, x \in Symbols : On(s, x) \in Stacks
  /\ Pushed \subseteq Symbols /\ {"true", "empty", "size", "digest"} \subseteq Symbols
<1>1. NoItem \in Stacks
  BY SMT, SMTT(20) DEF NoItem, Stacks
<1>2. \A s \in Stacks, x \in Symbols : On(s, x) \in Stacks
  BY SMT, SMTT(20) DEF On, Stacks
<1>3. Pushed \subseteq Symbols /\ {"true", "empty", "size", "digest"} \subseteq Symbols
  BY DEF Pushed, Symbols
<1> QED BY <1>1, <1>2, <1>3

\* The branches that are taken, and those that are not.
Taken == {NoBranch, OuterTaken, InnerTaken}
Skipped == {OuterSkipped, InnerSkipped, BothSkipped}

\* What each opcode does to a stack inside and outside a taken branch.
LEMMA RulePush ==
  ASSUME NEW s \in Stacks, NEW b \in Taken, NEW op \in Pushed, NEW lock
  PROVE  ScriptStep(Machine(s, b), op, lock) = Machine(On(s, op), b)
<1>1. s \in Seq(Symbols) /\ b \in Seq(BOOLEAN) /\ Live(b)
  BY BranchFacts DEF Stacks, Taken
<1>2. ScriptStep(Machine(s, b), op, lock) = Machine(Append(s, op), b)
  BY <1>1, StepPush
<1> QED BY <1>2 DEF On

\* Outside a taken branch the stack stays.
LEMMA RuleSkip ==
  ASSUME NEW s \in Stacks, NEW b \in Skipped, NEW op, NEW lock, op \notin {"NOTIF", "ELSE", "ENDIF"}
  PROVE  ScriptStep(Machine(s, b), op, lock) = Machine(s, b)
<1>1. s \in Seq(Symbols) /\ b \in Seq(BOOLEAN) /\ ~Live(b)
  BY BranchFacts DEF Stacks, Skipped
<1> QED BY <1>1, StepSkip

\* CHECKSIG tells the signature of the key, an empty item and any other apart;
LEMMA RuleCheckSig ==
  ASSUME NEW s \in Stacks, NEW b \in Taken, NEW k \in {"maker", "taker"}, NEW lock, NEW x \in Symbols
  PROVE  LET m == ScriptStep(Machine(On(On(s, x), k), b), "CHECKSIG", lock)
         IN  /\ x = SigOf(k) => m = Machine(On(s, "true"), b)
             /\ x = "empty" => m = Machine(On(s, "empty"), b)
             /\ x \notin {SigOf(k), "empty"} => ~m.ok
<1>1. s \in Seq(Symbols) /\ b \in Seq(BOOLEAN) /\ Live(b)
  BY BranchFacts DEF Stacks, Taken
<1> DEFINE m == ScriptStep(Machine(Append(Append(s, x), k), b), "CHECKSIG", lock)
<1>2. /\ x = SigOf(k) => m = Machine(Append(s, "true"), b)
      /\ x = "empty" => m = Machine(Append(s, "empty"), b)
      /\ x \notin {SigOf(k), "empty"} => ~m.ok
  BY <1>1, StepCheckSig
<1> QED BY <1>2 DEF On

\* without an item below the key it stops.
LEMMA RuleNoSig ==
  ASSUME NEW b \in Taken, NEW k \in {"maker", "taker"}, NEW lock
  PROVE  ~ScriptStep(Machine(On(NoItem, k), b), "CHECKSIG", lock).ok
<1>1. <<>> \in Seq(Symbols) /\ b \in Seq(BOOLEAN) /\ Live(b)
  BY BranchFacts, SMT, SMTT(20) DEF Taken
<1>2. ~ScriptStep(Machine(Append(<<>>, k), b), "CHECKSIG", lock).ok
  BY <1>1, StepCheckSig
<1> QED BY <1>2 DEF On, NoItem

\* SIZE and SHA256 look at the top.
LEMMA RuleSize ==
  ASSUME NEW s \in Stacks, NEW lock, NEW x \in Symbols, NEW b \in Taken
  PROVE  /\ ScriptStep(Machine(On(s, x), b), "SIZE", lock)
              = Machine(On(On(s, x), IF x \in {"preimage", "junk"} THEN "32" ELSE "size"), b)
         /\ ScriptStep(Machine(On(s, x), b), "SHA256", lock)
              = Machine(On(s, IF x = "preimage" THEN "hash" ELSE "digest"), b)
         /\ ~ScriptStep(Machine(NoItem, b), "SIZE", lock).ok
<1>1. s \in Seq(Symbols) /\ b \in Seq(BOOLEAN) /\ Live(b)
  BY BranchFacts DEF Stacks, Taken
<1>2. /\ ScriptStep(Machine(Append(s, x), b), "SIZE", lock)
              = Machine(Append(Append(s, x), IF x \in {"preimage", "junk"} THEN "32" ELSE "size"), b)
      /\ ScriptStep(Machine(Append(s, x), b), "SHA256", lock)
              = Machine(Append(s, IF x = "preimage" THEN "hash" ELSE "digest"), b)
  BY <1>1, StepHash
<1>3. ~ScriptStep(Machine(<<>>, b), "SIZE", lock).ok
  BY <1>1, StepHashEmpty
<1> QED BY <1>2, <1>3 DEF On, NoItem

\* EQUALVERIFY stops unless the two items are the same.
LEMMA RuleEqualVerify ==
  ASSUME NEW s \in Stacks, NEW x \in Symbols, NEW y \in Symbols, NEW b \in Taken, NEW lock
  PROVE  LET m == ScriptStep(Machine(On(On(s, x), y), b), "EQUALVERIFY", lock)
         IN  IF x = y THEN m = Machine(s, b) ELSE ~m.ok
<1>1. s \in Seq(Symbols) /\ b \in Seq(BOOLEAN) /\ Live(b)
  BY BranchFacts DEF Stacks, Taken
<1>2. LET m == ScriptStep(Machine(Append(Append(s, x), y), b), "EQUALVERIFY", lock)
      IN  IF x = y THEN m = Machine(s, b) ELSE ~m.ok
  BY <1>1, StepEqualVerify
<1> QED BY <1>2 DEF On

\* CSV stops on an input younger than the lock.
LEMMA RuleCsv ==
  ASSUME NEW s \in Stacks, NEW b \in Taken, NEW lock
  PROVE  LET m == ScriptStep(Machine(s, b), "CSV", lock)
         IN  IF lock >= OpenCsv THEN m = Machine(s, b) ELSE ~m.ok
<1>1. s \in Seq(Symbols) /\ b \in Seq(BOOLEAN) /\ Live(b)
  BY BranchFacts DEF Stacks, Taken
<1> QED BY <1>1, StepCsv

\* NOTIF enters a branch, taken on an empty item only.
LEMMA RuleNotIf ==
  ASSUME NEW s \in Stacks, NEW x \in Symbols, NEW lock
  PROVE  /\ x = "empty" => /\ ScriptStep(Machine(On(s, x), NoBranch), "NOTIF", lock) = Machine(s, OuterTaken)
                           /\ ScriptStep(Machine(On(s, x), OuterTaken), "NOTIF", lock) = Machine(s, InnerTaken)
         /\ x # "empty" => /\ ScriptStep(Machine(On(s, x), NoBranch), "NOTIF", lock) = Machine(s, OuterSkipped)
                           /\ ScriptStep(Machine(On(s, x), OuterTaken), "NOTIF", lock) = Machine(s, InnerSkipped)
         /\ ScriptStep(Machine(s, OuterSkipped), "NOTIF", lock) = Machine(s, BothSkipped)
<1>1. s \in Seq(Symbols)
  BY DEF Stacks
<1> DEFINE c == (x = "empty")
<1>2. /\ ScriptStep(Machine(Append(s, x), NoBranch), "NOTIF", lock) = Machine(s, Append(NoBranch, c))
      /\ ScriptStep(Machine(Append(s, x), OuterTaken), "NOTIF", lock) = Machine(s, Append(OuterTaken, c))
  BY <1>1, BranchFacts, StepNotIf, SMT, SMTT(20)
<1>3. ScriptStep(Machine(s, OuterSkipped), "NOTIF", lock) = Machine(s, Append(OuterSkipped, FALSE))
  BY <1>1, BranchFacts, StepNotIfDead
<1>4. c \in BOOLEAN /\ (x = "empty" => c = TRUE) /\ (x # "empty" => c = FALSE)
  OBVIOUS
<1> HIDE DEF c
<1>5. CASE x = "empty"
  BY <1>2, <1>3, <1>4, <1>5 DEF On, OuterTaken, InnerTaken, BothSkipped
<1>6. CASE x # "empty"
  BY <1>2, <1>3, <1>4, <1>6 DEF On, OuterSkipped, InnerSkipped, BothSkipped
<1> QED BY <1>5, <1>6

\* ELSE turns the outer branch,
LEMMA RuleElse ==
  ASSUME NEW s \in Stacks, NEW lock
  PROVE  /\ ScriptStep(Machine(s, OuterTaken), "ELSE", lock) = Machine(s, OuterSkipped)
         /\ ScriptStep(Machine(s, OuterSkipped), "ELSE", lock) = Machine(s, OuterTaken)
<1>1. s \in Seq(Symbols)
  BY DEF Stacks
<1>2. /\ ScriptStep(Machine(s, Append(NoBranch, TRUE)), "ELSE", lock) = Machine(s, Append(NoBranch, ~TRUE))
      /\ ScriptStep(Machine(s, Append(NoBranch, FALSE)), "ELSE", lock) = Machine(s, Append(NoBranch, ~FALSE))
  BY <1>1, BranchFacts, StepElse
<1>3. (~TRUE) = FALSE /\ (~FALSE) = TRUE
  OBVIOUS
<1> QED BY <1>2, <1>3 DEF OuterTaken, OuterSkipped

\* and ENDIF leaves a branch.
LEMMA RuleEndIf ==
  ASSUME NEW s \in Stacks, NEW lock
  PROVE  /\ ScriptStep(Machine(s, OuterTaken), "ENDIF", lock) = Machine(s, NoBranch)
         /\ ScriptStep(Machine(s, OuterSkipped), "ENDIF", lock) = Machine(s, NoBranch)
         /\ ScriptStep(Machine(s, InnerTaken), "ENDIF", lock) = Machine(s, OuterTaken)
         /\ ScriptStep(Machine(s, InnerSkipped), "ENDIF", lock) = Machine(s, OuterTaken)
         /\ ScriptStep(Machine(s, BothSkipped), "ENDIF", lock) = Machine(s, OuterSkipped)
<1>1. s \in Seq(Symbols)
  BY DEF Stacks
<1>2. /\ ScriptStep(Machine(s, Append(NoBranch, TRUE)), "ENDIF", lock) = Machine(s, NoBranch)
      /\ ScriptStep(Machine(s, Append(NoBranch, FALSE)), "ENDIF", lock) = Machine(s, NoBranch)
      /\ ScriptStep(Machine(s, Append(OuterTaken, TRUE)), "ENDIF", lock) = Machine(s, OuterTaken)
      /\ ScriptStep(Machine(s, Append(OuterTaken, FALSE)), "ENDIF", lock) = Machine(s, OuterTaken)
      /\ ScriptStep(Machine(s, Append(OuterSkipped, FALSE)), "ENDIF", lock) = Machine(s, OuterSkipped)
  BY <1>1, BranchFacts, StepEndIf
<1> QED BY <1>2 DEF OuterTaken, OuterSkipped, InnerTaken, InnerSkipped, BothSkipped

\* The first item chooses: the maker's signature skips the outer branch, an empty
\* one takes it, and any other stops the machine, as does an empty witness.
LEMMA SegmentFirst ==
  ASSUME NEW r, NEW lock, Follows(r, lock), NEW s \in Stacks, NEW x \in Symbols
  PROVE  /\ r[0] = Machine(NoItem, NoBranch) => ~r[2].ok
         /\ r[0] = Machine(On(s, x), NoBranch) =>
              /\ x = "makerSig" => r[3] = Machine(s, OuterSkipped)
              /\ x = "empty" => r[3] = Machine(s, OuterTaken)
              /\ x \notin {"makerSig", "empty"} => ~r[2].ok
<1>a. /\ NoBranch \in Taken /\ "maker" \in Pushed /\ SigOf("maker") = "makerSig" /\ "maker" \in {"maker", "taker"}
      /\ "true" # "empty"
  BY DEF Taken, Pushed, SigOf
<1>1. /\ r[1] = ScriptStep(r[0], "maker", lock)
      /\ r[2] = ScriptStep(r[1], "CHECKSIG", lock)
      /\ r[3] = ScriptStep(r[2], "NOTIF", lock)
  BY DEF Follows
<1>2. ASSUME r[0] = Machine(NoItem, NoBranch)
      PROVE  ~r[2].ok
  <2>1. r[1] = Machine(On(NoItem, "maker"), NoBranch)
    BY <1>a, <1>1, <1>2, StackFacts, RulePush, SMT, SMTT(20)
  <2> QED BY <1>a, <1>1, <2>1, RuleNoSig
<1>3. ASSUME r[0] = Machine(On(s, x), NoBranch)
      PROVE  /\ x = "makerSig" => r[3] = Machine(s, OuterSkipped)
             /\ x = "empty" => r[3] = Machine(s, OuterTaken)
             /\ x \notin {"makerSig", "empty"} => ~r[2].ok
  <2>1. r[1] = Machine(On(On(s, x), "maker"), NoBranch)
    BY <1>a, <1>1, <1>3, StackFacts, RulePush, SMT, SMTT(20)
  <2>2. /\ x = "makerSig" => r[2] = Machine(On(s, "true"), NoBranch)
        /\ x = "empty" => r[2] = Machine(On(s, "empty"), NoBranch)
        /\ x \notin {"makerSig", "empty"} => ~r[2].ok
    BY <1>a, <1>1, <2>1, RuleCheckSig, SMT, SMTT(20)
  <2>3. "true" \in Symbols /\ "empty" \in Symbols
    BY DEF Symbols
  <2>4. /\ ScriptStep(Machine(On(s, "true"), NoBranch), "NOTIF", lock) = Machine(s, OuterSkipped)
        /\ ScriptStep(Machine(On(s, "empty"), NoBranch), "NOTIF", lock) = Machine(s, OuterTaken)
    BY <1>a, <2>3, RuleNotIf
  <2> QED BY <1>1, <2>2, <2>4
<1> QED BY <1>2, <1>3

\* Outside the outer branch the lock decides.
LEMMA SegmentCsv ==
  ASSUME NEW r, NEW lock, Follows(r, lock), NEW s \in Stacks, r[3] = Machine(s, OuterSkipped)
  PROVE  IF lock >= OpenCsv THEN r[19] = Machine(On(s, "csv"), NoBranch) ELSE ~r[18].ok
<1>a. OuterSkipped \in Skipped /\ BothSkipped \in Skipped /\ OuterTaken \in Taken /\ "csv" \in Pushed
  BY DEF Taken, Skipped, Pushed
<1>1. r[4] = Machine(s, OuterSkipped)
  BY <1>a, RuleSkip, SMT, SMTT(20) DEF Follows
<1>2. r[5] = Machine(s, OuterSkipped)
  BY <1>a, <1>1, RuleSkip, SMT, SMTT(20) DEF Follows
<1>3. r[6] = Machine(s, BothSkipped)
  <2>1. r[6] = ScriptStep(Machine(s, OuterSkipped), "NOTIF", lock)
    BY <1>2 DEF Follows
  <2> QED BY <2>1, StackFacts, RuleNotIf
<1>4. r[7] = Machine(s, BothSkipped)
  BY <1>a, <1>3, RuleSkip, SMT, SMTT(20) DEF Follows
<1>5. r[8] = Machine(s, BothSkipped)
  BY <1>a, <1>4, RuleSkip, SMT, SMTT(20) DEF Follows
<1>6. r[9] = Machine(s, BothSkipped)
  BY <1>a, <1>5, RuleSkip, SMT, SMTT(20) DEF Follows
<1>7. r[10] = Machine(s, BothSkipped)
  BY <1>a, <1>6, RuleSkip, SMT, SMTT(20) DEF Follows
<1>8. r[11] = Machine(s, BothSkipped)
  BY <1>a, <1>7, RuleSkip, SMT, SMTT(20) DEF Follows
<1>9. r[12] = Machine(s, BothSkipped)
  BY <1>a, <1>8, RuleSkip, SMT, SMTT(20) DEF Follows
<1>10. r[13] = Machine(s, OuterSkipped)
  BY <1>9, RuleEndIf DEF Follows
<1>11. r[14] = Machine(s, OuterSkipped)
  BY <1>a, <1>10, RuleSkip, SMT, SMTT(20) DEF Follows
<1>12. r[15] = Machine(s, OuterSkipped)
  BY <1>a, <1>11, RuleSkip, SMT, SMTT(20) DEF Follows
<1>13. r[16] = Machine(s, OuterTaken)
  BY <1>12, RuleElse DEF Follows
<1>14. r[17] = Machine(On(s, "csv"), OuterTaken) /\ On(s, "csv") \in Stacks
  BY <1>a, <1>13, RulePush, StackFacts, SMT, SMTT(20) DEF Follows
<1>15. IF lock >= OpenCsv THEN r[18] = Machine(On(s, "csv"), OuterTaken) ELSE ~r[18].ok
  BY <1>a, <1>14, RuleCsv DEF Follows
<1>16. r[19] = ScriptStep(r[18], "ENDIF", lock)
  BY DEF Follows
<1> QED BY <1>14, <1>15, <1>16, RuleEndIf

\* In the outer branch the next item chooses in the same way.
LEMMA SegmentSecond ==
  ASSUME NEW r, NEW lock, Follows(r, lock), NEW s \in Stacks, NEW x \in Symbols
  PROVE  /\ r[3] = Machine(NoItem, OuterTaken) => ~r[5].ok
         /\ r[3] = Machine(On(s, x), OuterTaken) =>
              /\ x = "makerSig" => r[6] = Machine(s, InnerSkipped)
              /\ x = "empty" => r[6] = Machine(s, InnerTaken)
              /\ x \notin {"makerSig", "empty"} => ~r[5].ok
<1>a. /\ OuterTaken \in Taken /\ "maker" \in Pushed /\ SigOf("maker") = "makerSig" /\ "maker" \in {"maker", "taker"}
      /\ "true" # "empty"
  BY DEF Taken, Pushed, SigOf
<1>1. /\ r[4] = ScriptStep(r[3], "maker", lock)
      /\ r[5] = ScriptStep(r[4], "CHECKSIG", lock)
      /\ r[6] = ScriptStep(r[5], "NOTIF", lock)
  BY DEF Follows
<1>2. ASSUME r[3] = Machine(NoItem, OuterTaken)
      PROVE  ~r[5].ok
  <2>1. r[4] = Machine(On(NoItem, "maker"), OuterTaken)
    BY <1>a, <1>1, <1>2, StackFacts, RulePush, SMT, SMTT(20)
  <2> QED BY <1>a, <1>1, <2>1, RuleNoSig
<1>3. ASSUME r[3] = Machine(On(s, x), OuterTaken)
      PROVE  /\ x = "makerSig" => r[6] = Machine(s, InnerSkipped)
             /\ x = "empty" => r[6] = Machine(s, InnerTaken)
             /\ x \notin {"makerSig", "empty"} => ~r[5].ok
  <2>1. r[4] = Machine(On(On(s, x), "maker"), OuterTaken)
    BY <1>a, <1>1, <1>3, StackFacts, RulePush, SMT, SMTT(20)
  <2>2. /\ x = "makerSig" => r[5] = Machine(On(s, "true"), OuterTaken)
        /\ x = "empty" => r[5] = Machine(On(s, "empty"), OuterTaken)
        /\ x \notin {"makerSig", "empty"} => ~r[5].ok
    BY <1>a, <1>1, <2>1, RuleCheckSig, SMT, SMTT(20)
  <2>3. "true" \in Symbols /\ "empty" \in Symbols
    BY DEF Symbols
  <2>4. /\ ScriptStep(Machine(On(s, "true"), OuterTaken), "NOTIF", lock) = Machine(s, InnerSkipped)
        /\ ScriptStep(Machine(On(s, "empty"), OuterTaken), "NOTIF", lock) = Machine(s, InnerTaken)
    BY <1>a, <2>3, RuleNotIf
  <2> QED BY <1>1, <2>2, <2>4
<1> QED BY <1>2, <1>3

\* Outside the inner branch the preimage is not asked for.
LEMMA SegmentCoop ==
  ASSUME NEW r, NEW lock, Follows(r, lock), NEW s \in Stacks, r[6] = Machine(s, InnerSkipped)
  PROVE  r[13] = Machine(s, OuterTaken)
<1>a. InnerSkipped \in Skipped
  BY DEF Skipped
<1>1. r[7] = Machine(s, InnerSkipped)
  BY <1>a, RuleSkip, SMT, SMTT(20) DEF Follows
<1>2. r[8] = Machine(s, InnerSkipped)
  BY <1>a, <1>1, RuleSkip, SMT, SMTT(20) DEF Follows
<1>3. r[9] = Machine(s, InnerSkipped)
  BY <1>a, <1>2, RuleSkip, SMT, SMTT(20) DEF Follows
<1>4. r[10] = Machine(s, InnerSkipped)
  BY <1>a, <1>3, RuleSkip, SMT, SMTT(20) DEF Follows
<1>5. r[11] = Machine(s, InnerSkipped)
  BY <1>a, <1>4, RuleSkip, SMT, SMTT(20) DEF Follows
<1>6. r[12] = Machine(s, InnerSkipped)
  BY <1>a, <1>5, RuleSkip, SMT, SMTT(20) DEF Follows
<1> QED BY <1>6, RuleEndIf DEF Follows

\* In the inner branch it is.
LEMMA SegmentPreimage ==
  ASSUME NEW r, NEW lock, Follows(r, lock), NEW s \in Stacks, NEW x \in Symbols
  PROVE  /\ r[6] = Machine(NoItem, InnerTaken) => ~r[7].ok
         /\ r[6] = Machine(On(s, x), InnerTaken) =>
              /\ x = "preimage" => r[13] = Machine(s, OuterTaken)
              /\ x # "preimage" => ~r[9].ok \/ ~r[12].ok
<1>a. InnerTaken \in Taken /\ "32" \in Pushed /\ "hash" \in Pushed /\ "size" # "32" /\ "digest" # "hash"
  BY DEF Taken, Pushed
<1>b. "32" \in Symbols /\ "hash" \in Symbols /\ "size" \in Symbols /\ "digest" \in Symbols
  BY DEF Symbols
<1>1. /\ r[7] = ScriptStep(r[6], "SIZE", lock)
      /\ r[8] = ScriptStep(r[7], "32", lock)
      /\ r[9] = ScriptStep(r[8], "EQUALVERIFY", lock)
      /\ r[10] = ScriptStep(r[9], "SHA256", lock)
      /\ r[11] = ScriptStep(r[10], "hash", lock)
      /\ r[12] = ScriptStep(r[11], "EQUALVERIFY", lock)
      /\ r[13] = ScriptStep(r[12], "ENDIF", lock)
  BY DEF Follows
<1>2. ASSUME r[6] = Machine(NoItem, InnerTaken)
      PROVE  ~r[7].ok
  BY <1>a, <1>1, <1>2, RuleSize, SMT, SMTT(20)
<1>3. ASSUME r[6] = Machine(On(s, x), InnerTaken)
      PROVE  /\ x = "preimage" => r[13] = Machine(s, OuterTaken)
             /\ x # "preimage" => ~r[9].ok \/ ~r[12].ok
  <2> DEFINE size == IF x \in {"preimage", "junk"} THEN "32" ELSE "size"
             hash == IF x = "preimage" THEN "hash" ELSE "digest"
             t == On(s, x)
  <2>1. size \in Symbols /\ hash \in Symbols /\ t \in Stacks
    BY <1>b, StackFacts
  <2>2. r[7] = Machine(On(t, size), InnerTaken) /\ ScriptStep(Machine(t, InnerTaken), "SHA256", lock) = Machine(On(s, hash), InnerTaken)
    BY <1>a, <1>1, <1>3, RuleSize, SMT, SMTT(20)
  <2>3. x = "preimage" => size = "32" /\ hash = "hash"
    OBVIOUS
  <2>4. size # "32" \/ hash # "hash" \/ x = "preimage"
    BY <1>a
  <2> HIDE DEF size, hash, t
  <2>5. r[8] = Machine(On(On(t, size), "32"), InnerTaken)
    <3>1. On(t, size) \in Stacks
      BY <2>1, StackFacts
    <3> QED BY <1>a, <1>1, <2>2, <3>1, RulePush, SMT, SMTT(20)
  <2>6. IF size = "32" THEN r[9] = Machine(t, InnerTaken) ELSE ~r[9].ok
    BY <1>a, <1>b, <1>1, <2>1, <2>5, RuleEqualVerify, SMT, SMTT(20)
  <2>7. CASE size # "32"
    BY <2>3, <2>6, <2>7
  <2>8. CASE size = "32"
    <3>1. r[10] = Machine(On(s, hash), InnerTaken)
      BY <1>1, <2>2, <2>6, <2>8
    <3>2. r[11] = Machine(On(On(s, hash), "hash"), InnerTaken)
      <4>1. On(s, hash) \in Stacks
        BY <2>1, StackFacts
      <4> QED BY <1>a, <1>1, <3>1, <4>1, RulePush
    <3>3. IF hash = "hash" THEN r[12] = Machine(s, InnerTaken) ELSE ~r[12].ok
      BY <1>a, <1>b, <1>1, <2>1, <3>2, RuleEqualVerify, SMT, SMTT(20)
    <3>4. hash = "hash" => r[13] = Machine(s, OuterTaken)
      BY <1>1, <3>3, RuleEndIf
    <3> QED BY <2>3, <2>4, <2>8, <3>3, <3>4
  <2> QED BY <2>7, <2>8
<1> QED BY <1>2, <1>3

\* The outer branch ends with the taker's signature.
LEMMA SegmentLast ==
  ASSUME NEW r, NEW lock, Follows(r, lock), NEW s \in Stacks, NEW x \in Symbols
  PROVE  /\ r[13] = Machine(NoItem, OuterTaken) => ~r[15].ok
         /\ r[13] = Machine(On(s, x), OuterTaken) =>
              /\ x = "takerSig" => r[19] = Machine(On(s, "true"), NoBranch)
              /\ x = "empty" => r[19] = Machine(On(s, "empty"), NoBranch)
              /\ x \notin {"takerSig", "empty"} => ~r[15].ok
<1>a. /\ OuterTaken \in Taken /\ OuterSkipped \in Skipped /\ "taker" \in Pushed /\ SigOf("taker") = "takerSig"
      /\ "taker" \in {"maker", "taker"}
  BY DEF Taken, Skipped, Pushed, SigOf
<1>1. /\ r[14] = ScriptStep(r[13], "taker", lock)
      /\ r[15] = ScriptStep(r[14], "CHECKSIG", lock)
      /\ r[16] = ScriptStep(r[15], "ELSE", lock)
      /\ r[17] = ScriptStep(r[16], "csv", lock)
      /\ r[18] = ScriptStep(r[17], "CSV", lock)
      /\ r[19] = ScriptStep(r[18], "ENDIF", lock)
  BY DEF Follows
<1>2. ASSUME r[13] = Machine(NoItem, OuterTaken)
      PROVE  ~r[15].ok
  <2>1. r[14] = Machine(On(NoItem, "taker"), OuterTaken)
    BY <1>a, <1>1, <1>2, StackFacts, RulePush, SMT, SMTT(20)
  <2> QED BY <1>a, <1>1, <2>1, RuleNoSig
<1>3. ASSUME r[13] = Machine(On(s, x), OuterTaken)
      PROVE  /\ x = "takerSig" => r[15] = Machine(On(s, "true"), OuterTaken)
             /\ x = "empty" => r[15] = Machine(On(s, "empty"), OuterTaken)
             /\ x \notin {"takerSig", "empty"} => ~r[15].ok
  <2>1. r[14] = Machine(On(On(s, x), "taker"), OuterTaken)
    BY <1>a, <1>1, <1>3, StackFacts, RulePush, SMT, SMTT(20)
  <2> QED BY <1>a, <1>1, <2>1, RuleCheckSig, SMT, SMTT(20)
<1>4. ASSUME NEW t \in Stacks, r[15] = Machine(t, OuterTaken)
      PROVE  r[19] = Machine(t, NoBranch)
  <2>1. r[16] = Machine(t, OuterSkipped)
    BY <1>1, <1>4, RuleElse
  <2>2. r[17] = Machine(t, OuterSkipped)
    BY <1>a, <1>1, <2>1, RuleSkip, SMT, SMTT(20)
  <2>3. r[18] = Machine(t, OuterSkipped)
    BY <1>a, <1>1, <2>2, RuleSkip, SMT, SMTT(20)
  <2> QED BY <1>1, <2>3, RuleEndIf
<1>5. On(s, "true") \in Stacks /\ On(s, "empty") \in Stacks
  BY StackFacts
<1> QED BY <1>2, <1>3, <1>4, <1>5

-----------------------------------------------------------------------------
(* The witnesses. *)

\* An item is in a witness.
Occurs(w, y) == \E k \in 1..Len(w) : w[k] = y

\* A witness is empty or has a last item.
LEMMA WitnessParts ==
  ASSUME NEW w \in Stacks
  PROVE  w = NoItem \/ \E s \in Stacks, x \in Symbols : w = On(s, x)
<1>1. CASE Len(w) = 0
  BY <1>1, SMT, SMTT(20) DEF NoItem, Stacks
<1>2. CASE Len(w) # 0
  <2> DEFINE s == SubSeq(w, 1, Len(w) - 1)
             x == w[Len(w)]
  <2>1. Len(w) \in Nat /\ Len(w) >= 1
    BY <1>2, SMT, SMTT(20) DEF Stacks
  <2>2. s \in Stacks /\ x \in Symbols
    BY <2>1, SMT, SMTT(20) DEF Stacks
  <2>3. w = On(s, x)
    BY <2>1, SMT, SMTT(20) DEF Stacks, On
  <2> QED BY <2>2, <2>3
<1> QED BY <1>1, <1>2

\* The top of a stack is in it, and so is what is below.
LEMMA OccursOn ==
  ASSUME NEW s \in Stacks, NEW x \in Symbols, NEW y
  PROVE  Occurs(On(s, x), x) /\ (Occurs(s, y) => Occurs(On(s, x), y))
<1>1. /\ Len(On(s, x)) = Len(s) + 1 /\ Len(s) \in Nat /\ On(s, x)[Len(s) + 1] = x
      /\ \A k \in 1..Len(s) : On(s, x)[k] = s[k]
  BY SMT, SMTT(20) DEF On, Stacks
<1>2. \A k \in 1..Len(s) : k \in 1..(Len(s) + 1)
  BY <1>1, SMT, SMTT(20)
<1>3. Len(s) + 1 \in 1..(Len(s) + 1)
  BY <1>1, SMT, SMTT(20)
<1> QED BY <1>1, <1>2, <1>3 DEF Occurs

\* What the end of the script says of the witness.
LEMMA ScriptEnds ==
  ASSUME NEW w, NEW lock, NEW s \in Stacks, NEW y \in Symbols,
         Execution(w, lock)[19] = Machine(On(s, y), NoBranch)
  PROVE  Unlocks(w, lock) <=> s = NoItem /\ y # "empty"
<1> DEFINE end == Execution(w, lock)[Len(OpeningTxScript)]
<1>1. end = Machine(On(s, y), NoBranch)
  BY Opcodes
<1>2. end.ok /\ end.stack = On(s, y)
  BY <1>1, MachineFields, StackFacts, BranchFacts, SMT, SMTT(20) DEF Stacks
<1>3. Unlocks(w, lock) <=> end.ok /\ Len(end.stack) = 1 /\ end.stack[1] # "empty"
  BY DEF Unlocks
<1> HIDE DEF end
<1>4. Len(On(s, y)) = Len(s) + 1 /\ Len(s) \in Nat /\ On(s, y)[Len(s) + 1] = y
  BY SMT, SMTT(20) DEF On, Stacks
<1>5. Len(s) = 0 <=> s = NoItem
  BY SMT, SMTT(20) DEF Stacks, NoItem
<1> QED BY <1>2, <1>3, <1>4, <1>5, SMT, SMTT(20)

\* The outer branch needs the taker's signature.
LEMMA TakerSigns ==
  ASSUME NEW w, NEW lock, NEW s \in Stacks, Unlocks(w, lock),
         Execution(w, lock)[13] = Machine(s, OuterTaken)
  PROVE  Occurs(s, "takerSig")
<1> DEFINE r == Execution(w, lock)
<1>1. Follows(r, lock)
  BY ExecutionFollows
<1>2. r[19].ok
  BY Opcodes DEF Unlocks
<1>3. r[15].ok
  <2> HIDE DEF r
  <2> QED BY <1>1, <1>2, NeverStopped
<1>4. s # NoItem
  <2>1. "empty" \in Symbols
    BY DEF Symbols
  <2>2. r[13] = Machine(s, OuterTaken)
    OBVIOUS
  <2> HIDE DEF r
  <2> QED BY <1>1, <1>3, <2>1, <2>2, SegmentLast
<1>5. PICK t \in Stacks, x \in Symbols : s = On(t, x)
  BY <1>4, WitnessParts
<1>6. /\ x = "empty" => r[19] = Machine(On(t, "empty"), NoBranch)
      /\ x \in {"takerSig", "empty"}
  <2>1. r[13] = Machine(On(t, x), OuterTaken)
    BY <1>5
  <2> HIDE DEF r
  <2> QED BY <1>1, <1>3, <2>1, SegmentLast
<1>7. x # "empty"
  <2>1. ASSUME x = "empty"
        PROVE  FALSE
    <3>1. "empty" \in Symbols /\ Execution(w, lock)[19] = Machine(On(t, "empty"), NoBranch)
      BY <1>6, <2>1
    <3> QED BY <3>1, ScriptEnds
  <2> QED BY <2>1
<1>8. x = "takerSig"
  BY <1>6, <1>7
<1> QED BY <1>5, <1>8, OccursOn

\* A witness that opens the output has the maker's signature and the age of the
\* refund, or the taker's signature with the maker's or with the preimage.
LEMMA UnlockNeeds ==
  ASSUME NEW w \in Stacks, NEW lock, Unlocks(w, lock)
  PROVE  \/ Occurs(w, "makerSig") /\ lock >= OpenCsv
         \/ Occurs(w, "takerSig") /\ (Occurs(w, "makerSig") \/ Occurs(w, "preimage"))
<1> DEFINE r == Execution(w, lock)
<1>1. Follows(r, lock) /\ r[0] = Machine(w, NoBranch)
  BY ExecutionFollows
<1>2. r[19].ok
  BY Opcodes DEF Unlocks
<1>t. ASSUME NEW s \in Stacks, r[13] = Machine(s, OuterTaken)
      PROVE  Occurs(s, "takerSig")
  BY <1>t, TakerSigns
<1> HIDE DEF r
<1>3. r[2].ok /\ r[5].ok /\ r[7].ok /\ r[9].ok /\ r[12].ok /\ r[18].ok
  BY <1>1, <1>2, NeverStopped
<1>4. w # NoItem
  <2>1. "empty" \in Symbols
    BY DEF Symbols
  <2> QED BY <1>1, <1>3, <2>1, SegmentFirst
<1>5. PICK s1 \in Stacks, x1 \in Symbols : w = On(s1, x1)
  BY <1>4, WitnessParts
<1>6. /\ x1 = "makerSig" => r[3] = Machine(s1, OuterSkipped)
      /\ x1 = "empty" => r[3] = Machine(s1, OuterTaken)
      /\ x1 \in {"makerSig", "empty"}
  BY <1>1, <1>3, <1>5, SegmentFirst
<1>7. CASE x1 = "makerSig"
  <2>1. lock >= OpenCsv
    BY <1>1, <1>3, <1>6, <1>7, SegmentCsv
  <2>2. Occurs(w, "makerSig")
    BY <1>5, <1>7, OccursOn
  <2> QED BY <2>1, <2>2
<1>8. CASE x1 = "empty"
  <2>0. r[3] = Machine(s1, OuterTaken)
    BY <1>6, <1>8
  <2>1. s1 # NoItem
    BY <1>1, <1>3, <1>5, <2>0, SegmentSecond
  <2>2. PICK s2 \in Stacks, x2 \in Symbols : s1 = On(s2, x2)
    BY <2>1, WitnessParts
  <2>3. /\ x2 = "makerSig" => r[6] = Machine(s2, InnerSkipped)
        /\ x2 = "empty" => r[6] = Machine(s2, InnerTaken)
        /\ x2 \in {"makerSig", "empty"}
    BY <1>1, <1>3, <2>0, <2>2, SegmentSecond
  <2>4. CASE x2 = "makerSig"
    <3>1. r[13] = Machine(s2, OuterTaken)
      BY <1>1, <2>3, <2>4, SegmentCoop
    <3>2. Occurs(s2, "takerSig")
      BY <1>t, <3>1
    <3>3. Occurs(s1, "takerSig") /\ Occurs(s1, "makerSig")
      BY <2>2, <2>4, <3>2, OccursOn
    <3> QED BY <1>5, <3>3, OccursOn
  <2>5. CASE x2 = "empty"
    <3>0. r[6] = Machine(s2, InnerTaken)
      BY <2>3, <2>5
    <3>1. s2 # NoItem
      BY <1>1, <1>3, <1>5, <3>0, SegmentPreimage
    <3>2. PICK s3 \in Stacks, x3 \in Symbols : s2 = On(s3, x3)
      BY <3>1, WitnessParts
    <3>3. x3 = "preimage" /\ r[13] = Machine(s3, OuterTaken)
      BY <1>1, <1>3, <3>0, <3>2, SegmentPreimage
    <3>4. Occurs(s3, "takerSig")
      BY <1>t, <3>3
    <3>5. Occurs(s2, "takerSig") /\ Occurs(s2, "preimage")
      BY <3>2, <3>3, <3>4, OccursOn
    <3>6. Occurs(s1, "takerSig") /\ Occurs(s1, "preimage")
      BY <2>2, <3>5, OccursOn
    <3> QED BY <1>5, <3>6, OccursOn
  <2> QED BY <2>3, <2>4, <2>5
<1> QED BY <1>6, <1>7, <1>8

\* The two witnesses the claims use.
LEMMA PreimageOpens ==
  ASSUME NEW lock
  PROVE  Unlocks(GetPreimageWitness, lock)
<1> DEFINE s1 == On(NoItem, "takerSig")
           s2 == On(s1, "preimage")
           s3 == On(s2, "empty")
           s4 == On(s3, "empty")
           r == Execution(s4, lock)
<1>1. GetPreimageWitness = s4
  BY SMT, SMTT(20) DEF GetPreimageWitness, On, NoItem
<1>2. {"takerSig", "preimage", "empty", "true"} \subseteq Symbols
  BY DEF Symbols
<1>3. s1 \in Stacks /\ s2 \in Stacks /\ s3 \in Stacks /\ NoItem \in Stacks
  <2>1. s1 \in Stacks
    BY <1>2, StackFacts
  <2>2. s2 \in Stacks
    BY <1>2, <2>1, StackFacts
  <2>3. s3 \in Stacks
    BY <1>2, <2>2, StackFacts
  <2> QED BY <2>1, <2>2, <2>3, StackFacts
<1>4. Follows(r, lock) /\ r[0] = Machine(s4, NoBranch)
  BY ExecutionFollows
<1>5. s4 = On(s3, "empty") /\ s3 = On(s2, "empty") /\ s2 = On(s1, "preimage") /\ s1 = On(NoItem, "takerSig")
  OBVIOUS
<1>6. r[19] = Machine(On(NoItem, "true"), NoBranch)
  <2> HIDE DEF r, s1, s2, s3, s4
  <2>1. r[3] = Machine(s3, OuterTaken)
    BY <1>2, <1>3, <1>4, <1>5, SegmentFirst
  <2>2. r[6] = Machine(s2, InnerTaken)
    BY <1>2, <1>3, <1>4, <1>5, <2>1, SegmentSecond
  <2>3. r[13] = Machine(s1, OuterTaken)
    BY <1>2, <1>3, <1>4, <1>5, <2>2, SegmentPreimage
  <2> QED BY <1>2, <1>3, <1>4, <1>5, <2>3, SegmentLast
<1>7. Unlocks(s4, lock)
  <2>1. Execution(s4, lock)[19] = Machine(On(NoItem, "true"), NoBranch)
    BY <1>6
  <2> HIDE DEF s4
  <2>2. Unlocks(s4, lock) <=> NoItem = NoItem /\ "true" # "empty"
    BY <1>2, <1>3, <2>1, ScriptEnds
  <2> QED BY <2>2
<1> QED BY <1>1, <1>7

\* The refund opens the output once it is old enough.
LEMMA CsvOpens ==
  ASSUME NEW lock, lock >= OpenCsv
  PROVE  Unlocks(GetCsvWitness, lock)
<1> DEFINE s1 == On(NoItem, "makerSig")
           r == Execution(s1, lock)
<1>1. GetCsvWitness = s1
  BY SMT, SMTT(20) DEF GetCsvWitness, On, NoItem
<1>2. {"makerSig", "csv"} \subseteq Symbols /\ NoItem \in Stacks
  BY StackFacts DEF Symbols
<1>3. Follows(r, lock) /\ r[0] = Machine(On(NoItem, "makerSig"), NoBranch)
  BY ExecutionFollows
<1>4. r[19] = Machine(On(NoItem, "csv"), NoBranch)
  <2> HIDE DEF r
  <2>1. r[3] = Machine(NoItem, OuterSkipped)
    BY <1>2, <1>3, SegmentFirst
  <2> QED BY <1>2, <1>3, <2>1, SegmentCsv
<1>5. Unlocks(s1, lock)
  <2>1. Execution(s1, lock)[19] = Machine(On(NoItem, "csv"), NoBranch)
    BY <1>4
  <2> HIDE DEF s1
  <2>2. Unlocks(s1, lock) <=> NoItem = NoItem /\ "csv" # "empty"
    BY <1>2, <2>1, ScriptEnds
  <2> QED BY <2>2
<1> QED BY <1>1, <1>5

-----------------------------------------------------------------------------
(* The outputs. *)

\* A set of indices has at most one first.
LEMMA OneFirst ==
  ASSUME NEW S \in SUBSET Nat, NEW i \in First(S), NEW j \in First(S)
  PROVE  i = j
BY SMT, SMTT(20) DEF First

\* What ValidateTx accepts, the claim finds.
LEMMA ValidatedIsFound ==
  ASSUME wallet \in {"cln", "lnd", "elementsd", "lwk"}, outs \in Seq(Outputs), ValidateTx
  PROVE  \E v \in ClaimVouts : outs[v + 1] = SwapOutput
<1>0. ASSUME NEW i \in 1..Len(outs), HasAmount(outs[i]), HasScript(outs[i])
      PROVE  outs[i] = SwapOutput
  <2>1. outs[i] \in Outputs
    OBVIOUS
  <2> QED BY <1>0, <2>1 DEF HasAmount, HasScript, SwapOutput, Outputs
<1>1. CASE OnBitcoin
  <2> DEFINE hit == {i \in First(WithAmount(outs)) : HasScript(outs[i])}
  <2>1. PICK i \in First(WithAmount(outs)) : HasScript(outs[i])
    BY <1>1 DEF ValidateTx, ValidateBitcoinTx
  <2>2. WithAmount(outs) \in SUBSET Nat /\ First(WithAmount(outs)) \subseteq WithAmount(outs)
    BY SMT, SMTT(20) DEF WithAmount, First
  <2>3. i \in 1..Len(outs) /\ HasAmount(outs[i])
    BY <2>1, <2>2 DEF WithAmount
  <2>4. hit # {} /\ \A j \in hit : j = i
    BY <2>1, <2>2, OneFirst
  <2>5. (CHOOSE j \in hit : TRUE) = i
    BY <2>4
  <2>6. GetVoutAndVerify(outs) = i - 1
    BY <2>4, <2>5 DEF GetVoutAndVerify
  <2>7. (i - 1) + 1 = i
    BY <2>3, SMT, SMTT(20)
  <2>8. outs[i] = SwapOutput
    BY <1>0, <2>1, <2>3
  <2>9. ClaimVouts = {i - 1}
    BY <1>1, <2>6 DEF ClaimVouts
  <2> QED BY <2>7, <2>8, <2>9
<1>2. CASE ~OnBitcoin
  <2>1. PICK v \in FindVout(outs) : HasAmount(outs[v + 1])
    BY <1>2 DEF ValidateTx, ValidateLiquidTx
  <2>2. PICK i \in First(WithScript(outs)) : v = i - 1
    BY DEF FindVout
  <2>3. i \in 1..Len(outs) /\ HasScript(outs[i])
    BY <2>2 DEF First, WithScript
  <2>4. v + 1 = i
    BY <2>2, <2>3, SMT, SMTT(20)
  <2>5. outs[v + 1] = SwapOutput
    BY <1>0, <2>1, <2>3, <2>4
  <2> QED BY <1>2, <2>1, <2>5 DEF ClaimVouts
<1> QED BY <1>1, <1>2

\* What a wallet funds, its refund finds, unless the change has the amount and
\* stands in front.
LEMMA FundedIsFound ==
  ASSUME wallet \in {"cln", "lnd", "elementsd", "lwk"}, outs \in FundedOutputs, ~TwinFirst
  PROVE  \E v \in ClaimVouts : outs[v + 1] = SwapOutput
<1>1. /\ HasAmount(SwapOutput) /\ HasScript(SwapOutput)
      /\ \A c \in Outputs : c.script = "other" => ~HasScript(c) /\ c # SwapOutput
  BY SMT, SMTT(20) DEF HasAmount, HasScript, SwapOutput
<1> DEFINE swapAt(k) ==
             /\ k \in 1..Len(outs) /\ outs[k] = SwapOutput /\ Len(outs) \in Nat
             /\ \A j \in 1..Len(outs) : j < k => ~HasScript(outs[j]) /\ (OnBitcoin => ~HasAmount(outs[j]))
<1>2. \E k \in 1..2 : swapAt(k)
  <2>1. CASE outs = <<SwapOutput>>
    <3>1. Len(outs) = 1 /\ outs[1] = SwapOutput
      BY <2>1
    <3> QED BY <3>1, SMT, SMTT(20)
  <2>2. CASE \E c \in Outputs : c.script = "other" /\ outs = <<SwapOutput, c>>
    <3>1. Len(outs) = 2 /\ outs[1] = SwapOutput
      BY <2>2, SMT, SMTT(20)
    <3> QED BY <3>1, SMT, SMTT(20)
  <2>3. CASE \E c \in Outputs : c.script = "other" /\ outs = <<c, SwapOutput>>
    <3>1. PICK c \in Outputs : c.script = "other" /\ outs = <<c, SwapOutput>>
      BY <2>3
    <3>2. Len(outs) = 2 /\ outs[1] = c /\ outs[2] = SwapOutput
      BY <3>1
    <3>3. ~HasScript(outs[1]) /\ (OnBitcoin => ~HasAmount(outs[1]))
      BY <1>1, <3>1, <3>2 DEF TwinFirst
    <3>4. \A j \in 1..2 : j < 2 => j = 1
      OBVIOUS
    <3> QED BY <3>2, <3>3, <3>4, SMT, SMTT(20)
  <2> QED BY <2>1, <2>2, <2>3 DEF FundedOutputs
<1>3. PICK k \in 1..2 : swapAt(k)
  BY <1>2
<1>4. CASE OnBitcoin
  <2> DEFINE hit == {i \in First(WithAmount(outs)) : HasScript(outs[i])}
  <2>1. WithAmount(outs) \in SUBSET Nat /\ First(WithAmount(outs)) \subseteq WithAmount(outs)
    BY SMT, SMTT(20) DEF WithAmount, First
  <2>2. k \in WithAmount(outs)
    BY <1>1, <1>3 DEF WithAmount
  <2>3. \A j \in WithAmount(outs) : k <= j
    BY <1>3, <1>4, <2>1, SMT, SMTT(20) DEF WithAmount
  <2>4. k \in hit
    BY <1>1, <1>3, <2>2, <2>3 DEF First
  <2>5. hit # {} /\ \A j \in hit : j = k
    BY <2>1, <2>4, OneFirst
  <2>6. (CHOOSE j \in hit : TRUE) = k
    BY <2>5
  <2>7. GetVoutAndVerify(outs) = k - 1
    BY <2>5, <2>6 DEF GetVoutAndVerify
  <2>8. ClaimVouts = {k - 1}
    BY <1>4, <2>7 DEF ClaimVouts
  <2>9. (k - 1) + 1 = k
    BY <1>3, SMT, SMTT(20)
  <2> QED BY <1>3, <2>8, <2>9
<1>5. CASE ~OnBitcoin
  <2>1. k \in WithScript(outs) /\ \A j \in WithScript(outs) : k <= j
    BY <1>1, <1>3, SMT, SMTT(20) DEF WithScript
  <2>2. k - 1 \in FindVout(outs)
    BY <2>1 DEF First, FindVout
  <2>3. (k - 1) + 1 = k
    BY <1>3, SMT, SMTT(20)
  <2> QED BY <1>3, <1>5, <2>2, <2>3 DEF ClaimVouts
<1> QED BY <1>4, <1>5

-----------------------------------------------------------------------------
(* The invariant. *)

\* Which wallet, side and outputs an opening has, and what its verdict was about.
OnChainInv ==
  /\ wallet \in {"cln", "lnd", "elementsd", "lwk"}
  /\ depth \in 0..MaxDepth
  /\ outs \in Seq(Outputs)
  /\ side = "maker" => outs \in FundedOutputs
  /\ stage \in {"broadcast", "lost"} => wallet = "lwk"
  /\ verdict = "yes" => stage = "returned" /\ ValidateTx

\* What a wallet funds are outputs, and the swap output alone is one way.
LEMMA FundedTypes ==
  FundedOutputs \subseteq Seq(Outputs) /\ <<SwapOutput>> \in FundedOutputs
<1>1. SwapOutput \in Outputs
  BY DEF SwapOutput, Outputs
<1>2. <<SwapOutput>> \in Seq(Outputs)
  BY <1>1, SMT, SMTT(20)
<1>3. \A c \in Outputs : <<SwapOutput, c>> \in Seq(Outputs) /\ <<c, SwapOutput>> \in Seq(Outputs)
  BY <1>1, SMT, SMTT(20)
<1> HIDE DEF SwapOutput, Outputs
<1> QED BY <1>2, <1>3 DEF FundedOutputs

\* An opening in which the outputs come from the wallet, or stay.
LEMMA OpenedKeeps ==
  ASSUME OnChainInv, NEW os \in Seq(Outputs), NEW v, NEW st, Opened(os, v, st), stage # "returned",
         side = "maker" => os \in FundedOutputs,
         st \in {"broadcast", "lost"} => wallet = "lwk"
  PROVE  OnChainInv'
<1>1. /\ wallet' = wallet /\ side' = side /\ depth' = depth /\ verdict' = verdict
      /\ outs' = os /\ stage' = st
  BY DEF Opened
<1>2. verdict # "yes"
  BY DEF OnChainInv
<1>3. (side = "maker" => outs \in FundedOutputs)'
  BY <1>1
<1> QED BY <1>1, <1>2, <1>3 DEF OnChainInv

\* A step that changes none of it.
LEMMA OnChainSame ==
  ASSUME OnChainInv, wallet' = wallet, side' = side, stage' = stage, outs' = outs, verdict' = verdict,
         depth' \in 0..MaxDepth
  PROVE  OnChainInv'
<1>1. ValidateTx' = ValidateTx
  BY DEF ValidateTx, OnBitcoin
<1> QED BY <1>1 DEF OnChainInv

\* The invariant holds in every state.
LEMMA OnChainInvariance == OnChainSpec => []OnChainInv
<1>1. OnChainInit => OnChainInv
  <2> SUFFICES ASSUME OnChainInit PROVE OnChainInv
    OBVIOUS
  <2>1. outs \in FundedOutputs /\ outs \in Seq(Outputs)
    BY FundedTypes DEF OnChainInit
  <2>2. depth \in 0..MaxDepth
    BY OnChainAssumption, SMT, SMTT(20) DEF OnChainInit
  <2> QED BY <2>1, <2>2 DEF OnChainInit, OnChainInv
<1>2. OnChainInv /\ [OnChainNext]_ocVars => OnChainInv'
  <2> SUFFICES ASSUME OnChainInv, [OnChainNext]_ocVars PROVE OnChainInv'
    OBVIOUS
  <2>d. depth \in 0..MaxDepth
    BY DEF OnChainInv
  <2>1. CASE LndCreateOpeningTransaction
    <3>1. PICK os \in FundedOutputs : Opened(os, ScriptOutOf(os), "returned")
      BY <2>1 DEF LndCreateOpeningTransaction
    <3>2. os \in Seq(Outputs) /\ stage = "none"
      BY <2>1, FundedTypes DEF LndCreateOpeningTransaction, Opening
    <3> QED BY <3>1, <3>2, OpenedKeeps
  <2>2. CASE ClnCreateOpeningTransaction
    <3>1. PICK os \in FundedOutputs : Opened(os, ScriptOutOf(os), "returned")
      BY <2>2 DEF ClnCreateOpeningTransaction
    <3>2. os \in Seq(Outputs) /\ stage = "none"
      BY <2>2, FundedTypes DEF ClnCreateOpeningTransaction, Opening
    <3> QED BY <3>1, <3>2, OpenedKeeps
  <2>3. CASE ElementsCreateOpeningTransaction
    <3>1. PICK os \in FundedOutputs : Opened(os, 0, "returned")
      BY <2>3 DEF ElementsCreateOpeningTransaction
    <3>2. os \in Seq(Outputs) /\ stage = "none"
      BY <2>3, FundedTypes DEF ElementsCreateOpeningTransaction, Opening
    <3> QED BY <3>1, <3>2, OpenedKeeps
  <2>4. CASE LwkBroadcast
    <3>1. PICK os \in FundedOutputs : Opened(os, 0, "broadcast")
      BY <2>4 DEF LwkBroadcast
    <3>2. os \in Seq(Outputs) /\ stage = "none" /\ wallet = "lwk"
      BY <2>4, FundedTypes DEF LwkBroadcast, Opening
    <3> QED BY <3>1, <3>2, OpenedKeeps
  <2>5. CASE GetRawTransaction
    <3>1. PICK st \in {"returned", "lost"} : Opened(outs, scriptOut, st)
      BY <2>5 DEF GetRawTransaction
    <3>2. stage # "returned" /\ wallet = "lwk" /\ outs \in Seq(Outputs) /\ (side = "maker" => outs \in FundedOutputs)
      BY <2>5 DEF GetRawTransaction, OnChainInv
    <3> QED BY <3>1, <3>2, OpenedKeeps
  <2>6. CASE CreateFails
    <3>1. Opened(outs, scriptOut, "failed") /\ stage # "returned"
      BY <2>6 DEF CreateFails
    <3>2. outs \in Seq(Outputs) /\ (side = "maker" => outs \in FundedOutputs)
      BY DEF OnChainInv
    <3> QED BY <3>1, <3>2, OpenedKeeps
  <2>7. CASE PeerOpens
    <3>1. PICK os \in UNION {[1..n -> Outputs] : n \in 1..2}, v \in 0..1 : Opened(os, v, "returned")
      BY <2>7 DEF PeerOpens
    <3>2. os \in Seq(Outputs)
      <4>1. PICK n \in 1..2 : os \in [1..n -> Outputs]
        OBVIOUS
      <4> QED BY <4>1, SMT, SMTT(20)
    <3>3. side # "maker" /\ stage # "returned"
      BY <2>7 DEF PeerOpens
    <3> QED BY <3>1, <3>2, <3>3, OpenedKeeps
  <2>8. CASE Mined
    <3>1. depth' \in 0..MaxDepth
      BY <2>8, <2>d, OnChainAssumption, SMT, SMTT(20) DEF Mined
    <3> QED BY <2>8, <3>1, OnChainSame DEF Mined
  <2>9. CASE UseChange
    BY <2>9, <2>d, OnChainSame DEF UseChange
  <2>10. CASE MempoolMoves
    BY <2>10, <2>d, OnChainSame DEF MempoolMoves
  <2>11. CASE Validate
    <3>1. /\ wallet' = wallet /\ side' = side /\ stage' = stage /\ outs' = outs /\ depth' = depth
          /\ stage = "returned" /\ verdict' = (IF ValidateTx THEN "yes" ELSE "no")
      BY <2>11 DEF Validate, TakerStep
    <3>2. ValidateTx' = ValidateTx
      BY <3>1 DEF ValidateTx, OnBitcoin
    <3> QED BY <3>1, <3>2 DEF OnChainInv
  <2>12. CASE PayClaimInvoice
    BY <2>12, <2>d, OnChainSame DEF PayClaimInvoice, TakerStep
  <2>13. CASE CoopClose
    BY <2>13, <2>d, OnChainSame DEF CoopClose, TakerStep
  <2>14. CASE Claim
    <3>1. ASSUME NEW kind, NEW v, NEW fee, NEW sat, Submit(kind, v, fee, sat)
          PROVE  OnChainInv'
      BY <2>d, <3>1, OnChainSame DEF Submit
    <3> QED BY <2>14, <3>1 DEF Claim, LndClaim, ClnClaim, LiquidClaim, createSpendingTransaction
  <2>15. CASE \E who \in {"maker", "taker"} : Spend(who)
    BY <2>15, <2>d, OnChainSame DEF Spend
  <2>16. CASE UNCHANGED ocVars
    BY <2>16, <2>d, OnChainSame DEF ocVars
  <2> QED BY <2>1, <2>2, <2>3, <2>4, <2>5, <2>6, <2>7, <2>8, <2>9, <2>10, <2>11, <2>12,
             <2>13, <2>14, <2>15, <2>16
     DEF OnChainNext
<1> QED BY <1>1, <1>2, PTL DEF OnChainSpec

\* The witness of a claim is among those the network takes.
LEMMA ClaimOpens ==
  ASSUME depth \in 0..MaxDepth
  PROVE  OpensNow(GetPreimageWitness) /\ (depth >= OpenCsv => OpensNow(GetCsvWitness))
<1> DEFINE W == UNION {[1..n -> Items] : n \in 1..4}
<1>1. GetPreimageWitness \in W /\ GetCsvWitness \in W
  <2>1. GetPreimageWitness \in [1..4 -> Items]
    BY SMT, SMTT(20) DEF GetPreimageWitness, Items
  <2>2. GetCsvWitness \in [1..1 -> Items]
    BY SMT, SMTT(20) DEF GetCsvWitness, Items
  <2>3. 1 \in 1..4 /\ 4 \in 1..4
    OBVIOUS
  <2> QED BY <2>1, <2>2, <2>3
<1>2. ASSUME NEW w \in W, Unlocks(w, depth)
      PROVE  OpensNow(w)
  <2> DEFINE p == <<depth, w>>
  <2>1. p \in (0..MaxDepth) \X W /\ p[1] = depth /\ p[2] = w
    OBVIOUS
  <2> HIDE DEF p, W
  <2>2. p \in {q \in (0..MaxDepth) \X W : Unlocks(q[2], q[1])}
    BY <1>2, <2>1
  <2>3. [age |-> p[1], witness |-> p[2]] \in
           {[age |-> q[1], witness |-> q[2]] : q \in {q \in (0..MaxDepth) \X W : Unlocks(q[2], q[1])}}
    BY <2>2
  <2> QED BY <2>1, <2>3 DEF OpensNow, Openers, W
<1> HIDE DEF W
<1> QED BY <1>1, <1>2, PreimageOpens, CsvOpens

\* What the taker's ValidateTx accepted, its claim finds and opens.
THEOREM ValidatedCanBeClaimed == OnChainSpec => []ValidatedIsClaimable
<1>1. OnChainInv => ValidatedIsClaimable
  BY ValidatedIsFound, ClaimOpens DEF OnChainInv, ValidatedIsClaimable
<1> QED BY <1>1, OnChainInvariance, PTL

\* A maker can take its opening transaction back after the CSV.
THEOREM OpeningCanBeRefunded == OnChainSpec => []OpeningIsRefundable
<1>1. OnChainInv => OpeningIsRefundable
  BY FundedIsFound, ClaimOpens DEF OnChainInv, OpeningIsRefundable
<1> QED BY <1>1, OnChainInvariance, PTL

\* A witness made of what a side holds opens the output only as promised.
LEMMA SpendNeeds ==
  ASSUME NEW who \in {"maker", "taker"}, Spend(who)
  PROVE  IF who = "taker" THEN paid ELSE keyGiven \/ depth >= OpenCsv
<1>1. PICK o \in Openers : o.age = depth /\ \A i \in 1..Len(o.witness) : o.witness[i] \in Held(who)
  BY DEF Spend
<1> DEFINE W == UNION {[1..n -> Items] : n \in 1..4}
           w == o.witness
<1>2. w \in W /\ Unlocks(w, depth)
  <2>1. PICK p \in {q \in (0..MaxDepth) \X W : Unlocks(q[2], q[1])} : o = [age |-> p[1], witness |-> p[2]]
    BY DEF Openers
  <2>2. p[2] \in W /\ Unlocks(p[2], p[1])
    OBVIOUS
  <2>3. o.age = p[1] /\ o.witness = p[2]
    BY <2>1
  <2> QED BY <1>1, <2>2, <2>3
<1> HIDE DEF w
<1>3. w \in Stacks
  <2>1. PICK n \in 1..4 : w \in [1..n -> Items]
    BY <1>2
  <2>2. Items \subseteq Symbols
    BY DEF Items, Symbols
  <2>3. w \in [1..n -> Symbols]
    BY <2>1, <2>2
  <2> QED BY <2>3, SMT, SMTT(20) DEF Stacks
<1>4. \A y : Occurs(w, y) => y \in Held(who)
  BY <1>1 DEF w, Occurs
<1>5. \/ "makerSig" \in Held(who) /\ depth >= OpenCsv
      \/ "takerSig" \in Held(who) /\ ("makerSig" \in Held(who) \/ "preimage" \in Held(who))
  BY <1>2, <1>3, <1>4, UnlockNeeds
<1> QED BY <1>5 DEF Held

\* Whatever witness a side puts together, the taker gets the output only with the
\* preimage, and the maker only after the CSV or with the taker's key.
THEOREM OutputIsSpentAsPromised == OnChainSpec => OutputSpentAsPromised
<1> DEFINE A == spender' # spender => IF spender' = "taker" THEN paid ELSE keyGiven \/ depth >= OpenCsv
<1>1. [OnChainNext]_ocVars => [A]_ocVars
  <2> SUFFICES ASSUME OnChainNext PROVE A
    OBVIOUS
  <2>1. CASE Claim
    <3>1. ASSUME NEW kind \in {"preimage", "csv", "coop"}, MayClaim(kind), NEW v, NEW fee, NEW sat,
                 Submit(kind, v, fee, sat)
          PROVE  A
      <4>1. spender' # spender => spender' = side
        BY <3>1 DEF Submit
      <4>2. IF side = "taker" THEN paid ELSE keyGiven \/ depth >= OpenCsv
        BY <3>1 DEF MayClaim, CsvPassed
      <4> QED BY <4>1, <4>2
    <3> HIDE DEF A
    <3> QED BY <2>1, <3>1 DEF Claim, LndClaim, ClnClaim, LiquidClaim, createSpendingTransaction
  <2>2. CASE \E who \in {"maker", "taker"} : Spend(who)
    <3>1. PICK who \in {"maker", "taker"} : Spend(who)
      BY <2>2
    <3>2. spender' = who
      BY <3>1 DEF Spend
    <3> QED BY <3>1, <3>2, SpendNeeds
  <2>3. CASE ~Claim /\ ~\E who \in {"maker", "taker"} : Spend(who)
    <3>1. spender' = spender
      BY <2>3 DEF OnChainNext, LndCreateOpeningTransaction, ClnCreateOpeningTransaction,
        ElementsCreateOpeningTransaction, LwkBroadcast, GetRawTransaction, CreateFails, PeerOpens, Opened,
        Mined, UseChange, MempoolMoves, Validate, PayClaimInvoice, CoopClose, TakerStep
    <3> QED BY <3>1
  <2> QED BY <2>1, <2>2, <2>3
<1> QED BY <1>1, PTL DEF OnChainSpec, OutputSpentAsPromised

-----------------------------------------------------------------------------
\* The fee of a claim.

\* The mempool minimum is a rate.
RelayInv == relay \in Nat /\ seen \in Nat

\* The larger of two numbers is one of them, and below neither.
LEMMA LargerIs ==
  ASSUME NEW a \in Int, NEW b \in Int
  PROVE  Larger(a, b) \in {a, b} /\ Larger(a, b) >= a /\ Larger(a, b) >= b
BY SMT, SMTT(20) DEF Larger

\* The floor is one of two rates.
LEMMA FloorIs == FeeFloor \in {25, 253}
BY DEF FeeFloor, DetermineFeeFloor

\* A rate no lower than the minimum in sat/kw, which rounding down may have left three
\* quarters of a satoshi short, still pays for the claim: 200 sat are left on top.
LEMMA FeeIsEnough ==
  ASSUME NEW rate \in Nat, NEW sat \in Nat, rate >= sat \div 4,
         NEW kind \in {"preimage", "csv", "coop"}
  PROVE  PrepareSpendingTransaction(kind, rate) >= Asked(kind, sat)
<1> DEFINE r == Larger(rate, FeeFloor)
<1>1. r \in Nat /\ r >= sat \div 4
  BY FloorIs, LargerIs, SMT, SMTT(20)
<1>2. 4 * r >= sat - 3
  BY <1>1, SMT, SMTT(20)
<1>3. /\ ClaimSize(kind) \in {156, 250}
      /\ VSize(kind) \in {140, 149, 159}
      /\ ClaimSize(kind) = 156 => VSize(kind) <= 149
      /\ ClaimSize(kind) >= 156
  BY SMT, SMTT(20) DEF ClaimSize, VSize
<1> HIDE DEF r
<1>4. CASE ClaimSize(kind) = 156
  <2>1. r * 4 * 156 >= (sat - 3) * 156
    BY <1>1, <1>2, SMT, SMTT(20)
  <2>2. sat * VSize(kind) <= sat * 149
    BY <1>3, <1>4, SMT, SMTT(20)
  <2>3. (r * 4 * 156) \div 1000 + 200 >= (sat * VSize(kind) + 999) \div 1000
    BY <1>1, <1>3, <2>1, <2>2, SMT, SMTT(20)
  <2> QED
    <3>1. PrepareSpendingTransaction(kind, rate) = 200 + (r * 4 * 156) \div 1000
      BY <1>4, SMT, SMTT(20) DEF PrepareSpendingTransaction, GetFee, r
    <3>2. (r * 4 * 156) \div 1000 \in Int
      BY <1>1, SMT, SMTT(20)
    <3> QED
      BY <2>3, <3>1, <3>2, SMT, SMTT(20) DEF Asked
<1>5. CASE ClaimSize(kind) = 250
  <2>1. r * 4 * 250 >= (sat - 3) * 250
    BY <1>1, <1>2, SMT, SMTT(20)
  <2>2. sat * VSize(kind) <= sat * 159
    BY <1>3, SMT, SMTT(20)
  <2>3. (r * 4 * 250) \div 1000 + 200 >= (sat * VSize(kind) + 999) \div 1000
    BY <1>1, <1>3, <2>1, <2>2, SMT, SMTT(20)
  <2> QED
    <3>1. PrepareSpendingTransaction(kind, rate) = 200 + (r * 4 * 250) \div 1000
      BY <1>5, SMT, SMTT(20) DEF PrepareSpendingTransaction, GetFee, r
    <3>2. (r * 4 * 250) \div 1000 \in Int
      BY <1>1, SMT, SMTT(20)
    <3> QED
      BY <2>3, <3>1, <3>2, SMT, SMTT(20) DEF Asked
<1> QED
  BY <1>3, <1>4, <1>5

\* What the estimator behind bitcoind answers is no lower than the minimum it fetched.
LEMMA RateIsEnough ==
  ASSUME wallet = "cln", NEW est \in Nat, NEW sat \in Nat, NEW rate \in EstimatesPerKW(est, sat)
  PROVE  rate \in Nat /\ rate >= sat \div 4
<1>1. sat \div 4 \in Nat /\ est \div 4 \in Nat
  OBVIOUS
<1>2. MinFee(sat) \in Nat /\ MinFee(sat) >= sat \div 4
  BY <1>1, FloorIs, LargerIs, SMT, SMTT(20) DEF MinFee
<1>3. rate \in {Larger(6250, MinFee(sat)), MinFee(sat), Larger(est \div 4, MinFee(sat))}
  BY SMT, SMTT(20) DEF EstimatesPerKW, BitcoindFeesPerKW
<1>4. /\ Larger(6250, MinFee(sat)) \in Nat /\ Larger(6250, MinFee(sat)) >= MinFee(sat)
      /\ Larger(est \div 4, MinFee(sat)) \in Nat /\ Larger(est \div 4, MinFee(sat)) >= MinFee(sat)
  BY <1>1, <1>2, LargerIs, SMT, SMTT(20)
<1> QED
  BY <1>1, <1>2, <1>3, <1>4, SMT, SMTT(20)

\* It is one in every state.
LEMMA RelayInvariant == OnChainSpec => []RelayInv
<1>1. OnChainInit => RelayInv
  BY OnChainAssumption DEF OnChainInit, RelayInv
<1>2. RelayInv /\ [OnChainNext]_ocVars => RelayInv'
  <2> SUFFICES ASSUME RelayInv, [OnChainNext]_ocVars
               PROVE  RelayInv'
    OBVIOUS
  <2>1. ASSUME NEW kind, NEW v, NEW fee, NEW sat \in {seen, relay}, Submit(kind, v, fee, sat)
        PROVE  RelayInv'
    BY <2>1 DEF Submit, RelayInv
  <2>2. CASE Claim
    BY <2>1, <2>2 DEF Claim, LndClaim, ClnClaim, LiquidClaim, createSpendingTransaction
  <2>3. CASE MempoolMoves
    BY <2>3, OnChainAssumption DEF MempoolMoves, RelayInv
  <2>4. CASE UNCHANGED <<relay, seen>>
    BY <2>4 DEF RelayInv
  <2> QED
    BY <2>2, <2>3, <2>4 DEF OnChainNext, ocVars, LndCreateOpeningTransaction,
       ClnCreateOpeningTransaction, ElementsCreateOpeningTransaction, LwkBroadcast,
       GetRawTransaction, CreateFails, PeerOpens, Opened, Mined, UseChange, Validate,
       PayClaimInvoice, CoopClose, TakerStep, Spend
<1> QED
  BY <1>1, <1>2, PTL DEF OnChainSpec

\* Whatever the estimator answers and however often bitcoind's minimum moves, a claim
\* that GBitcoindEstimator priced pays the minimum minFeeManager last fetched.
THEOREM ClaimsPayTheMinimum == OnChainSpec => ClaimMeetsMinimum
<1>1. RelayInv /\ [OnChainNext]_ocVars
      => [claim' # claim /\ wallet = "cln" => claim'.fee >= Asked(claim'.kind, seen')]_ocVars
  <2> SUFFICES ASSUME RelayInv, [OnChainNext]_ocVars, claim' # claim, wallet = "cln"
               PROVE  claim'.fee >= Asked(claim'.kind, seen')
    OBVIOUS
  <2>1. Claim
    BY DEF OnChainNext, ocVars, LndCreateOpeningTransaction, ClnCreateOpeningTransaction,
       ElementsCreateOpeningTransaction, LwkBroadcast, GetRawTransaction, CreateFails, PeerOpens,
       Opened, Mined, UseChange, MempoolMoves, Validate, PayClaimInvoice, CoopClose, TakerStep, Spend
  <2>2. PICK kind \in {"preimage", "csv", "coop"}, est \in Estimates : ClnClaim(kind, est)
    BY <2>1 DEF Claim, LndClaim, LiquidClaim, OnBitcoin
  <2>3. PICK v \in ClaimVouts, sat \in {seen, relay} :
          \E rate \in EstimatesPerKW(est, sat) :
            Submit(kind, v, PrepareSpendingTransaction(kind, rate), sat)
    BY <2>2 DEF ClnClaim
  <2>4. PICK rate \in EstimatesPerKW(est, sat) :
          Submit(kind, v, PrepareSpendingTransaction(kind, rate), sat)
    BY <2>3
  <2>5. sat \in Nat /\ est \in Nat
    BY OnChainAssumption DEF RelayInv
  <2>6. PrepareSpendingTransaction(kind, rate) >= Asked(kind, sat)
    BY <2>5, RateIsEnough, FeeIsEnough
  <2>7. /\ claim'.fee = PrepareSpendingTransaction(kind, rate)
        /\ claim'.kind = kind /\ seen' = sat
    BY <2>4 DEF Submit
  <2> QED
    BY <2>6, <2>7
<1> QED
  BY <1>1, RelayInvariant, PTL DEF OnChainSpec, ClaimMeetsMinimum
=============================================================================
