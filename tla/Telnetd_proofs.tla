--------------------------- MODULE Telnetd_proofs ---------------------------
(***************************************************************************)
(* Proofs about Telnetd: its types, and with one connection at a time the  *)
(* order of the output, what is sent again, that the pool of lines is      *)
(* given back, and which commands the shell is given.  The server loops    *)
(* over scripts, tokens and lines; a fold over a sequence is reasoned      *)
(* about as the function of the positions that it goes through (Through),  *)
(* up to a position by UpTo.                                               *)
(***************************************************************************)
EXTENDS Telnetd, FoldLemmas

(***************************************************************************)
(* The states of the server.                                               *)
(***************************************************************************)
Buffers == {q \in Seq(STRING) : Len(q) < LINELEN}
ServerRecs ==
  [lines : Seq(Blocks), numsent : Nat, buf : Buffers, state : States,
   count : [Blocks -> {0, 1}], text : [Blocks -> Lines], made : Nat,
   cmds : Seq(Seq(STRING))]

(* A queue in order: its lines are different blocks, all in use, and their *)
(* numbers follow each other up to the last line that was made.            *)
Good(t) ==
  /\ Len(t.lines) <= t.made
  /\ \A i, j \in 1..Len(t.lines) : t.lines[i] = t.lines[j] => i = j
  /\ \A i \in 1..Len(t.lines) : /\ t.count[t.lines[i]] = 1
                                /\ t.text[t.lines[i]].no = t.made - Len(t.lines) + i

(* Every block in use is queued.                                           *)
Kept(t) == \A b \in Blocks : t.count[b] # 0 => \E i \in 1..Len(t.lines) : t.lines[i] = b

(* What happens to the queue while the server is answering.                *)
Grows(t, u) ==
  /\ u.numsent = t.numsent /\ Len(t.lines) <= Len(u.lines)
  /\ \A i \in 1..Len(t.lines) : u.lines[i] = t.lines[i]
  /\ Kept(t) => Kept(u)
  /\ Good(t) => /\ Good(u) /\ u.made - Len(u.lines) = t.made - Len(t.lines)
                /\ \A i \in 1..Len(t.lines) : u.text[t.lines[i]] = t.text[t.lines[i]]

SameQueue(t, u) ==
  /\ u.lines = t.lines /\ u.numsent = t.numsent /\ u.count = t.count
  /\ u.text = t.text /\ u.made = t.made

LEMMA SameGrows ==
  ASSUME NEW t, NEW u, t.lines \in Seq(Blocks), SameQueue(t, u)
  PROVE  Grows(t, u)
<1>1. Len(t.lines) \in Nat BY LenProperties
<1> QED BY <1>1 DEF SameQueue, Grows, Kept, Good

LEMMA GrowsGrows ==
  ASSUME NEW t \in ServerRecs, NEW u \in ServerRecs, NEW v \in ServerRecs,
         Grows(t, u), Grows(u, v)
  PROVE  Grows(t, v)
<1>1. /\ Len(t.lines) \in Nat /\ Len(u.lines) \in Nat /\ Len(v.lines) \in Nat
      /\ t.made \in Nat /\ u.made \in Nat /\ v.made \in Nat
  BY LenProperties DEF ServerRecs
<1>2. \A i \in 1..Len(t.lines) : i \in 1..Len(u.lines) /\ u.lines[i] = t.lines[i]
  BY <1>1 DEF Grows
<1>3. \A i \in 1..Len(t.lines) : v.lines[i] = t.lines[i] BY <1>2 DEF Grows
<1>4. Good(t) => \A i \in 1..Len(t.lines) : v.text[t.lines[i]] = t.text[t.lines[i]]
  BY <1>2 DEF Grows
<1>5. Good(t) => Good(v) /\ v.made - Len(v.lines) = t.made - Len(t.lines)
  BY DEF Grows
<1>6. Kept(t) => Kept(v) BY DEF Grows
<1>7. v.numsent = t.numsent /\ Len(t.lines) <= Len(v.lines) BY <1>1 DEF Grows
<1> QED BY <1>3, <1>4, <1>5, <1>6, <1>7 DEF Grows

(***************************************************************************)
(* The pool and the queue.                                                 *)
(***************************************************************************)
LEMMA Allocated ==
  ASSUME NEW t \in ServerRecs, alloc_line(t) # NULL
  PROVE  alloc_line(t) \in Blocks /\ t.count[alloc_line(t)] = 0
<1>1. Unused(t.count) # {} BY DEF alloc_line, memb_alloc
<1>2. Unused(t.count) \in SUBSET Nat BY QueueAssumption DEF Unused, Blocks
<1>3. \E x \in Unused(t.count) : \A y \in Unused(t.count) : x <= y BY <1>1, <1>2, LeastNumber
<1>4. Min(Unused(t.count)) \in Unused(t.count) BY <1>3 DEF Min
<1> QED BY <1>1, <1>4 DEF alloc_line, memb_alloc, Unused

(* With a free block there is room in the queue.                           *)
LEMMA RoomLeft ==
  ASSUME NEW t \in ServerRecs, Good(t), NEW b \in Blocks, t.count[b] = 0
  PROVE  Len(t.lines) < NUMLINES
<1> DEFINE n == Len(t.lines)
           f == [i \in 1..n |-> t.lines[i]]
<1>1. n \in Nat /\ \A i \in 1..n : t.lines[i] \in Blocks BY LenProperties, ElementOfSeq DEF ServerRecs
<1>2. \A i \in 1..n : t.lines[i] # b BY DEF Good
<1>3. f \in [1..n -> Blocks \ {b}] BY <1>1, <1>2
<1>4. f \in Injection(1..n, Blocks \ {b}) BY <1>3 DEF Good, Injection, IsInjective
<1>5. IsFiniteSet(Blocks) /\ Cardinality(Blocks) = num
  <2> DEFINE top == num - 1
  <2>1. 0 \in Int /\ top \in Int /\ (IF 0 > top THEN 0 ELSE top - 0 + 1) = num BY QueueAssumption
  <2> HIDE DEF top
  <2>2. IsFiniteSet(0..top) /\ Cardinality(0..top) = num BY <2>1, FS_Interval
  <2> QED BY <2>2 DEF Blocks, top
<1>6. IsFiniteSet(Blocks \ {b}) /\ Cardinality(Blocks \ {b}) = num - 1
  BY <1>5, FS_RemoveElement
<1>7. Cardinality(1..n) <= num - 1 BY <1>4, <1>6, FS_Injection
<1>8. Cardinality(1..n) = n BY <1>1, FS_Interval
<1> QED BY <1>1, <1>7, <1>8, QueueAssumption

LEMMA Freed ==
  ASSUME NEW t \in ServerRecs, NEW b \in Blocks
  PROVE  /\ dealloc_line(t, b) \in ServerRecs
         /\ dealloc_line(t, b) = [t EXCEPT !.count = [t.count EXCEPT ![b] = 0]]
<1>1. t.count \in [Blocks -> {0, 1}] /\ t.count[b] \in {0, 1} BY DEF ServerRecs
<1>2. memb_free(t.count, b) = [t.count EXCEPT ![b] = 0]
  <2>1. CASE t.count[b] = 0 BY <1>1, <2>1 DEF memb_free
  <2>2. CASE t.count[b] = 1 BY <1>1, <2>2 DEF memb_free
  <2> QED BY <1>1, <2>1, <2>2
<1>3. dealloc_line(t, b) = [t EXCEPT !.count = [t.count EXCEPT ![b] = 0]]
  BY <1>2 DEF dealloc_line
<1>4. [t.count EXCEPT ![b] = 0] \in [Blocks -> {0, 1}] BY <1>1
<1> QED BY <1>3, <1>4 DEF ServerRecs

LEMMA QueueGrows ==
  ASSUME NEW t \in ServerRecs, NEW len \in 0..2
  PROVE  Queue(t, len) \in ServerRecs /\ Grows(t, Queue(t, len))
<1> DEFINE b == alloc_line(t)
           n == Len(t.lines)
           line == [no |-> t.made + 1, len |-> len]
           u == [t EXCEPT !.count = Taken(@, b), !.made = @ + 1, !.text[b] = line]
<1>1. n \in Nat /\ t.made \in Nat /\ \A i \in 1..n : t.lines[i] \in Blocks
  BY LenProperties, ElementOfSeq DEF ServerRecs
<1>2. CASE b = NULL
  <2>1. Queue(t, len) = t BY <1>2 DEF Queue
  <2>2. Grows(t, t) BY SameGrows DEF SameQueue, ServerRecs
  <2> QED BY <2>1, <2>2
<1>3. CASE b # NULL
  <2>1. b \in Blocks /\ t.count[b] = 0 BY <1>3, Allocated
  <2>2. Queue(t, len) = sendline(u, b) BY <1>3 DEF Queue
  <2>3. t.count \in [Blocks -> {0, 1}] /\ t.text \in [Blocks -> Lines] BY DEF ServerRecs
  <2>4. line \in Lines BY <1>1 DEF Lines
  <2>5. /\ u.count = [t.count EXCEPT ![b] = 1] /\ u.made = t.made + 1
        /\ u.text = [t.text EXCEPT ![b] = line]
        /\ u.lines = t.lines /\ u.numsent = t.numsent
    BY <2>1, <2>3 DEF Taken, ServerRecs
  <2>6. u.count \in [Blocks -> {0, 1}] /\ u.text \in [Blocks -> Lines] /\ u.made \in Nat
    BY <1>1, <2>1, <2>3, <2>4, <2>5
  <2>7. u \in ServerRecs
    <3>1. u = [t EXCEPT !.count = u.count, !.made = u.made, !.text = u.text] BY DEF ServerRecs
    <3> HIDE DEF u
    <3> QED BY <2>6, <3>1 DEF ServerRecs
  <2> HIDE DEF u, b
  <2>8. CASE n < NUMLINES
    <3> DEFINE v == [u EXCEPT !.lines = Append(u.lines, b)]
    <3>1. Queue(t, len) = v BY <2>2, <2>5, <2>8 DEF sendline
    <3>2. /\ v.lines = Append(t.lines, b) /\ v.count = u.count /\ v.text = u.text
          /\ v.made = u.made /\ v.numsent = u.numsent
      BY <2>5, <2>7 DEF ServerRecs
    <3>3. /\ v.lines \in Seq(Blocks) /\ Len(v.lines) = n + 1
          /\ \A i \in 1..n : v.lines[i] = t.lines[i]
          /\ v.lines[n + 1] = b
      <4>1. t.lines \in Seq(Blocks) BY DEF ServerRecs
      <4>2. /\ Append(t.lines, b) \in Seq(Blocks) /\ Len(Append(t.lines, b)) = n + 1
            /\ \A i \in 1..n : Append(t.lines, b)[i] = t.lines[i]
            /\ Append(t.lines, b)[n + 1] = b
        BY <1>1, <2>1, <4>1, AppendProperties
      <4> QED BY <3>2, <4>2
    <3>4. v \in ServerRecs BY <2>7, <3>2, <3>3 DEF ServerRecs
    <3> HIDE DEF v
    <3>5. ASSUME Kept(t) PROVE Kept(v)
      <4> SUFFICES ASSUME NEW a \in Blocks, v.count[a] # 0
                   PROVE  \E i \in 1..Len(v.lines) : v.lines[i] = a
        BY DEF Kept
      <4>1. CASE a = b BY <1>1, <3>3, <4>1
      <4>2. CASE a # b
        <5>1. t.count[a] # 0 BY <2>3, <2>5, <3>2, <4>2
        <5>2. PICK i \in 1..n : t.lines[i] = a BY <3>5, <5>1 DEF Kept
        <5> QED BY <1>1, <3>3, <5>2
      <4> QED BY <4>1, <4>2
    <3>6. ASSUME Good(t)
          PROVE  /\ Good(v) /\ v.made - Len(v.lines) = t.made - n
                 /\ \A i \in 1..n : v.text[t.lines[i]] = t.text[t.lines[i]]
      <4>1. \A i \in 1..n : t.lines[i] # b BY <2>1, <3>6 DEF Good
      <4>2. \A i \in 1..n : /\ v.text[t.lines[i]] = t.text[t.lines[i]]
                            /\ v.count[t.lines[i]] = 1
        <5>1. \A i \in 1..n : t.count[t.lines[i]] = 1 BY <3>6 DEF Good
        <5>2. \A a \in Blocks \ {b} : v.text[a] = t.text[a] /\ v.count[a] = t.count[a]
          BY <2>3, <2>5, <3>2
        <5> QED BY <1>1, <4>1, <5>1, <5>2
      <4>3. v.count[b] = 1 /\ v.text[b].no = t.made + 1 BY <2>1, <2>3, <2>5, <3>2
      <4>4. v.made = t.made + 1 BY <2>5, <3>2
      <4>5. Len(t.lines) <= t.made BY <3>6 DEF Good
      <4>6. Len(v.lines) <= v.made BY <1>1, <3>3, <4>4, <4>5
      <4>7. \A i \in 1..(n + 1) : i = n + 1 \/ i \in 1..n BY <1>1
      <4>8. \A i, j \in 1..(n + 1) : v.lines[i] = v.lines[j] => i = j
        <5>1. \A i, j \in 1..n : t.lines[i] = t.lines[j] => i = j BY <3>6 DEF Good
        <5> QED BY <3>3, <4>1, <4>7, <5>1
      <4>9. \A i \in 1..(n + 1) : /\ v.count[v.lines[i]] = 1
                                  /\ v.text[v.lines[i]].no = v.made - (n + 1) + i
        <5>1. \A i \in 1..n : t.text[t.lines[i]].no = t.made - n + i BY <3>6 DEF Good
        <5>2. \A i \in 1..n : t.made - n + i = v.made - (n + 1) + i BY <1>1, <4>4
        <5>3. t.made + 1 = v.made - (n + 1) + (n + 1) BY <1>1, <4>4
        <5>4. \A i \in 1..n : /\ v.count[v.lines[i]] = 1
                              /\ v.text[v.lines[i]].no = v.made - (n + 1) + i
          BY <3>3, <4>2, <5>1, <5>2
        <5>5. /\ v.count[v.lines[n + 1]] = 1
              /\ v.text[v.lines[n + 1]].no = v.made - (n + 1) + (n + 1)
          BY <3>3, <4>3, <5>3
        <5> QED BY <4>7, <5>4, <5>5
      <4>10. Good(v) BY <3>3, <4>6, <4>8, <4>9 DEF Good
      <4>11. v.made - Len(v.lines) = t.made - n
        <5> DEFINE p == Len(v.lines)  x == t.made  y == v.made
        <5>1. p = n + 1 /\ y = x + 1 /\ n \in Nat /\ x \in Nat BY <1>1, <3>3, <4>4
        <5> HIDE DEF p, x, y, n
        <5>2. y - p = x - n BY <5>1
        <5> QED BY <5>2 DEF p, x, y
      <4> QED BY <4>2, <4>10, <4>11
    <3>7. v.numsent = t.numsent /\ n <= Len(v.lines) BY <1>1, <2>5, <3>2, <3>3
    <3> QED BY <3>1, <3>3, <3>4, <3>5, <3>6, <3>7 DEF Grows
  <2>9. CASE ~(n < NUMLINES)
    <3> DEFINE v == dealloc_line(u, b)
    <3>1. Queue(t, len) = v BY <2>2, <2>5, <2>9 DEF sendline
    <3>2. v \in ServerRecs /\ v = [u EXCEPT !.count = [u.count EXCEPT ![b] = 0]]
      BY <2>1, <2>7, Freed
    <3> HIDE DEF v
    <3>3. /\ v.lines = t.lines /\ v.numsent = t.numsent
          /\ v.count = [u.count EXCEPT ![b] = 0]
      BY <2>5, <2>7, <3>2 DEF ServerRecs
    <3>4. \A a \in Blocks : v.count[a] = t.count[a] BY <2>1, <2>3, <2>5, <3>3
    <3>5. Kept(t) => Kept(v) BY <3>3, <3>4 DEF Kept
    <3>6. ~Good(t) BY <2>1, <2>9, RoomLeft
    <3> QED BY <1>1, <3>1, <3>2, <3>3, <3>5, <3>6 DEF Grows
  <2> QED BY <2>8, <2>9
<1> QED BY <1>2, <1>3

(***************************************************************************)
(* Folds of functions of the server.                                       *)
(***************************************************************************)
LEMMA StepsGrow ==
  ASSUME NEW n \in Nat, NEW h \in [0..n -> ServerRecs],
         \A k \in 1..n : Grows(h[k - 1], h[k])
  PROVE  Grows(h[0], h[n])
<1> DEFINE t == h[0]
           Ok == {k \in 0..n : Grows(t, h[k])}
<1>1. t \in ServerRecs OBVIOUS
<1> HIDE DEF t
<1>2. 0 \in Ok
  <2>1. Grows(t, t) BY <1>1, SameGrows DEF SameQueue, ServerRecs
  <2> QED BY <2>1 DEF t
<1>3. ASSUME NEW k \in 1..n, k - 1 \in Ok PROVE k \in Ok
  <2>1. h[k - 1] \in ServerRecs /\ h[k] \in ServerRecs /\ Grows(t, h[k - 1]) BY <1>3
  <2>2. Grows(t, h[k]) BY <1>1, <2>1, GrowsGrows
  <2> QED BY <2>2
<1>4. n \in Ok
  <2> HIDE DEF Ok
  <2>1. \A k \in 0..n : k \in Ok BY <1>2, <1>3, UpTo
  <2> QED BY <2>1
<1> QED BY <1>4 DEF t

(* One call of a script.                                                   *)
RunOne(u, call) == CASE call = "quit"   -> shell_quit(u)
                     [] call = "prompt" -> shell_prompt(u)
                     [] call = "line"   -> shell_output(u)

LEMMA RunOneGrows ==
  ASSUME NEW t \in ServerRecs, NEW call \in Calls
  PROVE  RunOne(t, call) \in ServerRecs /\ Grows(t, RunOne(t, call))
<1>1. CASE call = "quit"
  <2>1. RunOne(t, call) = [t EXCEPT !.state = "CLOSE"] BY <1>1 DEF RunOne, shell_quit
  <2>2. [t EXCEPT !.state = "CLOSE"] \in ServerRecs BY DEF ServerRecs, States
  <2>3. SameQueue(t, [t EXCEPT !.state = "CLOSE"]) BY DEF SameQueue, ServerRecs
  <2>4. t.lines \in Seq(Blocks) BY DEF ServerRecs
  <2> QED BY <2>1, <2>2, <2>3, <2>4, SameGrows
<1>2. CASE call = "prompt"
  <2>1. RunOne(t, call) = Queue(t, 1) BY <1>2 DEF RunOne, shell_prompt, LineLen
  <2> QED BY <2>1, QueueGrows
<1>3. CASE call = "line"
  <2>1. RunOne(t, call) = Queue(t, 2) BY <1>3 DEF RunOne, shell_output, LineLen
  <2> QED BY <2>1, QueueGrows
<1> QED BY <1>1, <1>2, <1>3 DEF Calls

LEMMA RunSteps ==
  ASSUME NEW t \in ServerRecs, NEW script \in Seq(Calls)
  PROVE  \E h \in [0..Len(script) -> ServerRecs] :
           /\ h[0] = t /\ h[Len(script)] = Run(t, script)
           /\ \A k \in 1..Len(script) : h[k] = RunOne(h[k - 1], script[k])
<1> DEFINE F == [u \in ServerRecs |-> [d \in Calls |-> RunOne(u, d)]]
           Is(g) == g = [S \in SUBSET DOMAIN script |->
                           IF S = {} THEN t ELSE RunOne(g[S \ {Max(S)}], script[Max(S)])]
           g == CHOOSE iter : Is(iter)
<1>1. F \in [ServerRecs -> [Calls -> ServerRecs]] BY RunOneGrows
<1>2. \A u \in ServerRecs : \A d \in Calls : F[u][d] = RunOne(u, d)
  OBVIOUS
<1>3. DOMAIN script = 1..Len(script) /\ \A i \in 1..Len(script) : script[i] \in Calls
  BY LenProperties, ElementOfSeq
<1>m. ASSUME NEW S \in SUBSET DOMAIN script, S # {}
      PROVE  Max(S) \in DOMAIN script /\ S \ {Max(S)} \in SUBSET DOMAIN script
  <2>1. Len(script) \in Nat /\ S \in SUBSET (0..Len(script)) BY <1>3, LenProperties
  <2> QED BY <1>m, <2>1, MaxIs
<1>4. Is(g)
  <2> HIDE DEF F
  <2>1. PICK e : Folded(e, ServerRecs, t, F, script) BY <1>1, FoldExists
  <2>2. ASSUME NEW S \in SUBSET DOMAIN script
        PROVE  e[S] = IF S = {} THEN t ELSE RunOne(e[S \ {Max(S)}], script[Max(S)])
    BY <2>1, <1>2, <1>3, <1>m DEF Folded
  <2>3. e = [S \in SUBSET DOMAIN script |-> e[S]] BY <2>1 DEF Folded
  <2>4. Is(e) BY <2>2, <2>3
  <2> HIDE DEF Is
  <2> QED BY <2>4
<1>5. Run(t, script) = g[DOMAIN script] BY DEF Run, RunOne, FoldLeft, MapThenFoldSet
<1> HIDE DEF g
<1>6. g[{}] = t BY <1>4
<1>7. ASSUME NEW S \in SUBSET DOMAIN script, S # {}, g[S \ {Max(S)}] \in ServerRecs
      PROVE  g[S] = F[g[S \ {Max(S)}]][script[Max(S)]]
  <2> HIDE DEF F
  <2>1. g[S] = RunOne(g[S \ {Max(S)}], script[Max(S)]) BY <1>4, <1>7
  <2> QED BY <1>2, <1>3, <1>m, <1>7, <2>1
<1>8. Folds(g, ServerRecs, F, script)
  <2> HIDE DEF F
  <2> QED BY <1>6, <1>7 DEF Folds
<1>h. PICK h : Through(h, g, ServerRecs, F, script)
  <2> HIDE DEF F
  <2> QED BY <1>1, <1>8, FoldSteps
<1>9. /\ h \in [0..Len(script) -> ServerRecs] /\ h[0] = t /\ h[Len(script)] = Run(t, script)
      /\ \A k \in 1..Len(script) : h[k] = F[h[k - 1]][script[k]]
  <2> HIDE DEF F
  <2> QED BY <1>5, <1>6, <1>h DEF Through
<1>10. \A k \in 1..Len(script) : h[k] = RunOne(h[k - 1], script[k])
  <2> TAKE k \in 1..Len(script)
  <2>1. Len(script) \in Nat BY LenProperties
  <2>2. h[k - 1] \in ServerRecs /\ script[k] \in Calls BY <1>3, <1>9, <2>1
  <2> HIDE DEF F
  <2> QED BY <1>2, <1>9, <2>2
<1> QED BY <1>9, <1>10

LEMMA RunGrows ==
  ASSUME NEW t \in ServerRecs, NEW script \in Seq(Calls)
  PROVE  Run(t, script) \in ServerRecs /\ Grows(t, Run(t, script))
<1> DEFINE n == Len(script)
<1>1. n \in Nat /\ \A i \in 1..n : script[i] \in Calls BY LenProperties, ElementOfSeq
<1>2. PICK h \in [0..n -> ServerRecs] :
        h[0] = t /\ h[n] = Run(t, script) /\ \A k \in 1..n : h[k] = RunOne(h[k - 1], script[k])
  BY RunSteps
<1>3. \A k \in 1..n : Grows(h[k - 1], h[k])
  <2> TAKE k \in 1..n
  <2>1. h[k - 1] \in ServerRecs /\ script[k] \in Calls BY <1>1
  <2> QED BY <1>2, <2>1, RunOneGrows
<1> HIDE DEF n
<1>4. Grows(h[0], h[n]) BY <1>1, <1>3, StepsGrow
<1> QED BY <1>1, <1>2, <1>4

(***************************************************************************)
(* What is typed.                                                          *)
(***************************************************************************)

(* Whatever is typed, the shell answers with calls of the server.          *)
Scripted == \A cmd \in Seq(STRING) : Answer(cmd) \in Seq(Calls)

(* So does the shell of the repository (shell_input and shell_start,       *)
(* shell.c), which the constants stand for.                                *)
Sh == INSTANCE Shell

LEMMA ShellScripted ==
  /\ Sh!shell_start \in Seq(Calls)
  /\ \A cmd \in Seq(STRING) : Sh!shell_input(cmd) \in Seq(Calls)
<1> USE DEF Calls
<1>1. Sh!help \in Seq(Calls) /\ <<"quit">> \in Seq(Calls) /\ <<"line">> \in Seq(Calls)
      /\ <<>> \in Seq(Calls)
  BY DEF Sh!help
<1>2. \A str : Sh!unknown(str) \in Seq(Calls) BY <1>1 DEF Sh!unknown
<1>3. \A word \in DOMAIN Sh!parsetab : Sh!parsetab[word] \in Seq(Calls)
  BY <1>1 DEF Sh!parsetab
<1>4. \A str : Sh!parse(str) \in Seq(Calls) BY <1>2, <1>3 DEF Sh!parse
<1>5. \A cmd : Sh!shell_input(cmd) \in Seq(Calls)
  <2> TAKE cmd
  <2>1. Append(Sh!parse(cmd), "prompt") \in Seq(Calls) BY <1>4, AppendProperties
  <2> QED BY <2>1 DEF Sh!shell_input
<1>6. Sh!shell_start \in Seq(Calls) BY DEF Sh!shell_start
<1> QED BY <1>5, <1>6

LEMMA CharGrows ==
  ASSUME Scripted, NEW t \in ServerRecs, NEW c \in STRING
  PROVE  get_char(t, c) \in ServerRecs /\ Grows(t, get_char(t, c))
<1>0. /\ t.buf \in Seq(STRING) /\ Len(t.buf) \in Nat /\ Len(t.buf) < LINELEN
      /\ t.lines \in Seq(Blocks) /\ LINELEN \in Nat
  BY LenProperties, QueueAssumption DEF ServerRecs, Buffers
<1>1. CASE c = "cr"
  <2>1. get_char(t, c) = t BY <1>1 DEF get_char
  <2> QED BY <1>0, <2>1, SameGrows DEF SameQueue
<1>2. CASE c # "cr" /\ c # "nl" /\ Room(t)
  <2> DEFINE u == [t EXCEPT !.buf = Append(t.buf, c)]
  <2>1. get_char(t, c) = u BY <1>2 DEF get_char
  <2>2. Append(t.buf, c) \in Seq(STRING) /\ Len(Append(t.buf, c)) = Len(t.buf) + 1
    BY <1>0, AppendProperties
  <2>3. Append(t.buf, c) \in Buffers BY <1>0, <1>2, <2>2 DEF Room, Buffers
  <2>4. u \in ServerRecs BY <2>3 DEF ServerRecs
  <2>5. SameQueue(t, u) BY DEF SameQueue, ServerRecs
  <2> QED BY <1>0, <2>1, <2>4, <2>5, SameGrows
<1>3. CASE c # "cr" /\ ~(c # "nl" /\ Room(t))
  <2> DEFINE cmd == IF t.buf = <<>> THEN <<c>> ELSE t.buf
             v == Run(t, Answer(cmd))
             u == [v EXCEPT !.buf = <<>>, !.cmds = Append(v.cmds, cmd)]
  <2>1. get_char(t, c) = u BY <1>3 DEF get_char
  <2>2. <<c>> \in Seq(STRING)
    <3>1. <<>> \in Seq(STRING) BY EmptySeq
    <3>2. Append(<<>>, c) \in Seq(STRING) BY <3>1, AppendProperties
    <3>3. Append(<<>>, c) = <<c>> OBVIOUS
    <3> QED BY <3>2, <3>3
  <2>3. cmd \in Seq(STRING) BY <1>0, <2>2
  <2> HIDE DEF cmd
  <2>4. Answer(cmd) \in Seq(Calls) BY <2>3 DEF Scripted
  <2>5. v \in ServerRecs /\ Grows(t, v) BY <2>4, RunGrows
  <2> HIDE DEF v
  <2>6. v.cmds \in Seq(Seq(STRING)) /\ v.lines \in Seq(Blocks) BY <2>5 DEF ServerRecs
  <2>7. Append(v.cmds, cmd) \in Seq(Seq(STRING)) BY <2>3, <2>6, AppendProperties
  <2>8. <<>> \in Seq(STRING) /\ Len(<<>>) = 0 BY EmptySeq
  <2>9. <<>> \in Buffers BY <2>8, QueueAssumption DEF Buffers
  <2>10. u \in ServerRecs BY <2>5, <2>7, <2>9 DEF ServerRecs
  <2>11. SameQueue(v, u) BY <2>5 DEF SameQueue, ServerRecs
  <2>12. Grows(v, u) BY <2>6, <2>11, SameGrows
  <2> QED BY <2>1, <2>5, <2>10, <2>12, GrowsGrows
<1> QED BY <1>1, <1>2, <1>3

(* A change of the state alone.                                            *)
LEMMA StateGrows ==
  ASSUME NEW t \in ServerRecs, NEW u \in ServerRecs, Grows(t, u), NEW st \in States
  PROVE  /\ [u EXCEPT !.state = st] \in ServerRecs
         /\ Grows(t, [u EXCEPT !.state = st])
<1> DEFINE v == [u EXCEPT !.state = st]
<1>1. v \in ServerRecs BY DEF ServerRecs
<1>2. SameQueue(u, v) /\ u.lines \in Seq(Blocks) BY DEF SameQueue, ServerRecs
<1> HIDE DEF v
<1>3. Grows(u, v) BY <1>2, SameGrows
<1>4. Grows(t, v) BY <1>1, <1>3, GrowsGrows
<1> QED BY <1>1, <1>4 DEF v

LEMMA ParsedGrows ==
  ASSUME Scripted, NEW t \in ServerRecs, NEW c \in STRING
  PROVE  Parsed(t, c) \in ServerRecs /\ Grows(t, Parsed(t, c))
<1>0. t.state \in States /\ t.lines \in Seq(Blocks) BY DEF ServerRecs
<1>a. Grows(t, t) BY <1>0, SameGrows DEF SameQueue
<1>1. get_char(t, c) \in ServerRecs /\ Grows(t, get_char(t, c)) BY CharGrows
<1>2. sendopt(t) \in ServerRecs /\ Grows(t, sendopt(t))
  <2>1. sendopt(t) = Queue(t, 1) BY DEF sendopt, LineLen
  <2> QED BY <2>1, QueueGrows
<1>s. "NORMAL" \in States /\ "IAC" \in States /\ Options \subseteq States BY DEF States
<1>d. t.state = "NORMAL" \/ t.state = "IAC" => t.state \notin Options BY DEF Options
<1>o. "IAC" # "NORMAL" /\ "CLOSE" \notin Options /\ "CLOSE" # "NORMAL" /\ "CLOSE" # "IAC" BY DEF Options
<1>3. CASE t.state = "IAC" /\ c = "IAC"
  <2>1. Parsed(t, c) = [get_char(t, c) EXCEPT !.state = "NORMAL"] BY <1>3, <1>d, <1>o DEF Parsed
  <2> QED BY <1>1, <1>s, <2>1, StateGrows
<1>4. CASE t.state = "IAC" /\ c # "IAC"
  <2> DEFINE st == IF c \in Options THEN c ELSE "NORMAL"
  <2>1. Parsed(t, c) = [t EXCEPT !.state = st] BY <1>4, <1>d, <1>o DEF Parsed
  <2>2. st \in States BY <1>s
  <2> HIDE DEF st
  <2> QED BY <1>a, <2>1, <2>2, StateGrows
<1>5. CASE t.state \in Options
  <2>1. Parsed(t, c) = [sendopt(t) EXCEPT !.state = "NORMAL"] BY <1>5, <1>d, <1>o DEF Parsed
  <2> QED BY <1>2, <1>s, <2>1, StateGrows
<1>6. CASE t.state = "NORMAL"
  <2>1. Parsed(t, c) = IF c = "IAC" THEN [t EXCEPT !.state = "IAC"] ELSE get_char(t, c)
    BY <1>6, <1>d, <1>o DEF Parsed
  <2> QED BY <1>1, <1>a, <1>s, <2>1, StateGrows
<1>7. CASE t.state = "CLOSE"
  <2>1. Parsed(t, c) = t BY <1>7, <1>d, <1>o DEF Parsed
  <2> QED BY <1>a, <2>1
<1> QED BY <1>0, <1>3, <1>4, <1>5, <1>6, <1>7 DEF States

LEMMA NewdataSteps ==
  ASSUME Scripted, NEW t \in ServerRecs, NEW data \in Seq(STRING)
  PROVE  \E h \in [0..Len(data) -> ServerRecs] :
           /\ h[0] = t /\ h[Len(data)] = newdata(t, data)
           /\ \A k \in 1..Len(data) : h[k] = Parsed(h[k - 1], data[k])
<1> DEFINE F == [u \in ServerRecs |-> [d \in STRING |-> Parsed(u, d)]]
           Is(g) == g = [S \in SUBSET DOMAIN data |->
                           IF S = {} THEN t ELSE Parsed(g[S \ {Max(S)}], data[Max(S)])]
           g == CHOOSE iter : Is(iter)
<1>1. F \in [ServerRecs -> [STRING -> ServerRecs]] BY ParsedGrows
<1>2. \A u \in ServerRecs : \A d \in STRING : F[u][d] = Parsed(u, d)
  OBVIOUS
<1>3. DOMAIN data = 1..Len(data) /\ \A i \in 1..Len(data) : data[i] \in STRING
  BY LenProperties, ElementOfSeq
<1>m. ASSUME NEW S \in SUBSET DOMAIN data, S # {}
      PROVE  Max(S) \in DOMAIN data /\ S \ {Max(S)} \in SUBSET DOMAIN data
  <2>1. Len(data) \in Nat /\ S \in SUBSET (0..Len(data)) BY <1>3, LenProperties
  <2> QED BY <1>m, <2>1, MaxIs
<1>4. Is(g)
  <2> HIDE DEF F
  <2>1. PICK e : Folded(e, ServerRecs, t, F, data) BY <1>1, FoldExists
  <2>2. ASSUME NEW S \in SUBSET DOMAIN data
        PROVE  e[S] = IF S = {} THEN t ELSE Parsed(e[S \ {Max(S)}], data[Max(S)])
    BY <2>1, <1>2, <1>3, <1>m DEF Folded
  <2>3. e = [S \in SUBSET DOMAIN data |-> e[S]] BY <2>1 DEF Folded
  <2>4. Is(e) BY <2>2, <2>3
  <2> HIDE DEF Is
  <2> QED BY <2>4
<1>5. newdata(t, data) = g[DOMAIN data] BY DEF newdata, FoldLeft, MapThenFoldSet
<1> HIDE DEF g
<1>6. g[{}] = t BY <1>4
<1>7. ASSUME NEW S \in SUBSET DOMAIN data, S # {}, g[S \ {Max(S)}] \in ServerRecs
      PROVE  g[S] = F[g[S \ {Max(S)}]][data[Max(S)]]
  <2> HIDE DEF F
  <2>1. g[S] = Parsed(g[S \ {Max(S)}], data[Max(S)]) BY <1>4, <1>7
  <2> QED BY <1>2, <1>3, <1>m, <1>7, <2>1
<1>8. Folds(g, ServerRecs, F, data)
  <2> HIDE DEF F
  <2> QED BY <1>6, <1>7 DEF Folds
<1>h. PICK h : Through(h, g, ServerRecs, F, data)
  <2> HIDE DEF F
  <2> QED BY <1>1, <1>8, FoldSteps
<1>9. /\ h \in [0..Len(data) -> ServerRecs] /\ h[0] = t /\ h[Len(data)] = newdata(t, data)
      /\ \A k \in 1..Len(data) : h[k] = F[h[k - 1]][data[k]]
  <2> HIDE DEF F
  <2> QED BY <1>5, <1>6, <1>h DEF Through
<1>10. \A k \in 1..Len(data) : h[k] = Parsed(h[k - 1], data[k])
  <2> TAKE k \in 1..Len(data)
  <2>1. Len(data) \in Nat BY LenProperties
  <2>2. h[k - 1] \in ServerRecs /\ data[k] \in STRING BY <1>3, <1>9, <2>1
  <2> HIDE DEF F
  <2> QED BY <1>2, <1>9, <2>2
<1> QED BY <1>9, <1>10

LEMMA NewdataGrows ==
  ASSUME Scripted, NEW t \in ServerRecs, NEW data \in Seq(STRING)
  PROVE  newdata(t, data) \in ServerRecs /\ Grows(t, newdata(t, data))
<1> DEFINE n == Len(data)
<1>1. n \in Nat /\ \A i \in 1..n : data[i] \in STRING BY LenProperties, ElementOfSeq
<1>2. PICK h \in [0..n -> ServerRecs] :
        h[0] = t /\ h[n] = newdata(t, data) /\ \A k \in 1..n : h[k] = Parsed(h[k - 1], data[k])
  BY NewdataSteps
<1>3. \A k \in 1..n : Grows(h[k - 1], h[k])
  <2> TAKE k \in 1..n
  <2>1. h[k - 1] \in ServerRecs /\ data[k] \in STRING BY <1>1
  <2> QED BY <1>2, <2>1, ParsedGrows
<1> HIDE DEF n
<1>4. Grows(h[0], h[n]) BY <1>1, <1>3, StepsGrow
<1> QED BY <1>1, <1>2, <1>4

(***************************************************************************)
(* Lines that are given back.                                              *)
(***************************************************************************)
FreedUpTo(t, q, k) ==
  [t EXCEPT !.count = [b \in Blocks |-> IF \E i \in 1..k : q[i] = b THEN 0 ELSE t.count[b]]]

LEMMA FreedAll ==
  ASSUME NEW t \in ServerRecs, NEW q \in Seq(Blocks)
  PROVE  FoldLeft(dealloc_line, t, q) = FreedUpTo(t, q, Len(q))
<1> DEFINE F == [u \in ServerRecs |-> [d \in Blocks |-> dealloc_line(u, d)]]
           Is(g) == g = [S \in SUBSET DOMAIN q |->
                           IF S = {} THEN t ELSE dealloc_line(g[S \ {Max(S)}], q[Max(S)])]
           g == CHOOSE iter : Is(iter)
           n == Len(q)
<1>1. F \in [ServerRecs -> [Blocks -> ServerRecs]] BY Freed
<1>2. \A u \in ServerRecs : \A d \in Blocks : F[u][d] = dealloc_line(u, d) OBVIOUS
<1>3. n \in Nat /\ DOMAIN q = 1..n /\ \A i \in 1..n : q[i] \in Blocks
  BY LenProperties, ElementOfSeq
<1>m. ASSUME NEW S \in SUBSET DOMAIN q, S # {}
      PROVE  Max(S) \in DOMAIN q /\ S \ {Max(S)} \in SUBSET DOMAIN q
  <2>1. n \in Nat /\ S \in SUBSET (0..n) BY <1>3
  <2> QED BY <1>m, <2>1, MaxIs
<1>4. Is(g)
  <2> HIDE DEF F
  <2>1. PICK e : Folded(e, ServerRecs, t, F, q) BY <1>1, FoldExists
  <2>2. ASSUME NEW S \in SUBSET DOMAIN q
        PROVE  e[S] = IF S = {} THEN t ELSE dealloc_line(e[S \ {Max(S)}], q[Max(S)])
    BY <2>1, <1>2, <1>3, <1>m DEF Folded
  <2>3. e = [S \in SUBSET DOMAIN q |-> e[S]] BY <2>1 DEF Folded
  <2>4. Is(e) BY <2>2, <2>3
  <2> HIDE DEF Is
  <2> QED BY <2>4
<1>5. FoldLeft(dealloc_line, t, q) = g[DOMAIN q] BY DEF FoldLeft, MapThenFoldSet
<1> HIDE DEF g
<1>6. g[{}] = t BY <1>4
<1>7. ASSUME NEW S \in SUBSET DOMAIN q, S # {}, g[S \ {Max(S)}] \in ServerRecs
      PROVE  g[S] = F[g[S \ {Max(S)}]][q[Max(S)]]
  <2> HIDE DEF F
  <2>1. g[S] = dealloc_line(g[S \ {Max(S)}], q[Max(S)]) BY <1>4, <1>7
  <2> QED BY <1>2, <1>3, <1>m, <1>7, <2>1
<1>8. Folds(g, ServerRecs, F, q)
  <2> HIDE DEF F
  <2> QED BY <1>6, <1>7 DEF Folds
<1> HIDE DEF F
<1>h. PICK h : Through(h, g, ServerRecs, F, q) BY <1>1, <1>8, FoldSteps
<1>9. /\ h \in [0..n -> ServerRecs] /\ h[0] = t /\ h[n] = g[DOMAIN q]
      /\ \A k \in 1..n : h[k] = F[h[k - 1]][q[k]]
  BY <1>6, <1>h DEF Through
<1> DEFINE Ok == {k \in 0..n : h[k] = FreedUpTo(t, q, k)}
<1>10. 0 \in Ok
  <2>1. t.count = [b \in Blocks |-> t.count[b]] BY DEF ServerRecs
  <2>2. \A b \in Blocks : ~\E i \in 1..0 : q[i] = b OBVIOUS
  <2>3. [b \in Blocks |-> IF \E i \in 1..0 : q[i] = b THEN 0 ELSE t.count[b]] = t.count
    BY <2>1, <2>2
  <2>4. FreedUpTo(t, q, 0) = [t EXCEPT !.count = t.count] BY <2>3 DEF FreedUpTo
  <2>5. FreedUpTo(t, q, 0) = t BY <2>4 DEF ServerRecs
  <2> QED BY <1>3, <1>9, <2>5
<1>11. ASSUME NEW k \in 1..n, k - 1 \in Ok PROVE k \in Ok
  <2> DEFINE a == q[k]
             cs(j) == [b \in Blocks |-> IF \E i \in 1..j : q[i] = b THEN 0 ELSE t.count[b]]
  <2>1. a \in Blocks /\ h[k - 1] \in ServerRecs /\ h[k - 1] = FreedUpTo(t, q, k - 1)
    BY <1>3, <1>9, <1>11
  <2>2. h[k] = dealloc_line(h[k - 1], a) BY <1>2, <1>3, <1>9, <2>1
  <2>3. h[k] = [h[k - 1] EXCEPT !.count = [h[k - 1].count EXCEPT ![a] = 0]]
    BY <2>1, <2>2, Freed
  <2>4. \A i \in 1..k : i = k \/ i \in 1..(k - 1) BY <1>3
  <2>5. \A i \in 1..(k - 1) : i \in 1..k BY <1>3
  <2>6. k \in 1..k BY <1>3
  <2>7. \A b \in Blocks : (\E i \in 1..k : q[i] = b) <=> (b = a \/ \E i \in 1..(k - 1) : q[i] = b)
    BY <2>4, <2>5, <2>6
  <2>8. [cs(k - 1) EXCEPT ![a] = 0] = cs(k) BY <2>1, <2>7
  <2>9. FreedUpTo(t, q, k - 1) = [t EXCEPT !.count = cs(k - 1)]
        /\ FreedUpTo(t, q, k) = [t EXCEPT !.count = cs(k)]
    BY DEF FreedUpTo
  <2> HIDE DEF cs
  <2>10. h[k - 1].count = cs(k - 1) BY <2>1, <2>9 DEF ServerRecs
  <2>11. h[k] = [[t EXCEPT !.count = cs(k - 1)] EXCEPT !.count = cs(k)]
    BY <2>1, <2>3, <2>8, <2>9, <2>10
  <2>12. h[k] = [t EXCEPT !.count = cs(k)] BY <2>11 DEF ServerRecs
  <2> QED BY <2>9, <2>12
<1>12. n \in Ok
  <2> HIDE DEF Ok, n
  <2>1. \A k \in 0..n : k \in Ok BY <1>3, <1>10, <1>11, UpTo
  <2> QED BY <1>3, <2>1
<1> QED BY <1>5, <1>9, <1>12

LEMMA FreedUpToIs ==
  ASSUME NEW t \in ServerRecs, NEW q, NEW k
  PROVE  LET u == FreedUpTo(t, q, k)
         IN  /\ u \in ServerRecs
             /\ u.lines = t.lines /\ u.numsent = t.numsent /\ u.text = t.text /\ u.made = t.made
             /\ \A b \in Blocks : u.count[b] = IF \E i \in 1..k : q[i] = b THEN 0 ELSE t.count[b]
<1> DEFINE cs == [b \in Blocks |-> IF \E i \in 1..k : q[i] = b THEN 0 ELSE t.count[b]]
<1>1. cs \in [Blocks -> {0, 1}] BY DEF ServerRecs
<1>2. \A b \in Blocks : cs[b] = IF \E i \in 1..k : q[i] = b THEN 0 ELSE t.count[b] OBVIOUS
<1>3. FreedUpTo(t, q, k) = [t EXCEPT !.count = cs] BY DEF FreedUpTo
<1> HIDE DEF cs
<1>4. [t EXCEPT !.count = cs] \in ServerRecs /\ [t EXCEPT !.count = cs].count = cs
  BY <1>1 DEF ServerRecs
<1>5. /\ [t EXCEPT !.count = cs].lines = t.lines /\ [t EXCEPT !.count = cs].numsent = t.numsent
      /\ [t EXCEPT !.count = cs].text = t.text /\ [t EXCEPT !.count = cs].made = t.made
  BY DEF ServerRecs
<1> QED BY <1>2, <1>3, <1>4, <1>5

(* Closing gives all the lines back, and keeps their names.                *)
LEMMA ClosedIs ==
  ASSUME NEW t \in ServerRecs
  PROVE  /\ closed(t) \in ServerRecs
         /\ closed(t).lines = t.lines /\ closed(t).numsent = t.numsent
         /\ Kept(t) => \A b \in Blocks : closed(t).count[b] = 0
<1>1. t.lines \in Seq(Blocks) BY DEF ServerRecs
<1>2. closed(t) = FreedUpTo(t, t.lines, Len(t.lines)) BY <1>1, FreedAll DEF closed
<1>3. /\ closed(t) \in ServerRecs
      /\ closed(t).lines = t.lines /\ closed(t).numsent = t.numsent
      /\ \A b \in Blocks : closed(t).count[b] =
           IF \E i \in 1..Len(t.lines) : t.lines[i] = b THEN 0 ELSE t.count[b]
  BY <1>2, FreedUpToIs
<1> QED BY <1>3 DEF Kept

(* The lines of the last segment are given back, the others stay.          *)
LEMMA AckedIs ==
  ASSUME NEW t \in ServerRecs, t.numsent \in 0..Len(t.lines)
  PROVE  LET u == acked(t)
         IN  /\ u \in ServerRecs /\ u.numsent = 0 /\ u.made = t.made
             /\ Len(u.lines) = Len(t.lines) - t.numsent
             /\ Kept(t) => Kept(u)
             /\ Good(t) => Good(u)
<1> DEFINE n == Len(t.lines)
           m == t.numsent
           q == SubSeq(t.lines, 1, m)
           v == FreedUpTo(t, q, m)
           rest == SubSeq(t.lines, m + 1, n)
           u == [v EXCEPT !.lines = rest, !.numsent = 0]
<1>1. n \in Nat /\ m \in 0..n /\ t.lines \in Seq(Blocks) /\ t.made \in Nat
      /\ \A i \in 1..n : t.lines[i] \in Blocks
  BY LenProperties, ElementOfSeq DEF ServerRecs
<1>2. /\ q \in Seq(Blocks) /\ Len(q) = m /\ \A i \in 1..m : q[i] = t.lines[i]
  <2> HIDE DEF n, m
  <2>1. 1 \in Int /\ m \in Int /\ \A i \in 1..m : t.lines[i] \in Blocks BY <1>1
  <2>2. /\ q \in Seq(Blocks) /\ Len(q) = (IF 1 <= m THEN m - 1 + 1 ELSE 0)
        /\ \A i \in 1..(m - 1 + 1) : q[i] = t.lines[1 + i - 1]
    BY <2>1, SubSeqProperties
  <2>3. (IF 1 <= m THEN m - 1 + 1 ELSE 0) = m /\ m - 1 + 1 = m BY <1>1
  <2>4. \A i \in 1..m : 1 + i - 1 = i BY <2>1
  <2> QED BY <2>2, <2>3, <2>4
<1>3. /\ rest \in Seq(Blocks) /\ Len(rest) = n - m
      /\ \A i \in 1..(n - m) : rest[i] = t.lines[m + i] /\ m + i \in 1..n
  <2> HIDE DEF n, m
  <2>1. m + 1 \in Int /\ n \in Int /\ \A i \in (m + 1)..n : t.lines[i] \in Blocks BY <1>1
  <2>2. /\ rest \in Seq(Blocks) /\ Len(rest) = (IF m + 1 <= n THEN n - (m + 1) + 1 ELSE 0)
        /\ \A i \in 1..(n - (m + 1) + 1) : rest[i] = t.lines[m + 1 + i - 1]
    BY <2>1, SubSeqProperties
  <2>3. (IF m + 1 <= n THEN n - (m + 1) + 1 ELSE 0) = n - m /\ n - (m + 1) + 1 = n - m BY <1>1
  <2>4. \A i \in 1..(n - m) : m + 1 + i - 1 = m + i /\ m + i \in 1..n BY <1>1
  <2> QED BY <2>2, <2>3, <2>4
<1>4. FoldLeft(dealloc_line, t, q) = v BY <1>2, FreedAll
<1>5. /\ v \in ServerRecs /\ v.lines = t.lines /\ v.text = t.text /\ v.made = t.made
      /\ \A b \in Blocks : v.count[b] = IF \E i \in 1..m : q[i] = b THEN 0 ELSE t.count[b]
  <2> HIDE DEF q, m
  <2> QED BY FreedUpToIs
<1>6. acked(t) = u BY <1>4, <1>5 DEF acked
<1> HIDE DEF v, q, rest
<1>7. /\ u.lines = rest /\ u.numsent = 0 /\ u.made = t.made /\ u.text = t.text
      /\ u.count = v.count
  BY <1>5 DEF ServerRecs
<1>8. u \in ServerRecs BY <1>3, <1>5 DEF ServerRecs
<1> HIDE DEF u, n, m
<1>9. ASSUME Kept(t) PROVE Kept(u)
  <2> SUFFICES ASSUME NEW b \in Blocks, u.count[b] # 0
               PROVE  \E i \in 1..Len(u.lines) : u.lines[i] = b
    BY DEF Kept
  <2>1. t.count[b] # 0 /\ \A i \in 1..m : t.lines[i] # b BY <1>2, <1>5, <1>7
  <2>2. PICK i \in 1..n : t.lines[i] = b BY <1>9, <2>1 DEF Kept, n
  <2>3. i - m \in 1..(n - m) /\ m + (i - m) = i BY <1>1, <2>1, <2>2
  <2> QED BY <1>3, <1>7, <2>2, <2>3
<1>10. ASSUME Good(t) PROVE Good(u)
  <2>1. /\ n <= t.made
        /\ \A i, j \in 1..n : t.lines[i] = t.lines[j] => i = j
        /\ \A i \in 1..n : t.count[t.lines[i]] = 1 /\ t.text[t.lines[i]].no = t.made - n + i
    BY <1>10 DEF Good, n
  <2>2. Len(u.lines) = n - m /\ Len(u.lines) <= u.made BY <1>1, <1>3, <1>7, <2>1
  <2>3. ASSUME NEW i \in 1..(n - m), NEW j \in 1..(n - m), u.lines[i] = u.lines[j] PROVE i = j
    <3>1. m + i = m + j BY <1>3, <1>7, <2>1, <2>3
    <3> QED BY <1>1, <3>1
  <2>4. ASSUME NEW i \in 1..(n - m)
        PROVE  /\ u.count[u.lines[i]] = 1
               /\ u.text[u.lines[i]].no = u.made - (n - m) + i
    <3>1. m + i \in 1..n /\ u.lines[i] = t.lines[m + i] BY <1>3, <1>7
    <3>2. \A j \in 1..m : j \in 1..n /\ j # m + i BY <1>1
    <3>3. \A j \in 1..m : q[j] # t.lines[m + i] BY <1>2, <2>1, <3>1, <3>2
    <3>4. u.count[t.lines[m + i]] = t.count[t.lines[m + i]] BY <1>1, <1>5, <1>7, <3>1, <3>3
    <3>5. t.made - n + (m + i) = u.made - (n - m) + i BY <1>1, <1>7
    <3> QED BY <1>7, <2>1, <3>1, <3>4, <3>5
  <2> QED BY <2>2, <2>3, <2>4 DEF Good
<1> QED BY <1>3, <1>6, <1>7, <1>8, <1>9, <1>10 DEF n, m

(***************************************************************************)
(* What is handed to uIP.                                                  *)
(***************************************************************************)
Sum(t, q) == FoldLeft(LAMBDA sum, b : sum + t.text[b].len, 0, q)

LEMMA OctetSteps ==
  ASSUME NEW t \in ServerRecs, NEW q \in Seq(Blocks)
  PROVE  \E h \in [0..Len(q) -> Nat] :
           /\ h[0] = 0 /\ \A k \in 1..Len(q) : h[k] = h[k - 1] + t.text[q[k]].len
           /\ h[Len(q)] = Sum(t, q)
<1> DEFINE F == [u \in Nat |-> [b \in Blocks |-> u + t.text[b].len]]
           Is(g) == g = [S \in SUBSET DOMAIN q |->
                           IF S = {} THEN 0 ELSE g[S \ {Max(S)}] + t.text[q[Max(S)]].len]
           g == CHOOSE iter : Is(iter)
           n == Len(q)
<1>l. ASSUME NEW b \in Blocks PROVE t.text[b].len \in Nat
  <2>1. t.text[b] \in Lines BY DEF ServerRecs
  <2> QED BY <2>1 DEF Lines
<1>1. F \in [Nat -> [Blocks -> Nat]] BY <1>l
<1>2. \A u \in Nat : \A b \in Blocks : F[u][b] = u + t.text[b].len OBVIOUS
<1>3. n \in Nat /\ DOMAIN q = 1..n /\ \A i \in 1..n : q[i] \in Blocks
  BY LenProperties, ElementOfSeq
<1>m. ASSUME NEW S \in SUBSET DOMAIN q, S # {}
      PROVE  Max(S) \in DOMAIN q /\ S \ {Max(S)} \in SUBSET DOMAIN q
  <2>1. n \in Nat /\ S \in SUBSET (0..n) BY <1>3
  <2> QED BY <1>m, <2>1, MaxIs
<1>4. Is(g)
  <2> HIDE DEF F
  <2>1. PICK e : Folded(e, Nat, 0, F, q) BY <1>1, FoldExists
  <2>2. ASSUME NEW S \in SUBSET DOMAIN q
        PROVE  e[S] = IF S = {} THEN 0 ELSE e[S \ {Max(S)}] + t.text[q[Max(S)]].len
    BY <2>1, <1>2, <1>3, <1>m DEF Folded
  <2>3. e = [S \in SUBSET DOMAIN q |-> e[S]] BY <2>1 DEF Folded
  <2>4. Is(e) BY <2>2, <2>3
  <2> HIDE DEF Is
  <2> QED BY <2>4
<1>5. Sum(t, q) = g[DOMAIN q]
  BY DEF Sum, FoldLeft, MapThenFoldSet
<1> HIDE DEF g
<1>6. g[{}] = 0 BY <1>4
<1>7. ASSUME NEW S \in SUBSET DOMAIN q, S # {}, g[S \ {Max(S)}] \in Nat
      PROVE  g[S] = F[g[S \ {Max(S)}]][q[Max(S)]]
  <2> HIDE DEF F
  <2>1. g[S] = g[S \ {Max(S)}] + t.text[q[Max(S)]].len BY <1>4, <1>7
  <2> QED BY <1>2, <1>3, <1>m, <1>7, <2>1
<1>8. Folds(g, Nat, F, q)
  <2> HIDE DEF F
  <2> QED BY <1>6, <1>7 DEF Folds
<1> HIDE DEF F
<1>h. PICK h : Through(h, g, Nat, F, q) BY <1>1, <1>8, FoldSteps
<1>9. /\ h \in [0..n -> Nat] /\ h[0] = 0 /\ h[n] = g[DOMAIN q]
      /\ \A k \in 1..n : h[k] = F[h[k - 1]][q[k]]
  BY <1>6, <1>h DEF Through
<1>10. \A k \in 1..n : h[k] = h[k - 1] + t.text[q[k]].len
  <2> TAKE k \in 1..n
  <2>1. h[k - 1] \in Nat /\ q[k] \in Blocks BY <1>3, <1>9
  <2> QED BY <1>2, <1>9, <2>1
<1> QED BY <1>5, <1>9, <1>10

(* The first n lines are as long in another state that has them.           *)
LEMMA OctetsSame ==
  ASSUME NEW t \in ServerRecs, NEW u \in ServerRecs,
         NEW n \in Nat, n <= Len(t.lines), n <= Len(u.lines),
         \A i \in 1..n : u.lines[i] = t.lines[i] /\ u.text[t.lines[i]] = t.text[t.lines[i]]
  PROVE  Octets(u, n) = Octets(t, n)
<1> DEFINE q == SubSeq(t.lines, 1, n)
           r == SubSeq(u.lines, 1, n)
<1>1. /\ Len(t.lines) \in Nat /\ Len(u.lines) \in Nat
      /\ \A i \in 1..n : t.lines[i] \in Blocks /\ u.lines[i] \in Blocks
  BY LenProperties, ElementOfSeq DEF ServerRecs
<1>2. 1 \in Int /\ n \in Int /\ (IF 1 <= n THEN n - 1 + 1 ELSE 0) = n /\ n - 1 + 1 = n
      /\ \A i \in 1..n : 1 + i - 1 = i
  OBVIOUS
<1>3. q \in Seq(Blocks) /\ Len(q) = n /\ \A i \in 1..n : q[i] = t.lines[i]
  <2>1. /\ q \in Seq(Blocks) /\ Len(q) = (IF 1 <= n THEN n - 1 + 1 ELSE 0)
        /\ \A i \in 1..(n - 1 + 1) : q[i] = t.lines[1 + i - 1]
    BY <1>1, <1>2, SubSeqProperties
  <2> QED BY <1>2, <2>1
<1>4. r \in Seq(Blocks) /\ Len(r) = n /\ \A i \in 1..n : r[i] = u.lines[i]
  <2>1. /\ r \in Seq(Blocks) /\ Len(r) = (IF 1 <= n THEN n - 1 + 1 ELSE 0)
        /\ \A i \in 1..(n - 1 + 1) : r[i] = u.lines[1 + i - 1]
    BY <1>1, <1>2, SubSeqProperties
  <2> QED BY <1>2, <2>1
<1>o. Octets(t, n) = Sum(t, q) /\ Octets(u, n) = Sum(u, r) BY DEF Octets, Sum
<1> HIDE DEF q, r
<1>5. PICK g \in [0..Len(q) -> Nat] :
        /\ g[0] = 0 /\ \A k \in 1..Len(q) : g[k] = g[k - 1] + t.text[q[k]].len
        /\ g[Len(q)] = Sum(t, q)
  BY <1>3, OctetSteps
<1>6. PICK h \in [0..Len(r) -> Nat] :
        /\ h[0] = 0 /\ \A k \in 1..Len(r) : h[k] = h[k - 1] + u.text[r[k]].len
        /\ h[Len(r)] = Sum(u, r)
  BY <1>4, OctetSteps
<1> DEFINE Ok == {k \in 0..n : g[k] = h[k]}
<1>7. 0 \in Ok BY <1>5, <1>6
<1>8. ASSUME NEW k \in 1..n, k - 1 \in Ok PROVE k \in Ok
  <2>1. t.text[q[k]] = u.text[r[k]] BY <1>3, <1>4
  <2>2. g[k] = g[k - 1] + t.text[q[k]].len BY <1>3, <1>5
  <2>3. h[k] = h[k - 1] + u.text[r[k]].len BY <1>4, <1>6
  <2>4. g[k - 1] = h[k - 1] BY <1>8
  <2>5. g[k] = h[k] BY <2>1, <2>2, <2>3, <2>4
  <2> QED BY <2>5
<1>9. n \in Ok
  <2> HIDE DEF Ok
  <2>1. \A k \in 0..n : k \in Ok BY <1>7, <1>8, UpTo
  <2> QED BY <2>1
<1>10. Octets(t, n) = g[n] BY <1>3, <1>5, <1>o
<1>11. Octets(u, n) = h[n] BY <1>4, <1>6, <1>o
<1> QED BY <1>9, <1>10, <1>11

(* The numbers of lines that fit into a segment, and the largest.          *)
Fitting(t) == {n \in 0..Len(t.lines) : n = 0 \/ Octets(t, n) < MSS}
Fits(t) == Max(Fitting(t))

LEMMA FitsIs ==
  ASSUME NEW t \in ServerRecs
  PROVE  Fits(t) \in Fitting(t) /\ Fits(t) \in 0..Len(t.lines)
         /\ \A n \in Fitting(t) : n <= Fits(t)
<1>1. Len(t.lines) \in Nat BY LenProperties DEF ServerRecs
<1>2. Fitting(t) \in SUBSET (0..Len(t.lines)) /\ 0 \in Fitting(t) BY <1>1 DEF Fitting
<1>3. Fitting(t) # {} BY <1>2
<1> QED BY <1>1, <1>2, <1>3, MaxIs DEF Fits

LEMMA SenddataIs ==
  ASSUME NEW t \in ServerRecs
  PROVE  /\ senddata(t) = [t EXCEPT !.numsent = Fits(t)]
         /\ senddata(t) \in ServerRecs
<1>1. senddata(t) = [t EXCEPT !.numsent = Fits(t)] BY DEF senddata, Fits, Fitting
<1>2. Fits(t) \in Nat
  <2>1. Len(t.lines) \in Nat BY LenProperties DEF ServerRecs
  <2> QED BY <2>1, FitsIs
<1> QED BY <1>1, <1>2 DEF ServerRecs

(* What fitted still fits when the queue has grown.                        *)
LEMMA FittingStays ==
  ASSUME NEW t \in ServerRecs, NEW u \in ServerRecs, Len(t.lines) <= Len(u.lines),
         \A i \in 1..Len(t.lines) : u.lines[i] = t.lines[i] /\ u.text[t.lines[i]] = t.text[t.lines[i]],
         NEW n \in Fitting(t)
  PROVE  n \in Fitting(u)
<1>1. Len(t.lines) \in Nat /\ Len(u.lines) \in Nat BY LenProperties DEF ServerRecs
<1>2. n \in Nat /\ n <= Len(t.lines) /\ n <= Len(u.lines) BY <1>1 DEF Fitting
<1>3. \A i \in 1..n : u.lines[i] = t.lines[i] /\ u.text[t.lines[i]] = t.text[t.lines[i]]
  BY <1>1, <1>2
<1>4. Octets(u, n) = Octets(t, n) BY <1>2, <1>3, OctetsSame
<1> QED BY <1>2, <1>4 DEF Fitting

(* The number that fits depends on the queue alone.                        *)
LEMMA FitsSame ==
  ASSUME NEW t \in ServerRecs, NEW u \in ServerRecs, u.lines = t.lines, u.text = t.text
  PROVE  Fits(u) = Fits(t)
<1>1. Len(t.lines) \in Nat BY LenProperties DEF ServerRecs
<1>2. \A n \in Fitting(t) : n \in Fitting(u) BY <1>1, FittingStays
<1>3. \A n \in Fitting(u) : n \in Fitting(t) BY <1>1, FittingStays
<1>4. Fitting(t) = Fitting(u) BY <1>2, <1>3
<1> QED BY <1>4 DEF Fits

LEMMA HandedIs ==
  ASSUME NEW t \in ServerRecs, t.numsent \in 0..Len(t.lines)
  PROVE  /\ Handed(t) \in Seq(Lines) /\ Len(Handed(t)) = t.numsent
         /\ \A i \in 1..t.numsent : Handed(t)[i] = t.text[t.lines[i]]
<1> DEFINE n == t.numsent
<1>1. n \in Nat /\ \A i \in 1..n : t.text[t.lines[i]] \in Lines
  <2>1. Len(t.lines) \in Nat /\ \A i \in 1..Len(t.lines) : t.lines[i] \in Blocks
    BY LenProperties, ElementOfSeq DEF ServerRecs
  <2>2. t.text \in [Blocks -> Lines] BY DEF ServerRecs
  <2> QED BY <2>1, <2>2
<1>2. Handed(t) = [i \in 1..n |-> t.text[t.lines[i]]] BY DEF Handed
<1> HIDE DEF n
<1>3. Handed(t) \in [1..n -> Lines] BY <1>1, <1>2
<1>4. Handed(t) \in Seq(Lines) BY <1>1, <1>3
<1>5. Len(Handed(t)) = n
  <2> DEFINE m == Len(Handed(t))
  <2>a. m \in Nat /\ DOMAIN Handed(t) = 1..m BY <1>4, LenProperties
  <2>b. DOMAIN Handed(t) = 1..n BY <1>3
  <2>1. m \in Nat /\ 1..m = 1..n BY <2>a, <2>b
  <2> HIDE DEF m
  <2>2. (n >= 1 => n \in 1..m) /\ (m >= 1 => m \in 1..n)
    <3>1. (n >= 1 => n \in 1..n) /\ (m >= 1 => m \in 1..m) BY <1>1, <2>1
    <3> QED BY <2>1, <3>1
  <2>3. m = n BY <1>1, <2>1, <2>2
  <2> QED BY <2>3 DEF m
<1> QED BY <1>2, <1>4, <1>5 DEF n

LEMMA StartedIs ==
  ASSUME NEW t \in ServerRecs
  PROVE  LET u == Started(t)
         IN  /\ u \in ServerRecs /\ Good(u) /\ u.made - Len(u.lines) = 0
             /\ (\A b \in Blocks : t.count[b] = 0) => Kept(u)
<1> DEFINE v == [t EXCEPT !.lines = <<>>, !.buf = <<>>, !.state = "NORMAL", !.made = 0, !.cmds = <<>>]
<1>1. /\ <<>> \in Seq(Blocks) /\ <<>> \in Seq(STRING) /\ <<>> \in Seq(Seq(STRING))
      /\ Len(<<>>) = 0
  BY EmptySeq
<1>2. <<>> \in Buffers BY <1>1, QueueAssumption DEF Buffers
<1>3. v \in ServerRecs BY <1>1, <1>2 DEF ServerRecs, States
<1>4. v.lines = <<>> /\ v.made = 0 /\ v.count = t.count BY DEF ServerRecs
<1>5. Started(t) = Run(v, Greeting) BY DEF Started
<1> HIDE DEF v
<1>6. Good(v) BY <1>1, <1>4 DEF Good
<1>7. Run(v, Greeting) \in ServerRecs /\ Grows(v, Run(v, Greeting)) BY <1>3, QueueAssumption, RunGrows
<1>8. (\A b \in Blocks : t.count[b] = 0) => Kept(v) BY <1>4 DEF Kept
<1>9. v.made - Len(v.lines) = 0
  <2>1. Len(v.lines) = 0 BY <1>1, <1>4
  <2>2. v.made \in Nat /\ v.made = 0 BY <1>4
  <2>3. \A x, y \in Nat : x = 0 /\ y = 0 => x - y = 0 OBVIOUS
  <2> QED BY <2>1, <2>2, <2>3
<1> QED BY <1>5, <1>6, <1>7, <1>8, <1>9 DEF Grows

(***************************************************************************)
(* The calls.                                                              *)
(***************************************************************************)
LEMMA LeavingCall ==
  ASSUME NEW t \in ServerRecs, NEW flags, NEW data, Leaving(t, flags)
  PROVE  LET u == telnetd_appcall(t, flags, data)
         IN  /\ u \in ServerRecs /\ u.lines = t.lines /\ u.numsent = t.numsent
             /\ u.count = t.count /\ u.text = t.text /\ u.made = t.made
             /\ u.state = "NORMAL"
<1>1. telnetd_appcall(t, flags, data) = [t EXCEPT !.state = "NORMAL"] BY DEF telnetd_appcall
<1>2. [t EXCEPT !.state = "NORMAL"] \in ServerRecs BY DEF ServerRecs, States
<1> QED BY <1>1, <1>2 DEF ServerRecs

LEMMA ConnectedCall ==
  ASSUME Scripted, NEW t \in ServerRecs, NEW f \in SUBSET {"NEWDATA"}, NEW data \in Seq(STRING)
  PROVE  \E v \in ServerRecs :
           /\ telnetd_appcall(t, {"CONNECTED"} \cup f, data) = senddata(v)
           /\ Grows(Started(t), v)
<1> DEFINE flags == {"CONNECTED"} \cup f
           v == IF "NEWDATA" \in flags THEN newdata(Started(t), data) ELSE Started(t)
<1>1. Started(t) \in ServerRecs BY StartedIs
<1>2. Grows(Started(t), Started(t)) BY <1>1, SameGrows DEF SameQueue, ServerRecs
<1>3. v \in ServerRecs /\ Grows(Started(t), v) BY <1>1, <1>2, NewdataGrows
<1>4. /\ "CONNECTED" \in flags /\ "ACKDATA" \notin flags
      /\ flags \cap {"CLOSE", "ABORT", "TIMEDOUT"} = {} /\ flags \cap Sends # {}
      /\ ~Leaving(t, flags)
  BY DEF Sends, Leaving
<1>5. telnetd_appcall(t, flags, data) = senddata(v) BY <1>4 DEF telnetd_appcall
<1> QED BY <1>3, <1>5

LEMMA ServedCall ==
  ASSUME Scripted, NEW t \in ServerRecs, t.numsent \in 0..Len(t.lines),
         NEW flags \in SUBSET {"ACKDATA", "NEWDATA", "POLL", "REXMIT"}, flags # {},
         NEW data \in Seq(STRING), ~Leaving(t, flags)
  PROVE  LET a == IF "ACKDATA" \in flags THEN acked(t) ELSE t
         IN  /\ a \in ServerRecs
             /\ \E v \in ServerRecs : /\ telnetd_appcall(t, flags, data) = senddata(v)
                                      /\ Grows(a, v) /\ ("NEWDATA" \notin flags => v = a)
<1> DEFINE a == IF "ACKDATA" \in flags THEN acked(t) ELSE t
           v == IF "NEWDATA" \in flags THEN newdata(a, data) ELSE a
<1>1. a \in ServerRecs BY AckedIs
<1>2. /\ "CONNECTED" \notin flags /\ flags \cap {"CLOSE", "ABORT", "TIMEDOUT"} = {}
      /\ flags \cap Sends # {}
  BY DEF Sends
<1>3. telnetd_appcall(t, flags, data) = senddata(v) BY <1>2 DEF telnetd_appcall
<1> HIDE DEF a
<1>4. Grows(a, a) BY <1>1, SameGrows DEF SameQueue, ServerRecs
<1>5. v \in ServerRecs /\ Grows(a, v) BY <1>1, <1>4, NewdataGrows
<1> QED BY <1>1, <1>3, <1>5 DEF a

LEMMA ClosingCall ==
  ASSUME Scripted, NEW t \in ServerRecs, t.numsent \in 0..Len(t.lines),
         NEW how \in {"CLOSE", "ABORT", "TIMEDOUT"}, NEW f \in SUBSET {"ACKDATA", "NEWDATA"},
         NEW data \in Seq(STRING), ~Leaving(t, {how} \cup f)
  PROVE  LET u == telnetd_appcall(t, {how} \cup f, data)
         IN  /\ u \in ServerRecs /\ u.numsent \in 0..Len(u.lines)
             /\ Kept(t) => Kept(u)
             /\ Kept(t) /\ f = {} => \A b \in Blocks : u.count[b] = 0
<1> DEFINE flags == {how} \cup f
           a == closed(t)
           b == IF "ACKDATA" \in flags THEN acked(a) ELSE a
           v == IF "NEWDATA" \in flags THEN newdata(b, data) ELSE b
<1>1. /\ a \in ServerRecs /\ a.numsent \in 0..Len(a.lines)
      /\ Kept(t) => \A c \in Blocks : a.count[c] = 0
  BY ClosedIs
<1>2. "CONNECTED" \notin flags /\ flags \cap {"CLOSE", "ABORT", "TIMEDOUT"} # {} OBVIOUS
<1>3. telnetd_appcall(t, flags, data) = IF flags \cap Sends # {} THEN senddata(v) ELSE v
  BY <1>2 DEF telnetd_appcall
<1> HIDE DEF a
<1>4. Kept(t) => Kept(a) BY <1>1 DEF Kept
<1>5. CASE f = {}
  <2>1. flags \cap Sends = {} /\ "ACKDATA" \notin flags /\ "NEWDATA" \notin flags
    BY <1>5 DEF Sends
  <2>2. telnetd_appcall(t, flags, data) = a BY <1>3, <2>1
  <2> QED BY <1>1, <1>4, <2>2
<1>6. CASE f # {}
  <2>1. flags \cap Sends # {} BY <1>6 DEF Sends
  <2>2. b \in ServerRecs /\ (Kept(a) => Kept(b)) BY <1>1, AckedIs
  <2> HIDE DEF b
  <2>3. Grows(b, b) BY <2>2, SameGrows DEF SameQueue, ServerRecs
  <2>4. v \in ServerRecs /\ Grows(b, v) BY <2>2, <2>3, NewdataGrows
  <2>5. Kept(a) => Kept(v) BY <2>2, <2>4 DEF Grows
  <2> HIDE DEF v
  <2>6. telnetd_appcall(t, flags, data) = [v EXCEPT !.numsent = Fits(v)]
        /\ telnetd_appcall(t, flags, data) \in ServerRecs
    BY <1>3, <2>1, <2>4, SenddataIs
  <2> DEFINE u == [v EXCEPT !.numsent = Fits(v)]
  <2>7. u.lines = v.lines /\ u.count = v.count /\ u.numsent = Fits(v) BY <2>4 DEF ServerRecs
  <2> HIDE DEF u
  <2>8. Kept(v) => Kept(u) BY <2>7 DEF Kept
  <2>9. u.numsent \in 0..Len(u.lines) BY <2>4, <2>7, FitsIs
  <2> QED BY <1>4, <1>6, <2>5, <2>6, <2>8, <2>9 DEF u
<1> QED BY <1>5, <1>6

(* Every call leaves a state of the server.                                *)
SentOK(t) == t \in ServerRecs /\ t.numsent \in 0..Len(t.lines)

LEMMA SentTyped ==
  ASSUME NEW t \in ServerRecs PROVE SentOK(senddata(t))
<1>1. senddata(t) \in ServerRecs /\ senddata(t) = [t EXCEPT !.numsent = Fits(t)] BY SenddataIs
<1>2. senddata(t).numsent = Fits(t) /\ senddata(t).lines = t.lines BY <1>1 DEF ServerRecs
<1> QED BY <1>1, <1>2, FitsIs DEF SentOK

(***************************************************************************)
(* Types, with any number of connections.                                  *)
(***************************************************************************)
TypeInv ==
  /\ App!TypeOK
  /\ SentOK(s)
  /\ wire \in [Conns -> Seq(Lines)] /\ seen \in [Conns -> Nat]
  /\ crowded \in BOOLEAN /\ quitter \in Conns \cup {NoConn}

(* The flags of a call.                                                    *)
IsCall(flags) ==
  \/ \E f \in SUBSET {"NEWDATA"} : flags = {"CONNECTED"} \cup f
  \/ flags \in SUBSET {"ACKDATA", "NEWDATA", "POLL", "REXMIT"} /\ flags # {}
  \/ \E how \in {"CLOSE", "ABORT", "TIMEDOUT"} : \E f \in SUBSET {"ACKDATA", "NEWDATA"} :
        flags = {how} \cup f

LEMMA CallTyped ==
  ASSUME Scripted, NEW t, SentOK(t), NEW flags, IsCall(flags), NEW data \in Seq(STRING)
  PROVE  SentOK(telnetd_appcall(t, flags, data))
<1>1. t \in ServerRecs /\ t.numsent \in 0..Len(t.lines) BY DEF SentOK
<1>2. CASE Leaving(t, flags)
  BY <1>1, <1>2, LeavingCall DEF SentOK
<1>3. CASE ~Leaving(t, flags)
  <2>1. ASSUME NEW f \in SUBSET {"NEWDATA"}, flags = {"CONNECTED"} \cup f
        PROVE  SentOK(telnetd_appcall(t, flags, data))
    <3>1. PICK v \in ServerRecs : telnetd_appcall(t, {"CONNECTED"} \cup f, data) = senddata(v)
      BY <1>1, ConnectedCall
    <3> QED BY <2>1, <3>1, SentTyped
  <2>2. ASSUME flags \in SUBSET {"ACKDATA", "NEWDATA", "POLL", "REXMIT"}, flags # {}
        PROVE  SentOK(telnetd_appcall(t, flags, data))
    <3>1. PICK v \in ServerRecs : telnetd_appcall(t, flags, data) = senddata(v)
      BY <1>1, <1>3, <2>2, ServedCall
    <3> QED BY <3>1, SentTyped
  <2>3. ASSUME NEW how \in {"CLOSE", "ABORT", "TIMEDOUT"}, NEW f \in SUBSET {"ACKDATA", "NEWDATA"},
               flags = {how} \cup f
        PROVE  SentOK(telnetd_appcall(t, flags, data))
    BY <1>1, <1>3, <2>3, ClosingCall DEF SentOK
  <2> QED BY <2>1, <2>2, <2>3 DEF IsCall
<1> QED BY <1>2, <1>3

LEMMA HandleTyped ==
  ASSUME Scripted, TypeInv, NEW c \in Conns, NEW flags, IsCall(flags), NEW data \in Seq(STRING),
         Handle(c, flags, data)
  PROVE  /\ SentOK(s')
         /\ wire' \in [Conns -> Seq(Lines)] /\ seen' \in [Conns -> Nat]
         /\ crowded' \in BOOLEAN /\ quitter' \in Conns \cup {NoConn}
<1>1. s' = telnetd_appcall(s, flags, data) BY DEF Handle
<1>2. SentOK(s') BY <1>1, CallTyped DEF TypeInv
<1>3. Handed(s') \in Seq(Lines)
  <2> DEFINE u == s'
  <2>1. u \in ServerRecs /\ u.numsent \in 0..Len(u.lines) BY <1>2 DEF SentOK
  <2> HIDE DEF u
  <2>2. Handed(u) \in Seq(Lines) BY <2>1, HandedIs
  <2> QED BY <2>2 DEF u
<1>4. wire[c] \in Seq(Lines) /\ <<>> \in Seq(Lines) BY EmptySeq DEF TypeInv
<1>5. wire' \in [Conns -> Seq(Lines)]
  <2> DEFINE left == IF "ACKDATA" \in flags THEN <<>> ELSE wire[c]
             said == flags \cap Sends # {} /\ ~Leaving(s, flags)
             w == IF phase'[c] # "open" THEN <<>>
                  ELSE IF left = <<>> /\ said THEN Handed(s') ELSE left
  <2>1. wire' = [wire EXCEPT ![c] = w] BY DEF Handle
  <2>2. left \in Seq(Lines) BY <1>4
  <2> HIDE DEF left, said
  <2>3. w \in Seq(Lines) BY <1>3, <1>4, <2>2
  <2> HIDE DEF w
  <2> QED BY <2>1, <2>3 DEF TypeInv
<1>6. seen' \in [Conns -> Nat]
  <2>1. wire[c] # <<>> => Last(wire[c]).no \in Nat
    <3>1. wire[c] # <<>> => Last(wire[c]) \in Lines BY <1>4, LenProperties, ElementOfSeq, EmptySeq DEF Last
    <3> QED BY <3>1 DEF Lines
  <2>2. "ACKDATA" \in flags => wire[c] # <<>> BY DEF Handle
  <2> DEFINE x == IF "CONNECTED" \in flags THEN 0
                  ELSE IF "ACKDATA" \in flags THEN Last(wire[c]).no ELSE seen[c]
  <2>3. seen' = [seen EXCEPT ![c] = x] BY DEF Handle
  <2>4. x \in Nat BY <2>1, <2>2 DEF TypeInv
  <2> HIDE DEF x
  <2> QED BY <2>3, <2>4 DEF TypeInv
<1>7. crowded' \in BOOLEAN
  <2>1. crowded' = ("CONNECTED" \notin flags /\ (crowded \/ (
           (IF "ACKDATA" \in flags THEN <<>> ELSE wire[c]) # <<>> /\ data # <<>>)))
    BY DEF Handle
  <2> QED BY <2>1
<1>8. quitter' \in Conns \cup {NoConn} BY DEF Handle, TypeInv
<1> QED BY <1>2, <1>5, <1>6, <1>7, <1>8

LEMMA DataIs == \A flags : \A data \in Data(flags) : data \in Seq(STRING)
<1>1. <<>> \in Seq(STRING) BY EmptySeq
<1> QED BY <1>1, QueueAssumption DEF Data

(* What is known of a step: one connection moves, and the server is called *)
(* for it, unless the connection disappears without a call.                *)
Moves(c, from, to) ==
  /\ phase[c] \in from /\ to \in App!Phases /\ phase' = [phase EXCEPT ![c] = to]
  /\ ev' \in [conn : Conns \cup {-1}, flags : SUBSET App!Events, op : App!Ops]

LEMMA ConnectedMoves ==
  ASSUME NEW c \in Conns, Connected(c)
  PROVE  \E f \in SUBSET {"NEWDATA"}, data \in Seq(STRING) :
           /\ Moves(c, {"absent"}, "open") /\ Handle(c, {"CONNECTED"} \cup f, data)
<1>1. PICK f \in SUBSET {"NEWDATA"} : \E data \in Data(f) :
        App!Connected(c, "none", f) /\ Handle(c, {"CONNECTED"} \cup f, data)
  BY DEF Connected
<1>2. PICK data \in Seq(STRING) :
        App!Connected(c, "none", f) /\ Handle(c, {"CONNECTED"} \cup f, data)
  BY <1>1, DataIs
<1>3. App!After("none") = "open" BY DEF App!After
<1>4. Moves(c, {"absent"}, "open")
  BY <1>2, <1>3 DEF Moves, App!Connected, App!Move, App!Phases, App!Call, App!Events, App!Ops
<1> QED BY <1>2, <1>4

LEMMA ServedMoves ==
  ASSUME NEW c \in Conns, Served(c)
  PROVE  \E flags \in SUBSET {"ACKDATA", "NEWDATA", "POLL"}, data \in Seq(STRING) :
           /\ flags = {"POLL"} \/ (flags # {} /\ flags \subseteq {"ACKDATA", "NEWDATA"})
           /\ Moves(c, {"open"}, IF Leaving(s, flags) THEN "left" ELSE "open")
           /\ Handle(c, flags, data)
<1>1. PICK flags \in SUBSET {"ACKDATA", "NEWDATA", "POLL"} : \E data \in Data(flags) :
        App!Served(c, Op(flags), flags) /\ Handle(c, flags, data)
  BY DEF Served
<1>2. PICK data \in Seq(STRING) : App!Served(c, Op(flags), flags) /\ Handle(c, flags, data)
  BY <1>1, DataIs
<1>3. /\ Op(flags) \in App!Ops
      /\ App!After(Op(flags)) = IF Leaving(s, flags) THEN "left" ELSE "open"
  BY DEF App!After, App!Ops, Op
<1>4. flags = {"POLL"} \/ (flags # {} /\ flags \subseteq {"ACKDATA", "NEWDATA"})
  BY <1>2 DEF App!Served
<1>5. Moves(c, {"open"}, IF Leaving(s, flags) THEN "left" ELSE "open")
  <2> DEFINE to == IF Leaving(s, flags) THEN "left" ELSE "open"
             op == Op(flags)
  <2>1. to \in App!Phases BY DEF App!Phases
  <2>2. op \in App!Ops /\ App!After(op) = to BY <1>3
  <2>3. App!Served(c, op, flags) BY <1>2
  <2> HIDE DEF to, op
  <2>4. Moves(c, {"open"}, to)
    BY <2>1, <2>2, <2>3 DEF Moves, App!Served, App!Move, App!Call, App!Events
  <2> QED BY <2>4 DEF to
<1> QED BY <1>2, <1>4, <1>5

LEMMA RexmitMoves ==
  ASSUME NEW c \in Conns, Rexmit(c)
  PROVE  Moves(c, {"open"}, "open") /\ Handle(c, {"REXMIT"}, <<>>)
<1>1. Op({"REXMIT"}) \in App!Ops BY DEF App!Ops, Op
<1>2. Moves(c, {"open"}, "open")
  BY <1>1 DEF Rexmit, Moves, App!Rexmit, App!Move, App!Phases, App!Call, App!Events
<1> QED BY <1>2 DEF Rexmit

LEMMA PeerClosesMoves ==
  ASSUME NEW c \in Conns, PeerCloses(c)
  PROVE  \E f \in SUBSET {"ACKDATA", "NEWDATA"}, data \in Seq(STRING) :
           Moves(c, {"open"}, "closed") /\ Handle(c, {"CLOSE"} \cup f, data)
<1>1. PICK f \in SUBSET {"ACKDATA", "NEWDATA"} : \E data \in Data(f) :
        App!PeerCloses(c, f) /\ Handle(c, {"CLOSE"} \cup f, data)
  BY DEF PeerCloses
<1>2. PICK data \in Seq(STRING) : App!PeerCloses(c, f) /\ Handle(c, {"CLOSE"} \cup f, data)
  BY <1>1, DataIs
<1>3. Moves(c, {"open"}, "closed")
  BY <1>2 DEF Moves, App!PeerCloses, App!Move, App!Phases, App!Call, App!Events, App!Ops
<1> QED BY <1>2, <1>3

LEMMA PeerFollowsMoves ==
  ASSUME NEW c \in Conns, PeerFollows(c)
  PROVE  Moves(c, {"left"}, "over") /\ Handle(c, {"CLOSE"}, <<>>)
BY DEF PeerFollows, Moves, App!PeerFollows, App!Move, App!Phases, App!Call, App!Events, App!Ops

LEMMA ClosedAgainMoves ==
  ASSUME NEW c \in Conns, ClosedAgain(c)
  PROVE  Moves(c, {"closed"}, "absent") /\ Handle(c, {"CLOSE"}, <<>>)
BY DEF ClosedAgain, Moves, App!ClosedAgain, App!Move, App!Phases, App!Call, App!Events, App!Ops

LEMMA BrokenMoves ==
  ASSUME TypeInv, NEW c \in Conns, Broken(c)
  PROVE  \E how \in {"ABORT", "TIMEDOUT"} :
           Moves(c, App!Phases, "absent") /\ Handle(c, {how}, <<>>)
<1>1. phase[c] \in App!Phases BY DEF TypeInv, App!TypeOK
<1>2. PICK how \in {"ABORT", "TIMEDOUT"} : App!Broken(c, how) /\ Handle(c, {how}, <<>>)
  BY DEF Broken
<1>3. Moves(c, App!Phases, "absent")
  BY <1>1, <1>2 DEF Moves, App!Broken, App!Phases, App!Call, App!Events, App!Ops
<1> QED BY <1>2, <1>3

LEMMA ForgottenMoves ==
  ASSUME NEW c \in Conns, Forgotten(c)
  PROVE  /\ Moves(c, {"left", "over"}, "absent")
         /\ UNCHANGED <<s, wire, typed, seen, crowded, quitter>>
BY DEF Forgotten, Moves, App!Forgotten, App!Move, App!NoEvent, App!Phases, App!Events, App!Ops

LEMMA MovesTyped ==
  ASSUME TypeInv, NEW c \in Conns, NEW from, NEW to, Moves(c, from, to)
  PROVE  App!TypeOK'
BY DEF TypeInv, App!TypeOK, Moves

LEMMA InitTyped == Init => TypeInv
<1> SUFFICES ASSUME Init PROVE TypeInv OBVIOUS
<1>1. /\ <<>> \in Seq(Blocks) /\ <<>> \in Seq(STRING) /\ <<>> \in Seq(Seq(STRING))
      /\ <<>> \in Seq(Lines) /\ Len(<<>>) = 0
  BY EmptySeq
<1>2. <<>> \in Buffers BY <1>1, QueueAssumption DEF Buffers
<1>3. memb_init \in [Blocks -> {0, 1}] BY DEF memb_init
<1>4. [b \in Blocks |-> [no |-> 0, len |-> 0]] \in [Blocks -> Lines] BY DEF Lines
<1>5. s \in ServerRecs BY <1>1, <1>2, <1>3, <1>4 DEF Init, ServerRecs, States
<1>6. s.numsent \in 0..Len(s.lines) BY <1>1 DEF Init
<1>7. App!TypeOK BY DEF Init, App!Init, App!TypeOK, App!Phases, App!NoEvent, App!Events, App!Ops
<1>8. wire \in [Conns -> Seq(Lines)] /\ seen \in [Conns -> Nat] BY <1>1 DEF Init
<1>9. crowded \in BOOLEAN /\ quitter \in Conns \cup {NoConn} BY DEF Init
<1> QED BY <1>5, <1>6, <1>7, <1>8, <1>9 DEF TypeInv, SentOK

LEMMA EmptyString == <<>> \in Seq(STRING)
BY EmptySeq

LEMMA NextTyped ==
  ASSUME Scripted, TypeInv, [Next]_vars
  PROVE  TypeInv'
<1>1. ASSUME NEW c \in Conns, NEW from, NEW to, Moves(c, from, to),
             NEW flags, IsCall(flags), NEW data \in Seq(STRING), Handle(c, flags, data)
      PROVE  TypeInv'
  BY <1>1, HandleTyped, MovesTyped DEF TypeInv
<1>2. ASSUME NEW c \in Conns, Connected(c) PROVE TypeInv'
  <2>1. PICK f \in SUBSET {"NEWDATA"}, data \in Seq(STRING) :
          /\ Moves(c, {"absent"}, "open") /\ Handle(c, {"CONNECTED"} \cup f, data)
    BY <1>2, ConnectedMoves
  <2>2. IsCall({"CONNECTED"} \cup f) BY DEF IsCall
  <2> QED BY <1>1, <2>1, <2>2
<1>3. ASSUME NEW c \in Conns, Served(c) PROVE TypeInv'
  <2>1. PICK flags \in SUBSET {"ACKDATA", "NEWDATA", "POLL"}, data \in Seq(STRING) :
          /\ flags = {"POLL"} \/ (flags # {} /\ flags \subseteq {"ACKDATA", "NEWDATA"})
          /\ Moves(c, {"open"}, IF Leaving(s, flags) THEN "left" ELSE "open")
          /\ Handle(c, flags, data)
    BY <1>3, ServedMoves
  <2>2. IsCall(flags) BY <2>1 DEF IsCall
  <2> QED BY <1>1, <2>1, <2>2
<1>4. ASSUME NEW c \in Conns, Rexmit(c) PROVE TypeInv'
  <2>1. IsCall({"REXMIT"}) BY DEF IsCall
  <2> QED BY <1>1, <1>4, <2>1, RexmitMoves, EmptyString
<1>5. ASSUME NEW c \in Conns, PeerCloses(c) PROVE TypeInv'
  <2>1. PICK f \in SUBSET {"ACKDATA", "NEWDATA"}, data \in Seq(STRING) :
          Moves(c, {"open"}, "closed") /\ Handle(c, {"CLOSE"} \cup f, data)
    BY <1>5, PeerClosesMoves
  <2>2. IsCall({"CLOSE"} \cup f) BY DEF IsCall
  <2> QED BY <1>1, <2>1, <2>2
<1>6. \A how \in {"CLOSE", "ABORT", "TIMEDOUT"} : IsCall({how})
  <2> TAKE how \in {"CLOSE", "ABORT", "TIMEDOUT"}
  <2>1. {how} = {how} \cup {} OBVIOUS
  <2> QED BY <2>1 DEF IsCall
<1>7. ASSUME NEW c \in Conns, PeerFollows(c) PROVE TypeInv'
  BY <1>1, <1>6, <1>7, PeerFollowsMoves, EmptyString
<1>8. ASSUME NEW c \in Conns, ClosedAgain(c) PROVE TypeInv'
  BY <1>1, <1>6, <1>8, ClosedAgainMoves, EmptyString
<1>9. ASSUME NEW c \in Conns, Broken(c) PROVE TypeInv'
  <2>1. PICK how \in {"ABORT", "TIMEDOUT"} : Moves(c, App!Phases, "absent") /\ Handle(c, {how}, <<>>)
    BY <1>9, BrokenMoves
  <2> QED BY <1>1, <1>6, <2>1, EmptyString
<1>10. ASSUME NEW c \in Conns, Forgotten(c) PROVE TypeInv'
  <2>1. Moves(c, {"left", "over"}, "absent") /\ UNCHANGED <<s, wire, typed, seen, crowded, quitter>>
    BY <1>10, ForgottenMoves
  <2> QED BY <2>1, MovesTyped DEF TypeInv, SentOK
<1>11. ASSUME UNCHANGED vars PROVE TypeInv'
  BY <1>11 DEF TypeInv, vars, env, App!TypeOK, SentOK
<1> QED BY <1>2, <1>3, <1>4, <1>5, <1>7, <1>8, <1>9, <1>10, <1>11 DEF Next

(* The types hold for any number of connections, with what the calls of     *)
(* uIP may bring, and blocks that are sent are blocks of the queue.         *)
THEOREM TypeInvariance == ASSUME Scripted PROVE Spec => []TypeInv
<1>1. TypeInv /\ [Next]_vars => TypeInv' BY NextTyped
<1> QED BY <1>1, InitTyped, PTL DEF Spec

(* The types, also of the queue and of the pool (telnetd.c), whatever the  *)
(* shell answers and however many connections there are.                   *)
THEOREM TypeCorrect == ASSUME Scripted PROVE Spec => []TypeOK
<1>1. TypeInv => TypeOK
  <2> SUFFICES ASSUME TypeInv PROVE TypeOK OBVIOUS
  <2>1. s \in ServerRecs /\ s.numsent \in 0..Len(s.lines) /\ App!TypeOK BY DEF TypeInv, SentOK
  <2>2. s.lines \in Seq(Blocks) /\ s.buf \in Buffers /\ s.state \in States
        /\ s.count \in [Blocks -> {0, 1}] /\ s.text \in [Blocks -> Lines]
    BY <2>1 DEF ServerRecs
  <2>3. Len(s.buf) < LINELEN BY <2>2 DEF Buffers
  <2> QED BY <2>1, <2>2, <2>3 DEF TypeOK
<1> QED BY <1>1, TypeInvariance, PTL

(***************************************************************************)
(* One connection.                                                         *)
(***************************************************************************)

(* While it is open: its queue is in order, what is in flight is the front *)
(* of the queue, and what was acknowledged last comes before it; right     *)
(* before it, unless the queue was filled behind lines in flight.          *)
Open(t, w, last) ==
  /\ Good(t) /\ t.numsent = Fits(t)
  /\ Len(w) \in Fitting(t) /\ \A i \in 1..Len(w) : w[i] = t.text[t.lines[i]]
  /\ last + Len(t.lines) <= t.made
Exact(t, w, last) == last + Len(t.lines) = t.made /\ Len(w) = t.numsent

(* A queue whose lines are sent now.                                       *)
LEMMA OpenSent ==
  ASSUME NEW v \in ServerRecs, Good(v), NEW last \in Nat, last + Len(v.lines) <= v.made
  PROVE  /\ Open(senddata(v), Handed(senddata(v)), last)
         /\ last + Len(v.lines) = v.made => Exact(senddata(v), Handed(senddata(v)), last)
<1> DEFINE u == senddata(v)
<1>1. u \in ServerRecs /\ u = [v EXCEPT !.numsent = Fits(v)] BY SenddataIs
<1> HIDE DEF u
<1>2. /\ u.numsent = Fits(v) /\ u.lines = v.lines /\ u.text = v.text
      /\ u.count = v.count /\ u.made = v.made
  BY <1>1 DEF ServerRecs
<1>3. Fits(u) = Fits(v) BY <1>1, <1>2, FitsSame
<1>4. u.numsent \in Fitting(u) /\ u.numsent \in 0..Len(u.lines) BY <1>1, <1>2, <1>3, FitsIs
<1>5. Len(Handed(u)) = u.numsent /\ \A i \in 1..u.numsent : Handed(u)[i] = u.text[u.lines[i]]
  BY <1>1, <1>4, HandedIs
<1>6. Good(u) BY <1>2 DEF Good
<1>7. Open(u, Handed(u), last) BY <1>2, <1>3, <1>4, <1>5, <1>6 DEF Open
<1>8. last + Len(v.lines) = v.made => Exact(u, Handed(u), last) BY <1>2, <1>5 DEF Exact
<1> QED BY <1>7, <1>8 DEF u

(* Lines are queued behind those in flight.                                *)
LEMMA OpenBehind ==
  ASSUME NEW t \in ServerRecs, NEW w, NEW last \in Nat, Open(t, w, last),
         NEW v \in ServerRecs, Grows(t, v)
  PROVE  /\ Open(senddata(v), w, last) /\ Good(v) /\ last + Len(v.lines) <= v.made
         /\ Exact(t, w, last) => last + Len(v.lines) = v.made
         /\ Exact(t, w, last) /\ v = t => Exact(senddata(v), w, last)
<1> DEFINE u == senddata(v)
<1>1. u \in ServerRecs /\ u = [v EXCEPT !.numsent = Fits(v)] BY SenddataIs
<1> HIDE DEF u
<1>2. /\ u.numsent = Fits(v) /\ u.lines = v.lines /\ u.text = v.text
      /\ u.count = v.count /\ u.made = v.made
  BY <1>1 DEF ServerRecs
<1>3. Fits(u) = Fits(v) BY <1>1, <1>2, FitsSame
<1>4. /\ Good(v) /\ v.made - Len(v.lines) = t.made - Len(t.lines)
      /\ Len(t.lines) <= Len(v.lines)
      /\ \A i \in 1..Len(t.lines) : v.lines[i] = t.lines[i] /\ v.text[t.lines[i]] = t.text[t.lines[i]]
  BY DEF Open, Grows
<1>5. Len(w) \in Fitting(v) /\ Len(w) \in Fitting(u)
  <2>1. Len(w) \in Fitting(t) BY DEF Open
  <2>2. Len(w) \in Fitting(v) BY <1>4, <2>1, FittingStays
  <2>3. /\ Len(t.lines) <= Len(u.lines)
        /\ \A i \in 1..Len(t.lines) : u.lines[i] = t.lines[i] /\ u.text[t.lines[i]] = t.text[t.lines[i]]
    BY <1>2, <1>4
  <2>4. Len(w) \in Fitting(u) BY <1>1, <2>1, <2>3, FittingStays
  <2> QED BY <2>2, <2>4
<1>6. \A i \in 1..Len(w) : w[i] = u.text[u.lines[i]]
  <2>1. Len(w) \in 0..Len(t.lines) /\ Len(t.lines) \in Nat BY LenProperties DEF Open, Fitting, ServerRecs
  <2>2. \A i \in 1..Len(w) : i \in 1..Len(t.lines) /\ w[i] = t.text[t.lines[i]] BY <2>1 DEF Open
  <2> QED BY <1>2, <1>4, <2>2
<1>7. /\ Len(t.lines) \in Nat /\ Len(v.lines) \in Nat /\ t.made \in Nat /\ v.made \in Nat
  BY LenProperties DEF ServerRecs
<1>8. last + Len(v.lines) <= v.made /\ (Exact(t, w, last) => last + Len(v.lines) = v.made)
  <2> DEFINE p == Len(t.lines)  q == Len(v.lines)  x == t.made  y == v.made
  <2>1. last + p <= x /\ (Exact(t, w, last) => last + p = x) BY DEF Open, Exact
  <2>2. p \in Nat /\ q \in Nat /\ x \in Nat /\ y \in Nat /\ y - q = x - p BY <1>4, <1>7
  <2> HIDE DEF p, q, x, y
  <2>3. last + q <= y BY <2>1, <2>2
  <2>4. last + p = x => last + q = y BY <2>2
  <2>5. last + q <= y /\ (Exact(t, w, last) => last + q = y) BY <2>1, <2>3, <2>4
  <2> QED BY <2>5 DEF q, y
<1>9. Good(u) BY <1>2, <1>4 DEF Good
<1>10. Open(u, w, last) BY <1>2, <1>3, <1>5, <1>6, <1>8, <1>9 DEF Open
<1>11. Exact(t, w, last) /\ v = t => Exact(u, w, last)
  <2>1. t.numsent = Fits(t) BY DEF Open
  <2> QED BY <1>2, <2>1 DEF Exact
<1> QED BY <1>4, <1>8, <1>10, <1>11 DEF u

(* What was in flight is acknowledged.                                     *)
LEMMA OpenAcked ==
  ASSUME NEW t, SentOK(t), NEW w \in Seq(Lines), w # <<>>, NEW last \in Nat,
         Open(t, w, last)
  PROVE  LET a == acked(t)
         IN  /\ a \in ServerRecs /\ Good(a) /\ Last(w).no \in Nat
             /\ Last(w).no + Len(a.lines) <= a.made
             /\ Exact(t, w, last) => Last(w).no + Len(a.lines) = a.made
<1> DEFINE a == acked(t)  n == Len(t.lines)  m == t.numsent  k == Len(w)
<1>1. t \in ServerRecs /\ m \in 0..n BY DEF SentOK
<1>2. /\ a \in ServerRecs /\ Good(a) /\ a.made = t.made /\ Len(a.lines) = n - m
  BY <1>1, AckedIs DEF Open
<1> HIDE DEF a
<1>3. n \in Nat /\ t.made \in Nat BY <1>1, LenProperties DEF ServerRecs
<1>4. k \in Nat /\ k # 0 BY EmptySeq
<1>5. k \in Fitting(t) /\ m = Fits(t) BY DEF Open
<1>6. k <= m /\ k \in 1..n BY <1>1, <1>3, <1>4, <1>5, FitsIs DEF Fitting
<1>7. Last(w) = t.text[t.lines[k]] BY <1>4 DEF Last, Open
<1>8. Last(w).no = t.made - n + k BY <1>6, <1>7 DEF Open, Good
<1>9. n <= t.made BY DEF Open, Good
<1>10. Exact(t, w, last) => k = m BY DEF Exact
<1> HIDE DEF n, m, k
<1>11. Last(w).no \in Nat /\ Last(w).no + Len(a.lines) <= a.made
  BY <1>1, <1>2, <1>3, <1>4, <1>6, <1>8, <1>9
<1>12. Exact(t, w, last) => Last(w).no + Len(a.lines) = a.made
  BY <1>1, <1>2, <1>3, <1>4, <1>6, <1>8, <1>9, <1>10
<1> QED BY <1>2, <1>11, <1>12 DEF a

Ordered(c) ==
  /\ phase[c] = "open" => /\ Open(s, wire[c], seen[c])
                          /\ ~crowded => Exact(s, wire[c], seen[c])
  /\ phase[c] # "open" => wire[c] = <<>>

(* As long as nobody typed exit, blocks in use are queued, and none are in *)
(* use when the connection is gone.                                        *)
Free(t) == \A b \in Blocks : t.count[b] = 0
Returned(c) ==
  quitter = NoConn =>
    /\ s.state # "CLOSE" /\ Kept(s) /\ phase[c] \notin {"left", "over"}
    /\ phase[c] = "absent" => Free(s)

OneInv(c) == Ordered(c) /\ Returned(c)

LEMMA Handled ==
  ASSUME TypeInv, NEW c \in Conns, NEW flags, NEW data, Handle(c, flags, data)
  PROVE  LET left == IF "ACKDATA" \in flags THEN <<>> ELSE wire[c]
         IN  /\ s' = telnetd_appcall(s, flags, data)
             /\ "NEWDATA" \in flags <=> data # <<>>
             /\ flags \cap {"ACKDATA", "REXMIT"} # {} => wire[c] # <<>>
             /\ "POLL" \in flags => wire[c] = <<>>
             /\ phase'[c] # "open" => wire'[c] = <<>>
             /\ phase'[c] = "open" /\ (left # <<>> \/ flags \cap Sends = {} \/ Leaving(s, flags))
                  => wire'[c] = left
             /\ phase'[c] = "open" /\ left = <<>> /\ flags \cap Sends # {} /\ ~Leaving(s, flags)
                  => wire'[c] = Handed(s')
             /\ "CONNECTED" \in flags => seen'[c] = 0
             /\ "CONNECTED" \notin flags /\ "ACKDATA" \in flags => seen'[c] = Last(wire[c]).no
             /\ "CONNECTED" \notin flags /\ "ACKDATA" \notin flags => seen'[c] = seen[c]
             /\ "CONNECTED" \notin flags /\ crowded => crowded'
             /\ "CONNECTED" \notin flags /\ left # <<>> /\ data # <<>> => crowded'
             /\ crowded' => "CONNECTED" \notin flags
             /\ crowded' /\ (left = <<>> \/ data = <<>>) => crowded
             /\ quitter' = IF s'.state = "CLOSE" THEN c ELSE quitter
<1> DEFINE left == IF "ACKDATA" \in flags THEN <<>> ELSE wire[c]
           said == flags \cap Sends # {} /\ ~Leaving(s, flags)
           w == IF phase'[c] # "open" THEN <<>>
                ELSE IF left = <<>> /\ said THEN Handed(s') ELSE left
           x == IF "CONNECTED" \in flags THEN 0
                ELSE IF "ACKDATA" \in flags THEN Last(wire[c]).no ELSE seen[c]
<1>1. /\ s' = telnetd_appcall(s, flags, data)
      /\ "NEWDATA" \in flags <=> data # <<>>
      /\ flags \cap {"ACKDATA", "REXMIT"} # {} => wire[c] # <<>>
      /\ "POLL" \in flags => wire[c] = <<>>
      /\ wire' = [wire EXCEPT ![c] = w]
      /\ seen' = [seen EXCEPT ![c] = x]
      /\ crowded' = ("CONNECTED" \notin flags /\ (crowded \/ (left # <<>> /\ data # <<>>)))
      /\ quitter' = IF s'.state = "CLOSE" THEN c ELSE quitter
  BY DEF Handle
<1>2. wire'[c] = w /\ seen'[c] = x
  <2> HIDE DEF w, x
  <2> QED BY <1>1 DEF TypeInv
<1>3. /\ phase'[c] # "open" => w = <<>>
      /\ phase'[c] = "open" /\ (left # <<>> \/ ~said) => w = left
      /\ phase'[c] = "open" /\ left = <<>> /\ said => w = Handed(s')
  <2> HIDE DEF left, said
  <2> QED OBVIOUS
<1>4. /\ "CONNECTED" \in flags => x = 0
      /\ "CONNECTED" \notin flags /\ "ACKDATA" \in flags => x = Last(wire[c]).no
      /\ "CONNECTED" \notin flags /\ "ACKDATA" \notin flags => x = seen[c]
  OBVIOUS
<1> HIDE DEF w, x
<1>5. /\ "CONNECTED" \notin flags /\ crowded => crowded'
      /\ "CONNECTED" \notin flags /\ left # <<>> /\ data # <<>> => crowded'
      /\ crowded' => "CONNECTED" \notin flags
      /\ crowded' /\ (left = <<>> \/ data = <<>>) => crowded
  <2> HIDE DEF left
  <2> QED BY <1>1
<1> QED BY <1>1, <1>2, <1>3, <1>4, <1>5

LEMMA KeptSent ==
  ASSUME NEW v \in ServerRecs, Kept(v)
  PROVE  Kept(senddata(v))
<1>1. senddata(v) = [v EXCEPT !.numsent = Fits(v)] BY SenddataIs
<1>2. [v EXCEPT !.numsent = Fits(v)].count = v.count /\ [v EXCEPT !.numsent = Fits(v)].lines = v.lines
  BY DEF ServerRecs
<1> QED BY <1>1, <1>2 DEF Kept

(* A step in which nobody typed exit, before it or in it.                  *)
LEMMA Stayed ==
  ASSUME TypeInv, NEW c \in Conns, OneInv(c), NEW flags, NEW data, Handle(c, flags, data),
         quitter' = NoConn
  PROVE  /\ s'.state # "CLOSE" /\ quitter = NoConn /\ ~Leaving(s, flags)
         /\ Kept(s) /\ phase[c] \notin {"left", "over"} /\ (phase[c] = "absent" => Free(s))
<1>1. c # NoConn BY QueueAssumption
<1>2. quitter' = IF s'.state = "CLOSE" THEN c ELSE quitter BY Handled
<1>3. s'.state # "CLOSE" /\ quitter = NoConn BY <1>1, <1>2
<1> QED BY <1>3 DEF OneInv, Returned, Leaving

LEMMA MovedTo ==
  ASSUME TypeInv, NEW c \in Conns, NEW from, NEW to, Moves(c, from, to)
  PROVE  phase[c] \in from /\ phase'[c] = to
BY DEF TypeInv, App!TypeOK, Moves

LEMMA ConnectedOne ==
  ASSUME Scripted, TypeInv, NEW c \in Conns, OneInv(c), Connected(c)
  PROVE  OneInv(c)'
<1>1. PICK f \in SUBSET {"NEWDATA"}, data \in Seq(STRING) :
        /\ Moves(c, {"absent"}, "open") /\ Handle(c, {"CONNECTED"} \cup f, data)
  BY ConnectedMoves
<1>2. phase[c] = "absent" /\ phase'[c] = "open" BY <1>1, MovedTo
<1> DEFINE flags == {"CONNECTED"} \cup f
<1>3. s \in ServerRecs BY DEF TypeInv, SentOK
<1>4. PICK v \in ServerRecs : telnetd_appcall(s, flags, data) = senddata(v) /\ Grows(Started(s), v)
  BY <1>3, ConnectedCall
<1>5. /\ "CONNECTED" \in flags /\ "ACKDATA" \notin flags /\ flags \cap Sends # {}
      /\ ~Leaving(s, flags)
  BY DEF Sends, Leaving
<1> HIDE DEF flags
<1>6. wire[c] = <<>> BY <1>2 DEF OneInv, Ordered
<1>h. Handle(c, flags, data) BY <1>1 DEF flags
<1>7. s' = senddata(v) /\ wire'[c] = Handed(s') /\ seen'[c] = 0 BY <1>2, <1>4, <1>5, <1>6, <1>h, Handled
<1>8. Good(v) /\ v.made - Len(v.lines) = 0 BY <1>3, <1>4, StartedIs DEF Grows
<1>9. Len(v.lines) \in Nat /\ v.made \in Nat BY LenProperties DEF ServerRecs
<1>10. 0 + Len(v.lines) = v.made /\ 0 + Len(v.lines) <= v.made BY <1>8, <1>9
<1>11. Open(senddata(v), Handed(senddata(v)), 0) /\ Exact(senddata(v), Handed(senddata(v)), 0)
  BY <1>8, <1>10, OpenSent
<1>12. Ordered(c)' BY <1>2, <1>7, <1>11 DEF Ordered
<1>13. ASSUME quitter' = NoConn PROVE s'.state # "CLOSE" /\ Kept(s')
  <2>1. s'.state # "CLOSE" /\ Free(s) BY <1>2, <1>13, <1>h, Stayed
  <2>2. Kept(v) BY <1>3, <1>4, <2>1, StartedIs DEF Free, Grows
  <2> QED BY <1>7, <2>1, <2>2, KeptSent
<1>14. Returned(c)' BY <1>2, <1>13 DEF Returned
<1> QED BY <1>12, <1>14 DEF OneInv

(* Calls that leave the connection, or after which it is not open.         *)
LEMMA LeftOne ==
  ASSUME Scripted, TypeInv, NEW c \in Conns, phase[c] = "open", OneInv(c),
         NEW flags, NEW data, Handle(c, flags, data), Leaving(s, flags),
         phase'[c] = "left"
  PROVE  OneInv(c)'
<1>1. wire'[c] = <<>> BY Handled
<1>2. Ordered(c)' BY <1>1 DEF Ordered
<1>3. quitter' # NoConn BY Stayed
<1>4. Returned(c)' BY <1>3 DEF Returned
<1> QED BY <1>2, <1>4 DEF OneInv

LEMMA ServedOne ==
  ASSUME Scripted, TypeInv, NEW c \in Conns, OneInv(c), Served(c)
  PROVE  OneInv(c)'
<1>1. PICK flags \in SUBSET {"ACKDATA", "NEWDATA", "POLL"}, data \in Seq(STRING) :
        /\ flags = {"POLL"} \/ (flags # {} /\ flags \subseteq {"ACKDATA", "NEWDATA"})
        /\ Moves(c, {"open"}, IF Leaving(s, flags) THEN "left" ELSE "open")
        /\ Handle(c, flags, data)
  BY ServedMoves
<1>2. phase[c] = "open" /\ phase'[c] = (IF Leaving(s, flags) THEN "left" ELSE "open")
  BY <1>1, MovedTo
<1>3. CASE Leaving(s, flags)
  BY <1>1, <1>2, <1>3, LeftOne
<1>4. CASE ~Leaving(s, flags)
  <2> DEFINE a == IF "ACKDATA" \in flags THEN acked(s) ELSE s
  <2>1. s \in ServerRecs /\ s.numsent \in 0..Len(s.lines) /\ SentOK(s) BY DEF TypeInv, SentOK
  <2>2. flags \in SUBSET {"ACKDATA", "NEWDATA", "POLL", "REXMIT"} /\ flags # {} BY <1>1
  <2>3. /\ a \in ServerRecs
        /\ \E v \in ServerRecs : /\ telnetd_appcall(s, flags, data) = senddata(v)
                                 /\ Grows(a, v) /\ ("NEWDATA" \notin flags => v = a)
    BY <1>4, <2>1, <2>2, ServedCall
  <2> HIDE DEF a
  <2>4. PICK v \in ServerRecs : /\ telnetd_appcall(s, flags, data) = senddata(v)
                                /\ Grows(a, v) /\ ("NEWDATA" \notin flags => v = a)
    BY <2>3
  <2>s. /\ "CONNECTED" \notin flags /\ flags \cap Sends # {} /\ "REXMIT" \notin flags
        /\ phase'[c] = "open"
    BY <1>1, <1>2, <1>4 DEF Sends
  <2>n. "NEWDATA" \in flags <=> data # <<>> BY <1>1, Handled
  <2>5. /\ "CONNECTED" \notin flags /\ flags \cap Sends # {} /\ "REXMIT" \notin flags
        /\ phase'[c] = "open"
        /\ "NEWDATA" \in flags <=> data # <<>>
    BY <2>s, <2>n
  <2>6. s' = senddata(v) BY <1>1, <2>4, Handled
  <2>7. Open(s, wire[c], seen[c]) /\ (~crowded => Exact(s, wire[c], seen[c]))
    BY <1>2 DEF OneInv, Ordered
  <2>8. wire[c] \in Seq(Lines) /\ seen[c] \in Nat BY DEF TypeInv
  <2>9. Open(s', wire'[c], seen'[c]) /\ (~crowded' => Exact(s', wire'[c], seen'[c]))
    <3>1. CASE "ACKDATA" \in flags
      <4>1. a = acked(s) /\ wire[c] # <<>> BY <1>1, <3>1, Handled DEF a
      <4> DEFINE last == Last(wire[c]).no
      <4>2. /\ Good(a) /\ last \in Nat /\ last + Len(a.lines) <= a.made
            /\ ~crowded => last + Len(a.lines) = a.made
        BY <2>1, <2>7, <2>8, <4>1, OpenAcked
      <4>3. wire'[c] = Handed(s') /\ seen'[c] = last /\ (crowded => crowded')
        BY <1>1, <1>4, <2>5, <3>1, Handled
      <4> HIDE DEF last
      <4>4. Good(v) /\ v.made - Len(v.lines) = a.made - Len(a.lines)
        BY <2>4, <4>2 DEF Grows
      <4>5. /\ Len(a.lines) \in Nat /\ Len(v.lines) \in Nat /\ a.made \in Nat /\ v.made \in Nat
        BY <2>3, LenProperties DEF ServerRecs
      <4>6. last + Len(v.lines) <= v.made /\ (~crowded => last + Len(v.lines) = v.made)
        <5> DEFINE p == Len(a.lines)  q == Len(v.lines)  x == a.made  y == v.made
        <5>1. p \in Nat /\ q \in Nat /\ x \in Nat /\ y \in Nat /\ last \in Nat /\ y - q = x - p
          BY <4>2, <4>4, <4>5
        <5>2. last + p <= x /\ (~crowded => last + p = x) BY <4>2
        <5> HIDE DEF p, q, x, y
        <5>3. last + q <= y BY <5>1, <5>2
        <5>4. last + p = x => last + q = y BY <5>1
        <5> QED BY <5>2, <5>3, <5>4 DEF q, y
      <4>7. /\ Open(senddata(v), Handed(senddata(v)), last)
            /\ ~crowded => Exact(senddata(v), Handed(senddata(v)), last)
        BY <4>2, <4>4, <4>6, OpenSent
      <4> QED BY <2>6, <4>3, <4>7
    <3>2. CASE "ACKDATA" \notin flags
      <4>1. a = s /\ Grows(s, v) BY <2>4, <3>2 DEF a
      <4>2. /\ Open(senddata(v), wire[c], seen[c]) /\ Good(v) /\ seen[c] + Len(v.lines) <= v.made
            /\ ~crowded => seen[c] + Len(v.lines) = v.made
            /\ ~crowded /\ v = s => Exact(senddata(v), wire[c], seen[c])
        BY <2>1, <2>7, <2>8, <4>1, OpenBehind
      <4>3. seen'[c] = seen[c] /\ (crowded => crowded') BY <1>1, <2>5, <3>2, Handled
      <4>4. CASE wire[c] = <<>>
        <5>1. wire'[c] = Handed(s')
          BY <1>1, <1>4, <2>5, <3>2, <4>4, Handled
        <5>2. /\ Open(senddata(v), Handed(senddata(v)), seen[c])
              /\ ~crowded => Exact(senddata(v), Handed(senddata(v)), seen[c])
          BY <2>8, <4>2, OpenSent
        <5> QED BY <2>6, <4>3, <5>1, <5>2
      <4>5. CASE wire[c] # <<>>
        <5>1. wire'[c] = wire[c] BY <1>1, <2>5, <3>2, <4>5, Handled
        <5>2. CASE data = <<>>
          <6>1. v = s BY <2>4, <2>5, <4>1, <5>2
          <6> QED BY <2>6, <4>2, <4>3, <5>1, <6>1
        <5>3. CASE data # <<>>
          <6>1. crowded' BY <1>1, <2>5, <3>2, <4>5, <5>3, Handled
          <6> QED BY <2>6, <4>2, <4>3, <5>1, <6>1
        <5> QED BY <5>2, <5>3
      <4> QED BY <4>4, <4>5
    <3> QED BY <3>1, <3>2
  <2>10. Ordered(c)' BY <2>5, <2>9 DEF Ordered
  <2>11. ASSUME quitter' = NoConn PROVE s'.state # "CLOSE" /\ Kept(s')
    <3>1. s'.state # "CLOSE" /\ Kept(s) BY <1>1, <2>11, Stayed
    <3>2. Kept(a)
      <4>1. Kept(acked(s)) BY <2>1, <3>1, AckedIs
      <4> QED BY <3>1, <4>1 DEF a
    <3>3. Kept(v) BY <2>4, <3>2 DEF Grows
    <3> QED BY <2>6, <3>1, <3>3, KeptSent
  <2>12. Returned(c)' BY <2>5, <2>11 DEF Returned
  <2> QED BY <2>10, <2>12 DEF OneInv
<1> QED BY <1>3, <1>4

LEMMA RexmitOne ==
  ASSUME Scripted, TypeInv, NEW c \in Conns, OneInv(c), Rexmit(c)
  PROVE  OneInv(c)'
<1> DEFINE flags == {"REXMIT"}  data == <<>>
<1>1. Moves(c, {"open"}, "open") /\ Handle(c, flags, data) BY RexmitMoves
<1>2. phase[c] = "open" /\ phase'[c] = "open" BY <1>1, MovedTo
<1>3. /\ flags \in SUBSET {"ACKDATA", "NEWDATA", "POLL", "REXMIT"} /\ flags # {}
      /\ "CONNECTED" \notin flags /\ "ACKDATA" \notin flags /\ "NEWDATA" \notin flags
      /\ flags \cap {"ACKDATA", "REXMIT"} # {} /\ data \in Seq(STRING)
  BY EmptyString
<1>d. data = <<>> OBVIOUS
<1> HIDE DEF flags, data
<1>4. s \in ServerRecs /\ s.numsent \in 0..Len(s.lines) BY DEF TypeInv, SentOK
<1>5. Open(s, wire[c], seen[c]) /\ (~crowded => Exact(s, wire[c], seen[c]))
  BY <1>2 DEF OneInv, Ordered
<1>6. seen[c] \in Nat BY DEF TypeInv
<1>7. /\ wire[c] # <<>> /\ s' = telnetd_appcall(s, flags, data)
      /\ seen'[c] = seen[c] /\ (crowded => crowded')
  BY <1>1, <1>3, Handled
<1>8. wire'[c] = wire[c] BY <1>1, <1>2, <1>3, <1>7, Handled
<1>9. CASE Leaving(s, flags)
  <2>1. /\ s' \in ServerRecs /\ s'.lines = s.lines /\ s'.numsent = s.numsent
        /\ s'.count = s.count /\ s'.text = s.text /\ s'.made = s.made
    BY <1>4, <1>7, <1>9, LeavingCall
  <2>2. Open(s', wire[c], seen[c])
    <3> DEFINE u == s'  w == wire[c]  last == seen[c]
    <3>1. /\ u \in ServerRecs /\ u.lines = s.lines /\ u.numsent = s.numsent
          /\ u.count = s.count /\ u.text = s.text /\ u.made = s.made
      BY <2>1
    <3>2. Open(s, w, last) BY <1>5
    <3> HIDE DEF u, w, last
    <3>3. Fits(u) = Fits(s) BY <1>4, <3>1, FitsSame
    <3>4. Len(w) \in Fitting(u)
      <4>1. Len(s.lines) \in Nat BY <1>4
      <4>2. Len(w) \in Fitting(s) BY <3>2 DEF Open
      <4> QED BY <1>4, <3>1, <4>1, <4>2, FittingStays
    <3>5. Good(u) BY <3>1, <3>2 DEF Good, Open
    <3>6. Open(u, w, last) BY <3>1, <3>2, <3>3, <3>4, <3>5 DEF Open
    <3> QED BY <3>6 DEF u, w, last
  <2>3. Exact(s, wire[c], seen[c]) => Exact(s', wire[c], seen[c]) BY <2>1 DEF Exact
  <2>4. Ordered(c)' BY <1>2, <1>5, <1>7, <1>8, <2>2, <2>3 DEF Ordered
  <2>5. quitter' # NoConn BY <1>1, <1>9, Stayed
  <2>6. Returned(c)' BY <2>5 DEF Returned
  <2> QED BY <2>4, <2>6 DEF OneInv
<1>10. CASE ~Leaving(s, flags)
  <2>1. /\ Open(senddata(s), wire[c], seen[c])
        /\ Exact(s, wire[c], seen[c]) => Exact(senddata(s), wire[c], seen[c])
    <3>1. Grows(s, s) BY <1>4, SameGrows DEF SameQueue, ServerRecs
    <3> QED BY <1>4, <1>5, <1>6, <3>1, OpenBehind
  <2>2. s' = senddata(s)
    <3>1. \E v \in ServerRecs : /\ telnetd_appcall(s, flags, data) = senddata(v)
                                /\ ("NEWDATA" \notin flags => v = s)
      BY <1>3, <1>4, <1>10, ServedCall
    <3> QED BY <1>3, <1>7, <3>1
  <2>3. Ordered(c)' BY <1>2, <1>5, <1>7, <1>8, <2>1, <2>2 DEF Ordered
  <2>4. ASSUME quitter' = NoConn PROVE s'.state # "CLOSE" /\ Kept(s')
    <3>1. s'.state # "CLOSE" /\ Kept(s) BY <1>1, <2>4, Stayed
    <3> QED BY <1>4, <2>2, <3>1, KeptSent
  <2>5. Returned(c)' BY <1>2, <2>4 DEF Returned
  <2> QED BY <2>3, <2>5 DEF OneInv
<1> QED BY <1>9, <1>10

(* The connection is closed by the other side, or broken.                  *)
LEMMA ClosingOne ==
  ASSUME Scripted, TypeInv, NEW c \in Conns, OneInv(c),
         NEW how \in {"CLOSE", "ABORT", "TIMEDOUT"}, NEW f \in SUBSET {"ACKDATA", "NEWDATA"},
         NEW data \in Seq(STRING), Handle(c, {how} \cup f, data),
         phase'[c] \in {"closed", "absent"}, phase'[c] = "absent" => f = {}
  PROVE  OneInv(c)'
<1> DEFINE flags == {how} \cup f
<1>h. Handle(c, flags, data) OBVIOUS
<1>1. s \in ServerRecs /\ s.numsent \in 0..Len(s.lines) BY DEF TypeInv, SentOK
<1>2. ~Leaving(s, flags) => /\ Kept(s) => Kept(telnetd_appcall(s, flags, data))
                            /\ Kept(s) /\ f = {} => Free(telnetd_appcall(s, flags, data))
  <2> SUFFICES ASSUME ~Leaving(s, {how} \cup f)
               PROVE  /\ Kept(s) => Kept(telnetd_appcall(s, {how} \cup f, data))
                      /\ Kept(s) /\ f = {} => Free(telnetd_appcall(s, {how} \cup f, data))
    OBVIOUS
  <2> DEFINE u == telnetd_appcall(s, {how} \cup f, data)
  <2>1. Kept(s) => Kept(u) BY <1>1, ClosingCall
  <2>2. Kept(s) /\ f = {} => \A b \in Blocks : u.count[b] = 0 BY <1>1, ClosingCall
  <2> HIDE DEF u
  <2>3. Kept(s) /\ f = {} => Free(u) BY <2>2 DEF Free
  <2> QED BY <2>1, <2>3 DEF u
<1> HIDE DEF flags
<1>3. s' = telnetd_appcall(s, flags, data) /\ wire'[c] = <<>> BY <1>h, Handled
<1>4. Ordered(c)' BY <1>3 DEF Ordered
<1>5. ASSUME quitter' = NoConn
      PROVE  s'.state # "CLOSE" /\ Kept(s') /\ (phase'[c] = "absent" => Free(s'))
  <2>1. s'.state # "CLOSE" /\ Kept(s) /\ ~Leaving(s, flags) BY <1>h, <1>5, Stayed
  <2> QED BY <1>2, <1>3, <2>1
<1>6. Returned(c)' BY <1>5 DEF Returned
<1> QED BY <1>4, <1>6 DEF OneInv

LEMMA PeerFollowsOne ==
  ASSUME Scripted, TypeInv, NEW c \in Conns, OneInv(c), PeerFollows(c)
  PROVE  OneInv(c)'
<1>1. Moves(c, {"left"}, "over") /\ Handle(c, {"CLOSE"}, <<>>) BY PeerFollowsMoves
<1>2. phase[c] = "left" /\ phase'[c] = "over" BY <1>1, MovedTo
<1>3. wire'[c] = <<>> BY <1>1, <1>2, Handled
<1>4. quitter' # NoConn BY <1>1, <1>2, Stayed
<1> QED BY <1>2, <1>3, <1>4 DEF OneInv, Ordered, Returned

LEMMA ForgottenOne ==
  ASSUME TypeInv, NEW c \in Conns, OneInv(c), Forgotten(c)
  PROVE  OneInv(c)'
<1>1. /\ Moves(c, {"left", "over"}, "absent")
      /\ UNCHANGED <<s, wire, typed, seen, crowded, quitter>>
  BY ForgottenMoves
<1>2. phase[c] \in {"left", "over"} /\ phase'[c] = "absent" BY <1>1, MovedTo
<1>3. wire'[c] = <<>> BY <1>1, <1>2 DEF OneInv, Ordered
<1>4. quitter' # NoConn BY <1>1, <1>2 DEF OneInv, Returned
<1> QED BY <1>2, <1>3, <1>4 DEF OneInv, Ordered, Returned

LEMMA InitOne ==
  ASSUME Init, NEW c \in Conns
  PROVE  OneInv(c)
<1>1. phase[c] = "absent" /\ wire[c] = <<>> BY DEF Init, App!Init
<1>2. s.count = [b \in Blocks |-> 0] /\ s.state = "NORMAL" BY DEF Init, memb_init
<1>3. Free(s) /\ Kept(s) BY <1>2 DEF Free, Kept
<1> QED BY <1>1, <1>2, <1>3 DEF OneInv, Ordered, Returned

LEMMA NextOne ==
  ASSUME Scripted, NEW c, Conns = {c}, TypeInv, OneInv(c), [Next]_vars
  PROVE  OneInv(c)'
<1>c. c \in Conns /\ \A d \in Conns : d = c OBVIOUS
<1>1. CASE Connected(c) BY <1>1, <1>c, ConnectedOne
<1>2. CASE Served(c) BY <1>2, <1>c, ServedOne
<1>3. CASE Rexmit(c) BY <1>3, <1>c, RexmitOne
<1>4. CASE PeerCloses(c)
  <2>1. PICK f \in SUBSET {"ACKDATA", "NEWDATA"}, data \in Seq(STRING) :
          Moves(c, {"open"}, "closed") /\ Handle(c, {"CLOSE"} \cup f, data)
    BY <1>4, <1>c, PeerClosesMoves
  <2>2. phase'[c] = "closed" BY <1>c, <2>1, MovedTo
  <2> QED BY <1>c, <2>1, <2>2, ClosingOne
<1>5. CASE PeerFollows(c) BY <1>5, <1>c, PeerFollowsOne
<1>n. \A how : {how} \cup {} = {how} OBVIOUS
<1>6. CASE ClosedAgain(c)
  <2>1. Moves(c, {"closed"}, "absent") /\ Handle(c, {"CLOSE"} \cup {}, <<>>)
    BY <1>6, <1>c, <1>n, ClosedAgainMoves
  <2>2. phase'[c] = "absent" BY <1>c, <2>1, MovedTo
  <2> QED BY <1>c, <2>1, <2>2, ClosingOne, EmptyString
<1>7. CASE Broken(c)
  <2>1. PICK how \in {"ABORT", "TIMEDOUT"} : Moves(c, App!Phases, "absent") /\ Handle(c, {how}, <<>>)
    BY <1>7, <1>c, BrokenMoves
  <2>2. phase'[c] = "absent" /\ Handle(c, {how} \cup {}, <<>>) BY <1>c, <1>n, <2>1, MovedTo
  <2> QED BY <1>c, <2>1, <2>2, ClosingOne, EmptyString
<1>8. CASE Forgotten(c) BY <1>8, <1>c, ForgottenOne
<1>9. CASE UNCHANGED vars
  BY <1>9 DEF vars, env, OneInv, Ordered, Returned
<1> QED BY <1>c, <1>1, <1>2, <1>3, <1>4, <1>5, <1>6, <1>7, <1>8, <1>9 DEF Next

(* The inductive invariant of telnetd_appcall with one connection at a      *)
(* time: the blocks queued are different and consecutive, what is in flight *)
(* is the front of the queue, and every block in use is queued.             *)
THEOREM OneInvariance ==
  ASSUME Scripted, NEW CONSTANT c, Conns = {c}
  PROVE  Spec => [](TypeInv /\ OneInv(c))
<1>1. Init => TypeInv /\ OneInv(c)
  <2>1. c \in Conns OBVIOUS
  <2> QED BY <2>1, InitTyped, InitOne
<1>2. TypeInv /\ OneInv(c) /\ [Next]_vars => (TypeInv /\ OneInv(c))'
  BY NextTyped, NextOne
<1> QED BY <1>1, <1>2, PTL DEF Spec

(* The lines in flight, and where they are in the queue.                   *)
LEMMA InFlight ==
  ASSUME TypeInv, NEW c \in Conns, OneInv(c), wire[c] # <<>>
  PROVE  LET w == wire[c]
             n == Len(s.lines)
         IN  /\ Open(s, w, seen[c]) /\ (~crowded => Exact(s, w, seen[c]))
             /\ w \in Seq(Lines) /\ Len(w) \in Nat /\ DOMAIN w = 1..Len(w)
             /\ n \in Nat /\ s.made \in Nat /\ seen[c] \in Nat /\ n <= s.made
             /\ Len(w) <= s.numsent /\ s.numsent \in 0..n /\ s \in ServerRecs
             /\ \A i \in 1..Len(w) : /\ w[i] = s.text[s.lines[i]]
                                     /\ w[i].no = s.made - n + i
<1> DEFINE w == wire[c]  n == Len(s.lines)
<1>1. Open(s, w, seen[c]) /\ (~crowded => Exact(s, w, seen[c])) BY DEF OneInv, Ordered
<1>2. s \in ServerRecs /\ s.numsent \in 0..n /\ w \in Seq(Lines) /\ seen[c] \in Nat
  BY DEF TypeInv, SentOK
<1> HIDE DEF w
<1>3. Len(w) \in Nat /\ DOMAIN w = 1..Len(w) BY <1>2, LenProperties
<1>4. n \in Nat /\ s.made \in Nat BY <1>2, LenProperties DEF ServerRecs
<1>5. n <= s.made BY <1>1 DEF Open, Good
<1>6. Len(w) \in Fitting(s) /\ s.numsent = Fits(s) BY <1>1 DEF Open
<1>7. Len(w) <= s.numsent BY <1>2, <1>6, FitsIs
<1>8. \A i \in 1..Len(w) : i \in 1..n BY <1>2, <1>3, <1>4, <1>7
<1>9. \A i \in 1..Len(w) : w[i] = s.text[s.lines[i]] BY <1>1 DEF Open
<1>10. \A i \in 1..Len(w) : w[i].no = s.made - n + i BY <1>1, <1>8, <1>9 DEF Open, Good
<1> QED BY <1>1, <1>2, <1>3, <1>4, <1>5, <1>7, <1>9, <1>10 DEF w

LEMMA OneOrdered ==
  ASSUME TypeInv, NEW c, Conns = {c}, OneInv(c)
  PROVE  OutputInOrder
<1>1. c \in Conns /\ \A d \in Conns : d = c OBVIOUS
<1> DEFINE w == wire[c]
           last(i) == IF i = 1 THEN seen[c] ELSE w[i - 1].no
<1>2. ASSUME NEW i \in DOMAIN w
      PROVE  w[i].no > last(i) /\ (~crowded => w[i].no = last(i) + 1)
  <2> DEFINE n == Len(s.lines)  m == s.made  k == Len(w)  z == seen[c]
  <2>1. w # <<>>
    <3>1. DOMAIN <<>> = 1..0 OBVIOUS
    <3>2. w = <<>> => DOMAIN w = {} BY <3>1
    <3> QED BY <1>2, <3>2
  <2>2. /\ Open(s, w, z) /\ (~crowded => Exact(s, w, z))
        /\ k \in Nat /\ DOMAIN w = 1..k /\ n \in Nat /\ m \in Nat /\ z \in Nat
        /\ \A j \in 1..k : w[j].no = m - n + j
    BY <1>1, <2>1, InFlight
  <2>3. z + n <= m /\ (~crowded => z + n = m) BY <2>2 DEF Open, Exact
  <2>4. i \in 1..k /\ w[i].no = m - n + i BY <1>2, <2>2
  <2>5. i # 1 => i - 1 \in 1..k /\ w[i - 1].no = m - n + (i - 1)
    <3> HIDE DEF n, m, k, z, w
    <3>1. i # 1 => i - 1 \in 1..k BY <2>2, <2>4
    <3> QED BY <2>2, <3>1
  <2> HIDE DEF n, m, k, z
  <2>6. CASE i = 1
    <3>1. last(i) = z BY <2>6 DEF z
    <3> HIDE DEF last, w
    <3>2. w[i].no = m - n + 1 BY <2>4, <2>6
    <3>3. m - n + 1 > z /\ (z + n = m => m - n + 1 = z + 1) BY <2>2, <2>3
    <3> QED BY <2>3, <3>1, <3>2, <3>3
  <2>7. CASE i # 1
    <3>1. last(i) = w[i - 1].no BY <2>7
    <3> HIDE DEF last, w
    <3>2. i \in Nat /\ m - n + i > m - n + (i - 1) /\ m - n + i = (m - n + (i - 1)) + 1
      BY <2>2, <2>4
    <3> QED BY <2>4, <2>5, <2>7, <3>1, <3>2
  <2> QED BY <2>6, <2>7
<1> QED BY <1>1, <1>2 DEF OutputInOrder

LEMMA OneRetransmits ==
  ASSUME TypeInv, NEW c, Conns = {c}, OneInv(c)
  PROVE  RetransmitsSame
<1>1. c \in Conns /\ \A d \in Conns : d = c OBVIOUS
<1> SUFFICES ASSUME wire[c] # <<>> PROVE IsPrefix(wire[c], Handed(s))
  BY <1>1 DEF RetransmitsSame
<1> DEFINE w == wire[c]  h == Handed(s)  k == Len(w)
<1>2. /\ w \in Seq(Lines) /\ k \in Nat /\ k <= s.numsent /\ s.numsent \in 0..Len(s.lines)
      /\ Len(s.lines) \in Nat /\ s \in ServerRecs
      /\ \A i \in 1..k : w[i] = s.text[s.lines[i]]
  BY <1>1, InFlight
<1>3. /\ h \in Seq(Lines) /\ Len(h) = s.numsent
      /\ \A i \in 1..s.numsent : h[i] = s.text[s.lines[i]]
  BY <1>2, HandedIs
<1>4. k <= Len(h) /\ \A i \in 1..k : w[i] = h[i] BY <1>2, <1>3
<1> HIDE DEF w, h
<1>5. SubSeq(w, 1, k) = [i \in 1..k |-> w[i]] /\ SubSeq(h, 1, k) = [i \in 1..k |-> h[i]]
  <2>1. \A r : SubSeq(r, 1, k) = [i \in 1..(1 + k - 1) |-> r[i + 1 - 1]] BY <1>2
  <2>2. 1 + k - 1 = k /\ \A i \in 1..k : i + 1 - 1 = i BY <1>2
  <2> QED BY <2>1, <2>2
<1>6. SubSeq(w, 1, k) = SubSeq(h, 1, k) BY <1>4, <1>5
<1>7. IsPrefix(w, h) BY <1>4, <1>6 DEF IsPrefix
<1> QED BY <1>7 DEF w, h

(* Lines reach the other side in the order in which they were queued, none *)
(* twice, and none is left out unless something was typed while lines were *)
(* in flight (senddata and acked, telnetd.c): for any size of the queue,   *)
(* of the lines and of the segments, and any answers of the shell, with    *)
(* one connection.                                                         *)
THEOREM OutputOrdered ==
  ASSUME Scripted, NEW CONSTANT c, Conns = {c}
  PROVE  Spec => []OutputInOrder
<1>1. TypeInv /\ OneInv(c) => OutputInOrder BY OneOrdered
<1> QED BY <1>1, OneInvariance, PTL

(* What senddata (telnetd.c) hands over for a retransmission begins with   *)
(* what is in flight, with one connection.                                 *)
THEOREM RetransmissionSame ==
  ASSUME Scripted, NEW CONSTANT c, Conns = {c}
  PROVE  Spec => []RetransmitsSame
<1>1. TypeInv /\ OneInv(c) => RetransmitsSame BY OneRetransmits
<1> QED BY <1>1, OneInvariance, PTL

(* As long as nobody typed exit, the pool is whole when nobody is          *)
(* connected: closed and acked (telnetd.c) give every line back, with one  *)
(* connection.                                                             *)
THEOREM MemoryIsReturned ==
  ASSUME Scripted, NEW CONSTANT c, Conns = {c}
  PROVE  Spec => []MemoryReturned
<1>1. TypeInv /\ OneInv(c) => MemoryReturned
  <2> SUFFICES ASSUME OneInv(c), phase[c] = "absent", quitter = NoConn
               PROVE  Unused(s.count) = Blocks
    BY DEF MemoryReturned
  <2>1. Free(s) BY DEF OneInv, Returned
  <2> QED BY <2>1 DEF Free, Unused
<1> QED BY <1>1, OneInvariance, PTL

(***************************************************************************)
(* What was typed.  Commands reads a whole stream with recursive functions *)
(* over its places, from the end: what they give at a place is fixed by    *)
(* induction down from the end (Descends).                                 *)
(***************************************************************************)
Texts == Seq(STRING)

(* The text of a stream from place i on.                                   *)
TextAt(stream, from, i) ==
  IF i > Len(stream) THEN <<>>
  ELSE IF stream[i] = "cr" THEN from[i + 1]
  ELSE IF stream[i] # "IAC" THEN <<stream[i]>> \o from[i + 1]
  ELSE IF i = Len(stream) THEN <<>>
  ELSE CASE stream[i + 1] = "IAC"      -> <<"IAC">> \o from[i + 2]
         [] stream[i + 1] \in Options -> from[i + 3]
         [] OTHER                     -> from[i + 2]

LEMMA OneToken ==
  ASSUME NEW c \in STRING PROVE <<c>> \in Seq(STRING)
<1>1. <<>> \in Seq(STRING) BY EmptySeq
<1>2. Append(<<>>, c) \in Seq(STRING) BY <1>1, AppendProperties
<1>3. Append(<<>>, c) = <<c>> OBVIOUS
<1> QED BY <1>2, <1>3

LEMMA TextAtIs ==
  ASSUME NEW q \in Texts, NEW i \in 1..(Len(q) + 3), NEW f,
         \A j \in (i + 1)..(Len(q) + 3) : f[j] \in Texts
  PROVE  TextAt(q, f, i) \in Texts
<1>0. Len(q) \in Nat /\ \A j \in 1..Len(q) : q[j] \in STRING BY LenProperties, ElementOfSeq DEF Texts
<1>1. CASE i > Len(q) BY <1>1, EmptySeq DEF TextAt, Texts
<1>2. CASE i <= Len(q)
  <2>1. q[i] \in STRING /\ f[i + 1] \in Texts /\ f[i + 2] \in Texts /\ f[i + 3] \in Texts
    BY <1>0, <1>2
  <2>2. /\ <<>> \in Texts /\ <<q[i]>> \o f[i + 1] \in Texts
        /\ q[i] = "IAC" => <<"IAC">> \o f[i + 2] \in Texts
    <3>1. <<q[i]>> \in Texts /\ (q[i] = "IAC" => <<"IAC">> \in Texts)
      BY <2>1, OneToken DEF Texts
    <3> QED BY <2>1, <3>1, EmptySeq, ConcatProperties DEF Texts
  <2> QED BY <1>0, <1>2, <2>1, <2>2 DEF TextAt
<1> QED BY <1>0, <1>1, <1>2

LEMMA TextIs ==
  ASSUME NEW q \in Texts
  PROVE  \E f \in [1..(Len(q) + 3) -> Texts] :
           f[1] = Text(q) /\ \A i \in 1..(Len(q) + 3) : f[i] = TextAt(q, f, i)
<1> DEFINE n == Len(q) + 3
           Is(f) == f = [i \in 1..n |-> TextAt(q, f, i)]
           from == CHOOSE f : Is(f)
           H == [i \in 1..n |-> [f \in [1..n -> Texts] |-> TextAt(q, f, i)]]
<1>0. n \in Nat /\ Len(q) \in Nat BY LenProperties DEF Texts
<1>1. ASSUME NEW i \in 1..n, NEW f \in [1..n -> Texts] PROVE TextAt(q, f, i) \in Texts
  <2>1. \A j \in (i + 1)..n : f[j] \in Texts BY <1>0
  <2> HIDE DEF Texts
  <2> QED BY <2>1, TextAtIs
<1>2. H \in [1..n -> [[1..n -> Texts] -> Texts]] BY <1>1
<1>3. DependsAbove(n, Texts, H)
  <2> SUFFICES ASSUME NEW i \in 1..n, NEW f \in [1..n -> Texts], NEW g \in [1..n -> Texts],
                      \A j \in (i + 1)..n : f[j] = g[j]
               PROVE  TextAt(q, f, i) = TextAt(q, g, i)
    BY DEF DependsAbove
  <2>1. i <= Len(q) => f[i + 1] = g[i + 1] /\ f[i + 2] = g[i + 2] /\ f[i + 3] = g[i + 3] BY <1>0
  <2> QED BY <1>0, <2>1 DEF TextAt
<1>4. Texts # {} BY EmptySeq DEF Texts
<1>5. \E f : Descends(f, n, Texts, H)
  <2> HIDE DEF H, n
  <2> QED BY <1>0, <1>2, <1>3, <1>4, DownExists
<1>6. \E f : Is(f)
  <2>1. PICK f : Descends(f, n, Texts, H) BY <1>5
  <2>2. f \in [1..n -> Texts] /\ \A i \in 1..n : f[i] = TextAt(q, f, i) BY <2>1 DEF Descends
  <2>3. f = [i \in 1..n |-> f[i]] BY <2>2
  <2>4. Is(f) BY <2>2, <2>3
  <2> HIDE DEF Is
  <2> QED BY <2>4
<1>7. Is(from)
  <2> HIDE DEF Is
  <2> QED BY <1>6
<1>8. Text(q) = from[1] BY DEF Text, TextAt
<1> HIDE DEF from
<1>9. \A i \in 1..n : from[i] = TextAt(q, from, i) BY <1>7
<1>10. \A i \in 1..n : from[i] \in Texts
  <2> DEFINE S == {i \in 1..n : from[i] \in Texts}
  <2>1. ASSUME NEW i \in 1..n, \A j \in (i + 1)..n : j \in S PROVE i \in S
    <3>1. \A j \in (i + 1)..n : from[j] \in Texts BY <2>1
    <3>2. TextAt(q, from, i) \in Texts BY <3>1, TextAtIs
    <3> QED BY <1>9, <3>2
  <2> HIDE DEF S, n
  <2>2. \A i \in 1..n : i \in S BY <1>0, <2>1, DownFrom
  <2> QED BY <2>2 DEF S
<1>11. from \in [1..n -> Texts]
  <2>1. from = [i \in 1..n |-> TextAt(q, from, i)] BY <1>7
  <2> HIDE DEF n
  <2> QED BY <1>9, <1>10, <2>1
<1> QED BY <1>8, <1>9, <1>11

(* The commands of a text from place i on.                                 *)
Ends(text, i) == {j \in i..Len(text) : text[j] = "nl" \/ j = i + LINELEN - 1}
Command(text, i, end) == SubSeq(text, i, IF end = i THEN i ELSE end - 1)
CutAt(text, from, i) ==
  IF Ends(text, i) = {} THEN <<>>
  ELSE <<Command(text, i, Min(Ends(text, i)))>> \o from[Min(Ends(text, i)) + 1]

(* What the shell is given: a list of commands.                            *)
Lists == Seq(Texts)

LEMMA EndIs ==
  ASSUME NEW text \in Texts, NEW i \in 1..(Len(text) + 1), Ends(text, i) # {}
  PROVE  Min(Ends(text, i)) \in i..Len(text)
<1>0. Len(text) \in Nat BY LenProperties DEF Texts
<1>1. Ends(text, i) \in SUBSET Nat BY <1>0 DEF Ends
<1>2. Min(Ends(text, i)) \in Ends(text, i) BY <1>1, MinIs
<1> QED BY <1>2 DEF Ends

LEMMA CommandIs ==
  ASSUME NEW text \in Texts, NEW i \in 1..Len(text), NEW end \in i..Len(text)
  PROVE  Command(text, i, end) \in Texts
<1> DEFINE m == IF end = i THEN i ELSE end - 1
<1>0. Len(text) \in Nat /\ \A j \in 1..Len(text) : text[j] \in STRING
  BY LenProperties, ElementOfSeq DEF Texts
<1>1. i \in Int /\ m \in Int /\ \A j \in i..m : j \in 1..Len(text) BY <1>0
<1> HIDE DEF m
<1>2. SubSeq(text, i, m) \in Seq(STRING) BY <1>0, <1>1, SubSeqProperties
<1> QED BY <1>2 DEF Command, Texts, m

LEMMA CutAtIs ==
  ASSUME NEW text \in Texts, NEW i \in 1..(Len(text) + 1), NEW f,
         \A j \in (i + 1)..(Len(text) + 1) : f[j] \in Lists
  PROVE  CutAt(text, f, i) \in Lists
<1>0. Len(text) \in Nat BY LenProperties DEF Texts
<1>1. CASE Ends(text, i) = {} BY <1>1, EmptySeq DEF CutAt, Lists
<1>2. CASE Ends(text, i) # {}
  <2> DEFINE end == Min(Ends(text, i))
  <2>1. end \in i..Len(text) BY <1>2, EndIs
  <2>2. CutAt(text, f, i) = <<Command(text, i, end)>> \o f[end + 1] BY <1>2 DEF CutAt
  <2> HIDE DEF end
  <2>3. i \in 1..Len(text) /\ end + 1 \in (i + 1)..(Len(text) + 1) BY <1>0, <2>1
  <2>4. Command(text, i, end) \in Texts /\ f[end + 1] \in Lists BY <2>1, <2>3, CommandIs
  <2>5. <<Command(text, i, end)>> \in Lists
    <3> DEFINE x == Command(text, i, end)
    <3>1. <<>> \in Lists BY EmptySeq DEF Lists
    <3>2. x \in Texts BY <2>4
    <3> HIDE DEF x
    <3>3. Append(<<>>, x) \in Lists BY <3>1, <3>2, AppendProperties DEF Lists
    <3>4. Append(<<>>, x) = <<x>> OBVIOUS
    <3> QED BY <3>3, <3>4 DEF x
  <2> QED BY <2>2, <2>4, <2>5, ConcatProperties DEF Lists
<1> QED BY <1>1, <1>2

LEMMA CutIs ==
  ASSUME NEW text \in Texts
  PROVE  \E f \in [1..(Len(text) + 1) -> Lists] :
           f[1] = Cut(text) /\ \A i \in 1..(Len(text) + 1) : f[i] = CutAt(text, f, i)
<1> DEFINE n == Len(text) + 1
           Is(f) == f = [i \in 1..n |-> CutAt(text, f, i)]
           from == CHOOSE f : Is(f)
           H == [i \in 1..n |-> [f \in [1..n -> Lists] |-> CutAt(text, f, i)]]
<1>0. n \in Nat /\ Len(text) \in Nat BY LenProperties DEF Texts
<1>1. ASSUME NEW i \in 1..n, NEW f \in [1..n -> Lists] PROVE CutAt(text, f, i) \in Lists
  <2>1. \A j \in (i + 1)..n : f[j] \in Lists BY <1>0
  <2> QED BY <2>1, CutAtIs
<1>2. H \in [1..n -> [[1..n -> Lists] -> Lists]] BY <1>1
<1>3. DependsAbove(n, Lists, H)
  <2> SUFFICES ASSUME NEW i \in 1..n, NEW f \in [1..n -> Lists], NEW g \in [1..n -> Lists],
                      \A j \in (i + 1)..n : f[j] = g[j]
               PROVE  CutAt(text, f, i) = CutAt(text, g, i)
    BY DEF DependsAbove
  <2>1. ASSUME Ends(text, i) # {}
        PROVE  f[Min(Ends(text, i)) + 1] = g[Min(Ends(text, i)) + 1]
    <3>1. Min(Ends(text, i)) \in i..Len(text) BY <2>1, EndIs
    <3>2. Min(Ends(text, i)) + 1 \in (i + 1)..n BY <1>0, <3>1
    <3> QED BY <3>2
  <2> QED BY <2>1 DEF CutAt
<1>4. Lists # {} BY EmptySeq DEF Lists
<1>5. \E f : Descends(f, n, Lists, H)
  <2> HIDE DEF H, n
  <2> QED BY <1>0, <1>2, <1>3, <1>4, DownExists
<1>6. \E f : Is(f)
  <2>1. PICK f : Descends(f, n, Lists, H) BY <1>5
  <2>2. f \in [1..n -> Lists] /\ \A i \in 1..n : f[i] = CutAt(text, f, i) BY <2>1 DEF Descends
  <2>3. f = [i \in 1..n |-> f[i]] BY <2>2
  <2>4. Is(f) BY <2>2, <2>3
  <2> HIDE DEF Is
  <2> QED BY <2>4
<1>7. Is(from)
  <2> HIDE DEF Is
  <2> QED BY <1>6
<1>8. Cut(text) = from[1] BY DEF Cut, CutAt, Ends, Command
<1> HIDE DEF from
<1>9. \A i \in 1..n : from[i] = CutAt(text, from, i) BY <1>7
<1>10. \A i \in 1..n : from[i] \in Lists
  <2> DEFINE S == {i \in 1..n : from[i] \in Lists}
  <2>1. ASSUME NEW i \in 1..n, \A j \in (i + 1)..n : j \in S PROVE i \in S
    <3>1. \A j \in (i + 1)..n : from[j] \in Lists BY <2>1
    <3>2. CutAt(text, from, i) \in Lists BY <3>1, CutAtIs
    <3> QED BY <1>9, <3>2
  <2> HIDE DEF S, n
  <2>2. \A i \in 1..n : i \in S BY <1>0, <2>1, DownFrom
  <2> QED BY <2>2 DEF S
<1>11. from \in [1..n -> Lists]
  <2>1. from = [i \in 1..n |-> CutAt(text, from, i)] BY <1>7
  <2> HIDE DEF n
  <2> QED BY <1>9, <1>10, <2>1
<1> QED BY <1>8, <1>9, <1>11

(***************************************************************************)
(* A reader of the stream that has no queue and never stops: what it has   *)
(* read of a negotiation, the command begun and the commands finished.     *)
(***************************************************************************)
Modes   == {"NORMAL", "IAC"} \cup Options
Readers == [mode : Modes, buf : Buffers, cmds : Lists]
Fresh   == [mode |-> "NORMAL", buf |-> <<>>, cmds |-> <<>>]

(* One character of text, after the command begun: whether it ends it, the *)
(* command begun then, and the commands finished then (get_char).          *)
Ended(buf, c) == c # "cr" /\ (c = "nl" \/ Len(buf) >= LINELEN - 1)
Took(buf, c) ==
  IF c = "cr" THEN buf ELSE IF Ended(buf, c) THEN <<>> ELSE Append(buf, c)
Gave(buf, cmds, c) ==
  IF Ended(buf, c) THEN Append(cmds, IF buf = <<>> THEN <<c>> ELSE buf) ELSE cmds

(* Whether a character that arrives is text, or part of a negotiation      *)
(* (newdata).                                                              *)
IsText(mode, c) == (mode = "NORMAL" /\ c # "IAC") \/ (mode = "IAC" /\ c = "IAC")
NextMode(mode, c) ==
  IF mode = "NORMAL" /\ c = "IAC" THEN "IAC"
  ELSE IF mode = "IAC" /\ c \in Options THEN c ELSE "NORMAL"
Read(a, c) ==
  [mode |-> NextMode(a.mode, c),
   buf  |-> IF IsText(a.mode, c) THEN Took(a.buf, c) ELSE a.buf,
   cmds |-> IF IsText(a.mode, c) THEN Gave(a.buf, a.cmds, c) ELSE a.cmds]

(* g is what the reader goes through from a, as it reads q.                *)
Reading(g, a, q) ==
  /\ g \in [0..Len(q) -> Readers] /\ g[0] = a
  /\ \A k \in 1..Len(q) : g[k] = Read(g[k - 1], q[k])

LEMMA TookIs ==
  ASSUME NEW buf \in Buffers, NEW cmds \in Lists, NEW c \in STRING
  PROVE  /\ Took(buf, c) \in Buffers /\ Gave(buf, cmds, c) \in Lists
         /\ Ended(buf, c) => /\ Took(buf, c) = <<>>
                             /\ Gave(buf, cmds, c) = Append(cmds, IF buf = <<>> THEN <<c>> ELSE buf)
                             /\ (IF buf = <<>> THEN <<c>> ELSE buf) \in Texts
<1>0. buf \in Seq(STRING) /\ Len(buf) \in Nat /\ LINELEN \in Nat /\ LINELEN > 0
  BY LenProperties, QueueAssumption DEF Buffers
<1>1. <<>> \in Buffers BY <1>0, EmptySeq DEF Buffers
<1>2. CASE Ended(buf, c)
  <2> DEFINE x == IF buf = <<>> THEN <<c>> ELSE buf
  <2>1. x \in Texts BY <1>0, OneToken DEF Texts
  <2>2. Took(buf, c) = <<>> /\ Gave(buf, cmds, c) = Append(cmds, x)
    BY <1>2 DEF Took, Gave, Ended
  <2> HIDE DEF x
  <2>3. Append(cmds, x) \in Lists BY <2>1, AppendProperties DEF Lists
  <2> QED BY <1>1, <2>1, <2>2, <2>3 DEF x
<1>3. CASE ~Ended(buf, c)
  <2>1. Append(buf, c) \in Seq(STRING) /\ Len(Append(buf, c)) = Len(buf) + 1
    BY <1>0, AppendProperties
  <2>2. c # "cr" => Append(buf, c) \in Buffers BY <1>0, <1>3, <2>1 DEF Ended, Buffers
  <2> QED BY <1>3, <2>2 DEF Took, Gave
<1> QED BY <1>2, <1>3

LEMMA ReadIs ==
  ASSUME NEW a \in Readers, NEW c \in STRING
  PROVE  Read(a, c) \in Readers
<1>1. a.mode \in Modes /\ a.buf \in Buffers /\ a.cmds \in Lists BY DEF Readers
<1>2. NextMode(a.mode, c) \in Modes BY DEF NextMode, Modes
<1> QED BY <1>1, <1>2, TookIs DEF Read, Readers

LEMMA FreshIs == Fresh \in Readers
BY EmptySeq, QueueAssumption DEF Fresh, Readers, Modes, Buffers, Lists

(* How far a text has been read: its first p tokens, of which the last are *)
(* those of the command begun, and the commands before it are finished.    *)
ReadTo(text, h, buf, cmds, p) ==
  /\ Len(buf) <= p /\ p <= Len(text)
  /\ \A i \in 1..Len(buf) : text[p - Len(buf) + i] = buf[i] /\ buf[i] # "nl"
  /\ h[1] = cmds \o h[p - Len(buf) + 1]

(* h gives the commands of a text from every place on.                     *)
IsCut(text, h) ==
  /\ h \in [1..(Len(text) + 1) -> Lists] /\ h[1] = Cut(text)
  /\ \A i \in 1..(Len(text) + 1) : h[i] = CutAt(text, h, i)

LEMMA TokenEnds ==
  ASSUME NEW text \in Texts, NEW h, IsCut(text, h),
         NEW buf \in Buffers, NEW cmds \in Lists, NEW p \in Nat, ReadTo(text, h, buf, cmds, p),
         p < Len(text), Ended(buf, text[p + 1])
  PROVE  h[1] = Gave(buf, cmds, text[p + 1]) \o h[p + 2]
<1> DEFINE n == Len(text)  l == Len(buf)  i == p - l + 1  c == text[p + 1]
           x == IF buf = <<>> THEN <<c>> ELSE buf
<1>0. /\ n \in Nat /\ l \in Nat /\ LINELEN \in Nat /\ l < LINELEN /\ l <= p /\ p < n
      /\ \A j \in 1..n : text[j] \in STRING
      /\ buf \in Texts
  BY LenProperties, ElementOfSeq, QueueAssumption DEF Texts, Buffers, ReadTo
<1>1. \A j \in 1..l : text[p - l + j] = buf[j] /\ buf[j] # "nl" BY DEF ReadTo
<1>2. h[1] = cmds \o h[i] BY DEF ReadTo
<1>3. c \in STRING /\ Ended(buf, c) BY <1>0
<1>4. h[i] = CutAt(text, h, i) /\ h[p + 2] \in Lists /\ i \in 1..n BY <1>0 DEF IsCut
<1> HIDE DEF n, l, c
<1>5. p + 1 \in Ends(text, i)
  <2>1. p + 1 \in i..n BY <1>0
  <2>2. c = "nl" \/ p + 1 = i + LINELEN - 1 BY <1>0, <1>3 DEF Ended, l
  <2> QED BY <2>1, <2>2 DEF Ends, n, c
<1>6. ASSUME NEW j \in Ends(text, i) PROVE p + 1 <= j
  <2>1. j \in i..n /\ (text[j] = "nl" \/ j = i + LINELEN - 1) BY DEF Ends, n
  <2>2. j \in Int /\ i \in Int /\ p \in Int /\ i <= j BY <1>0, <2>1
  <2> SUFFICES ASSUME j <= p PROVE FALSE BY <2>2
  <2>3. j - (p - l) \in 1..l /\ p - l + (j - (p - l)) = j BY <1>0, <2>2
  <2>4. text[j] # "nl" BY <1>1, <2>3
  <2>5. j # i + LINELEN - 1 BY <1>0, <2>2
  <2> QED BY <2>1, <2>4, <2>5
<1>7. Min(Ends(text, i)) = p + 1
  <2>1. Ends(text, i) \in SUBSET Nat BY <1>4 DEF Ends
  <2>2. Min(Ends(text, i)) \in Ends(text, i) /\ Min(Ends(text, i)) <= p + 1 BY <1>5, <2>1, MinIs
  <2>3. p + 1 <= Min(Ends(text, i)) /\ Min(Ends(text, i)) \in Nat BY <1>6, <2>1, <2>2
  <2> QED BY <2>2, <2>3
<1>8. CutAt(text, h, i) = <<Command(text, i, p + 1)>> \o h[p + 2]
  <2>1. Ends(text, i) # {} /\ (p + 1) + 1 = p + 2 BY <1>5
  <2> HIDE DEF i
  <2> QED BY <1>7, <2>1 DEF CutAt
<1>9. Command(text, i, p + 1) = x
  <2> DEFINE m == IF p + 1 = i THEN i ELSE p
             y == SubSeq(text, i, m)
  <2>1. i \in Int /\ m \in Int /\ (\A j \in i..m : j \in 1..n) /\ p + 1 - 1 = p BY <1>0, <1>4
  <2>2. Command(text, i, p + 1) = y BY <2>1 DEF Command
  <2> HIDE DEF m
  <2>3. /\ y \in Seq(STRING) /\ Len(y) = IF i <= m THEN m - i + 1 ELSE 0
        /\ \A j \in 1..(m - i + 1) : y[j] = text[i + j - 1]
    BY <1>0, <2>1, SubSeqProperties
  <2> HIDE DEF y
  <2>4. CASE buf = <<>>
    <3>1. l = 0 /\ x = <<c>> BY <2>4, EmptySeq DEF l
    <3>2. i = p + 1 /\ m = p + 1 BY <1>0, <3>1 DEF m
    <3>3. Len(y) = 1 /\ y[1] = c BY <1>0, <2>3, <3>2 DEF c
    <3>4. <<c>> \in Seq(STRING) BY <1>3, OneToken
    <3>5. y = <<c>>
      <4>1. Len(<<c>>) = 1 /\ <<c>>[1] = c OBVIOUS
      <4>2. Len(y) = Len(<<c>>) /\ \A j \in 1..Len(y) : y[j] = <<c>>[j] BY <3>3, <4>1
      <4> QED BY <2>3, <3>4, <4>2, SeqEqual
    <3> QED BY <2>2, <3>1, <3>5
  <2>5. CASE buf # <<>>
    <3>1. l > 0 /\ x = buf BY <1>0, <2>5, EmptySeq DEF Texts, l
    <3>2. i # p + 1 /\ m = p BY <1>0, <3>1 DEF m
    <3>3. Len(y) = l BY <1>0, <2>3, <3>1, <3>2
    <3>4. \A j \in 1..l : y[j] = buf[j]
      <4> TAKE j \in 1..l
      <4>1. j \in 1..(m - i + 1) /\ i + j - 1 = p - l + j BY <1>0, <3>2
      <4>2. y[j] = text[p - l + j] BY <2>3, <4>1
      <4> QED BY <1>1, <4>2
    <3>5. y = buf
      <4>1. Len(y) = Len(buf) /\ \A j \in 1..Len(y) : y[j] = buf[j] BY <3>3, <3>4 DEF l
      <4>2. buf \in Seq(STRING) BY DEF Buffers
      <4> QED BY <2>3, <4>1, <4>2, SeqEqual
    <3> QED BY <2>2, <3>1, <3>5
  <2> QED BY <2>4, <2>5
<1>10. Gave(buf, cmds, c) = Append(cmds, x) /\ x \in Texts BY <1>3, TookIs
<1> HIDE DEF x, i
<1>11. Append(cmds, x) = cmds \o <<x>> BY <1>10, AppendIsConcat DEF Lists
<1>12. <<x>> \in Lists
  <2>1. <<>> \in Lists BY EmptySeq DEF Lists
  <2>2. Append(<<>>, x) \in Lists BY <1>10, <2>1, AppendProperties DEF Lists
  <2>3. Append(<<>>, x) = <<x>> OBVIOUS
  <2> QED BY <2>2, <2>3
<1>13. (cmds \o <<x>>) \o h[p + 2] = cmds \o (<<x>> \o h[p + 2])
  <2> DEFINE r == h[p + 2]
  <2>1. r \in Lists BY <1>4
  <2> HIDE DEF r
  <2>2. (cmds \o <<x>>) \o r = cmds \o (<<x>> \o r) BY <1>12, <2>1, ConcatAssociative DEF Lists
  <2> QED BY <2>2 DEF r
<1>14. h[1] = cmds \o (<<x>> \o h[p + 2]) BY <1>2, <1>4, <1>8, <1>9
<1> QED BY <1>10, <1>11, <1>13, <1>14 DEF c
LEMMA TokenRead ==
  ASSUME NEW text \in Texts, NEW h, IsCut(text, h),
         NEW buf \in Buffers, NEW cmds \in Lists, NEW p \in Nat, ReadTo(text, h, buf, cmds, p),
         p < Len(text), text[p + 1] # "cr"
  PROVE  ReadTo(text, h, Took(buf, text[p + 1]), Gave(buf, cmds, text[p + 1]), p + 1)
<1> DEFINE c == text[p + 1]  l == Len(buf)
<1>0. /\ Len(text) \in Nat /\ c \in STRING /\ l \in Nat /\ buf \in Seq(STRING) /\ l <= p
  BY LenProperties, ElementOfSeq DEF Texts, Buffers, ReadTo
<1>1. \A i \in 1..l : text[p - l + i] = buf[i] /\ buf[i] # "nl" BY DEF ReadTo
<1>2. h[1] = cmds \o h[p - l + 1] BY DEF ReadTo
<1> HIDE DEF c, l
<1>3. CASE Ended(buf, c)
  <2>1. Took(buf, c) = <<>> BY <1>0, <1>3, TookIs
  <2>2. h[1] = Gave(buf, cmds, c) \o h[p + 2] BY <1>3, TokenEnds DEF c
  <2> DEFINE b == Took(buf, c)  d == Gave(buf, cmds, c)
  <2>3. Len(b) = 0 BY <2>1, EmptySeq
  <2>4. p + 1 - 0 + 1 = p + 2 /\ p + 1 <= Len(text) /\ 0 <= p + 1 BY <1>0
  <2>5. h[1] = d \o h[p + 1 - Len(b) + 1] BY <2>2, <2>3, <2>4 DEF c
  <2> HIDE DEF b, d
  <2>6. \A i \in 1..Len(b) : FALSE BY <2>3
  <2>7. ReadTo(text, h, b, d, p + 1) BY <2>3, <2>4, <2>5, <2>6 DEF ReadTo
  <2> QED BY <2>7 DEF b, d, c
<1>4. CASE ~Ended(buf, c)
  <2> DEFINE b == Append(buf, c)
  <2>1. c # "nl" BY <1>4 DEF Ended, c
  <2>2. Took(buf, c) = b /\ Gave(buf, cmds, c) = cmds BY <1>4 DEF Took, Gave, c
  <2>3. Len(b) = l + 1 /\ (\A i \in 1..l : b[i] = buf[i]) /\ b[l + 1] = c
    BY <1>0, AppendProperties DEF l
  <2> HIDE DEF b
  <2>4. ASSUME NEW i \in 1..(l + 1)
        PROVE  text[p + 1 - (l + 1) + i] = b[i] /\ b[i] # "nl"
    <3>1. CASE i = l + 1
      <4>1. p + 1 - (l + 1) + i = p + 1 BY <1>0, <3>1
      <4> QED BY <2>1, <2>3, <3>1, <4>1 DEF c
    <3>2. CASE i # l + 1
      <4>1. p + 1 - (l + 1) + i = p - l + i /\ i \in 1..l BY <1>0, <3>2
      <4> QED BY <1>1, <2>3, <4>1
    <3> QED BY <3>1, <3>2
  <2>5. p + 1 - (l + 1) + 1 = p - l + 1 /\ l + 1 <= p + 1 /\ p + 1 <= Len(text) BY <1>0
  <2>6. h[1] = cmds \o h[p + 1 - Len(b) + 1] BY <1>2, <2>3, <2>5
  <2>7. \A i \in 1..Len(b) : text[p + 1 - Len(b) + i] = b[i] /\ b[i] # "nl" BY <2>3, <2>4
  <2>8. Len(b) <= p + 1 /\ p + 1 <= Len(text) BY <2>3, <2>5
  <2>9. ReadTo(text, h, b, cmds, p + 1) BY <2>6, <2>7, <2>8 DEF ReadTo
  <2> QED BY <2>2, <2>9 DEF c
<1> QED BY <1>3, <1>4 DEF c

(* The place of the stream from which the rest of the text is read.        *)
Place(mode, k) ==
  IF mode = "NORMAL" THEN k + 1 ELSE IF mode = "IAC" THEN k ELSE k - 1

(* What has been read of a negotiation at place k.                         *)
Begun(q, mode, k) ==
  /\ mode = "IAC" => k >= 1 /\ q[k] = "IAC"
  /\ mode \in Options => k >= 2 /\ q[k - 1] = "IAC" /\ q[k] = mode

(* The rest of the text is what follows its first p tokens.                *)
Rest(text, rest, p) ==
  p + Len(rest) = Len(text) /\ \A i \in 1..Len(rest) : text[p + i] = rest[i]

(* The reader in state a at place k is at the same place of the text.      *)
InStep(q, f, text, h, a, k) ==
  /\ Begun(q, a.mode, k)
  /\ \E p \in Nat : Rest(text, f[Place(a.mode, k)], p) /\ ReadTo(text, h, a.buf, a.cmds, p)

(* f gives the text of a stream from every place on.                       *)
IsTextOf(q, f) ==
  /\ f \in [1..(Len(q) + 3) -> Texts] /\ f[1] = Text(q)
  /\ \A i \in 1..(Len(q) + 3) : f[i] = TextAt(q, f, i)

LEMMA RestMoves ==
  ASSUME NEW text \in Texts, NEW c \in STRING, NEW r \in Texts, NEW p \in Nat,
         Rest(text, <<c>> \o r, p)
  PROVE  p < Len(text) /\ text[p + 1] = c /\ Rest(text, r, p + 1)
<1> DEFINE w == <<c>> \o r  n == Len(text)  m == Len(r)
<1>1. n \in Nat /\ m \in Nat BY LenProperties DEF Texts
<1>2. <<c>> \in Seq(STRING) /\ Len(<<c>>) = 1 /\ <<c>>[1] = c BY OneToken
<1>3. Len(w) = 1 + m /\ \A i \in 1..(1 + m) : w[i] = IF i <= 1 THEN <<c>>[i] ELSE r[i - 1]
  BY <1>2, ConcatProperties DEF Texts
<1>4. p + Len(w) = n /\ \A i \in 1..Len(w) : text[p + i] = w[i] BY DEF Rest
<1> HIDE DEF w, n, m
<1>5. w[1] = c /\ \A i \in 1..m : i + 1 \in 1..(1 + m) /\ w[i + 1] = r[i]
  <2>0. 1 \in 1..(1 + m) /\ 1 <= 1 BY <1>1
  <2>1. w[1] = c BY <1>2, <1>3, <2>0
  <2>2. ASSUME NEW i \in 1..m PROVE i + 1 \in 1..(1 + m) /\ w[i + 1] = r[i]
    <3>1. i + 1 \in 1..(1 + m) /\ ~(i + 1 <= 1) /\ i + 1 - 1 = i BY <1>1
    <3> QED BY <1>3, <3>1
  <2> QED BY <2>1, <2>2
<1>6. p < n /\ text[p + 1] = c
  <2>1. 1 \in 1..Len(w) /\ p + (1 + m) = n BY <1>1, <1>3, <1>4
  <2>2. text[p + 1] = w[1] BY <1>4, <2>1
  <2>3. p < n BY <1>1, <2>1
  <2> QED BY <1>5, <2>2, <2>3
<1>7. p + 1 + m = n /\ \A i \in 1..m : text[p + 1 + i] = r[i]
  <2>1. p + 1 + m = n BY <1>1, <1>3, <1>4
  <2>2. ASSUME NEW i \in 1..m PROVE text[p + 1 + i] = r[i]
    <3>1. p + (i + 1) = p + 1 + i BY <1>1
    <3> QED BY <1>3, <1>4, <1>5, <3>1
  <2> QED BY <2>1, <2>2
<1> QED BY <1>6, <1>7 DEF Rest, n, m

(* One token of the stream.                                                *)
LEMMA StepsInStep ==
  ASSUME NEW q \in Texts, NEW f, IsTextOf(q, f), NEW h, IsCut(Text(q), h),
         NEW a \in Readers, NEW k \in 1..Len(q), InStep(q, f, Text(q), h, a, k - 1)
  PROVE  InStep(q, f, Text(q), h, Read(a, q[k]), k)
<1> DEFINE text == Text(q)  c == q[k]  n == Len(q)  b == Read(a, c)
<1>0. /\ n \in Nat /\ c \in STRING /\ k \in Nat /\ text \in Texts
      /\ a.mode \in Modes /\ a.buf \in Buffers /\ a.cmds \in Lists
      /\ \A i \in 1..(n + 3) : f[i] \in Texts /\ f[i] = TextAt(q, f, i)
  <2>1. n \in Nat /\ c \in STRING BY LenProperties, ElementOfSeq DEF Texts
  <2>2. 1 \in 1..(n + 3) BY <2>1
  <2> QED BY <2>1, <2>2 DEF IsTextOf, Readers
<1> SUFFICES InStep(q, f, text, h, b, k) OBVIOUS
<1>p. PICK p \in Nat : Rest(text, f[Place(a.mode, k - 1)], p) /\ ReadTo(text, h, a.buf, a.cmds, p)
  BY DEF InStep
<1>b. Begun(q, a.mode, k - 1) BY DEF InStep
<1>d. IsCut(text, h) OBVIOUS
<1>m. b.mode = NextMode(a.mode, c) BY DEF Read
<1>o. \A m \in Options : m \notin {"NORMAL", "IAC", "cr", "nl"} BY DEF Options
(* The token is of the text, which goes on at place k + 1.                 *)
<1>1. ASSUME IsText(a.mode, c), c # "cr", f[Place(a.mode, k - 1)] = <<c>> \o f[k + 1]
      PROVE  InStep(q, f, text, h, b, k)
  <2>1. f[k + 1] \in Texts BY <1>0
  <2> DEFINE r == f[k + 1]
  <2> HIDE DEF r, text, c
  <2>2. r \in Texts /\ Rest(text, <<c>> \o r, p) BY <1>p, <1>1, <2>1 DEF r
  <2>3. p < Len(text) /\ text[p + 1] = c /\ Rest(text, r, p + 1) BY <1>0, <2>2, RestMoves
  <2>4. ReadTo(text, h, Took(a.buf, c), Gave(a.buf, a.cmds, c), p + 1)
    BY <1>0, <1>d, <1>p, <1>1, <2>3, TokenRead
  <2>5. b.buf = Took(a.buf, c) /\ b.cmds = Gave(a.buf, a.cmds, c) BY <1>1 DEF Read
  <2>6. NextMode(a.mode, c) = "NORMAL" BY <1>1, <1>o DEF NextMode, IsText
  <2> HIDE DEF b
  <2>7. Begun(q, b.mode, k) /\ Place(b.mode, k) = k + 1 BY <1>m, <1>o, <2>6 DEF Begun, Place
  <2>8. Rest(text, f[Place(b.mode, k)], p + 1) BY <2>3, <2>7 DEF r
  <2>9. ReadTo(text, h, b.buf, b.cmds, p + 1) /\ p + 1 \in Nat BY <2>4, <2>5
  <2> QED BY <2>7, <2>8, <2>9 DEF InStep
(* The token is not of the text, which goes on where it did.               *)
<1>2. ASSUME b.buf = a.buf, b.cmds = a.cmds, Begun(q, b.mode, k),
             f[Place(a.mode, k - 1)] = f[Place(b.mode, k)]
      PROVE  InStep(q, f, text, h, b, k)
  BY <1>2, <1>p DEF InStep
<1>3. CASE a.mode = "NORMAL"
  <2>1. Place(a.mode, k - 1) = k BY <1>0, <1>3 DEF Place
  <2>2. f[k] = TextAt(q, f, k) /\ ~(k > n) BY <1>0
  <2>3. CASE c = "cr"
    <3>1. f[k] = f[k + 1] BY <2>2, <2>3 DEF TextAt
    <3>2. b.buf = a.buf /\ b.cmds = a.cmds BY <2>3 DEF Read, Took, Gave, Ended
    <3>3. b.mode = "NORMAL" BY <1>3, <1>m, <2>3 DEF NextMode
    <3> HIDE DEF b
    <3>4. Begun(q, b.mode, k) /\ Place(b.mode, k) = k + 1 BY <1>o, <3>3 DEF Begun, Place
    <3> QED BY <1>2, <2>1, <3>1, <3>2, <3>4
  <2>4. CASE c # "cr" /\ c # "IAC"
    <3>1. f[k] = <<c>> \o f[k + 1] BY <2>2, <2>4 DEF TextAt
    <3>2. IsText(a.mode, c) BY <1>3, <2>4 DEF IsText
    <3> QED BY <1>1, <2>1, <2>4, <3>1, <3>2
  <2>5. CASE c = "IAC"
    <3>1. ~IsText(a.mode, c) BY <1>3, <2>5 DEF IsText
    <3>2. b.buf = a.buf /\ b.cmds = a.cmds BY <3>1 DEF Read
    <3>3. b.mode = "IAC" BY <1>3, <1>m, <2>5 DEF NextMode
    <3> HIDE DEF b
    <3>4. Begun(q, b.mode, k) /\ Place(b.mode, k) = k BY <1>o, <2>5, <3>3 DEF Begun, Place
    <3> QED BY <1>2, <2>1, <3>2, <3>4
  <2> QED BY <2>3, <2>4, <2>5
<1>4. CASE a.mode = "IAC"
  <2>1. Place(a.mode, k - 1) = k - 1 BY <1>0, <1>4 DEF Place
  <2>2. k - 1 \in 1..n /\ q[k - 1] = "IAC" /\ k - 1 + 1 = k /\ k - 1 + 2 = k + 1 /\ k - 1 # n
        /\ k - 1 + 3 = k + 2
    BY <1>0, <1>4, <1>b DEF Begun
  <2>3. f[k - 1] = TextAt(q, f, k - 1) BY <1>0, <2>2
  <2>4. f[k - 1] = CASE q[k] = "IAC"     -> <<"IAC">> \o f[k + 1]
                     [] q[k] \in Options -> f[k + 2]
                     [] OTHER            -> f[k + 1]
    <3>1. ~(k - 1 > n) BY <1>0, <2>2
    <3> QED BY <2>2, <2>3, <3>1 DEF TextAt
  <2>5. CASE c = "IAC"
    <3>1. f[k - 1] = <<c>> \o f[k + 1] BY <1>o, <2>4, <2>5
    <3>2. IsText(a.mode, c) BY <1>4, <2>5 DEF IsText
    <3> QED BY <1>1, <2>1, <2>5, <3>1, <3>2
  <2>6. CASE c \in Options
    <3>1. ~IsText(a.mode, c) BY <1>4, <1>o, <2>6 DEF IsText
    <3>2. b.buf = a.buf /\ b.cmds = a.cmds BY <3>1 DEF Read
    <3>3. b.mode = c BY <1>4, <1>m, <2>6 DEF NextMode
    <3> HIDE DEF b
    <3>4. k >= 2 BY <1>0, <2>2
    <3>5. Begun(q, b.mode, k) /\ Place(b.mode, k) = k - 1
      BY <1>o, <2>2, <2>6, <3>3, <3>4 DEF Begun, Place
    <3> QED BY <1>2, <2>1, <3>2, <3>5
  <2>7. CASE c # "IAC" /\ c \notin Options
    <3>1. ~IsText(a.mode, c) BY <1>4, <2>7 DEF IsText
    <3>2. b.buf = a.buf /\ b.cmds = a.cmds BY <3>1 DEF Read
    <3>3. b.mode = "NORMAL" BY <1>4, <1>m, <2>7 DEF NextMode
    <3>4. f[k - 1] = f[k + 1] BY <2>4, <2>7
    <3> HIDE DEF b
    <3>5. Begun(q, b.mode, k) /\ Place(b.mode, k) = k + 1 BY <1>o, <3>3 DEF Begun, Place
    <3> QED BY <1>2, <2>1, <3>2, <3>4, <3>5
  <2> QED BY <2>5, <2>6, <2>7
<1>5. CASE a.mode \in Options
  <2>1. Place(a.mode, k - 1) = k - 2 BY <1>0, <1>5, <1>o DEF Place
  <2>2. /\ k - 2 \in 1..n /\ q[k - 2] = "IAC" /\ q[k - 1] = a.mode /\ k - 2 # n
        /\ k - 2 + 1 = k - 1 /\ k - 2 + 3 = k + 1 /\ ~(k - 2 > n)
    <3>1. k - 1 >= 2 /\ q[k - 1 - 1] = "IAC" /\ q[k - 1] = a.mode BY <1>5, <1>b DEF Begun
    <3> QED BY <1>0, <3>1
  <2>3. f[k - 2] = TextAt(q, f, k - 2) BY <1>0, <2>2
  <2>4. f[k - 2] = f[k + 1] BY <1>5, <1>o, <2>2, <2>3 DEF TextAt
  <2>5. ~IsText(a.mode, c) BY <1>5, <1>o DEF IsText
  <2>6. b.buf = a.buf /\ b.cmds = a.cmds BY <2>5 DEF Read
  <2>7. b.mode = "NORMAL" BY <1>5, <1>m, <1>o DEF NextMode
  <2> HIDE DEF b
  <2>8. Begun(q, b.mode, k) /\ Place(b.mode, k) = k + 1 BY <1>o, <2>7 DEF Begun, Place
  <2> QED BY <1>2, <2>1, <2>4, <2>6, <2>8
<1> QED BY <1>0, <1>3, <1>4, <1>5 DEF Modes

LEMMA StartsInStep ==
  ASSUME NEW q \in Texts, NEW f, IsTextOf(q, f), NEW h, IsCut(Text(q), h)
  PROVE  InStep(q, f, Text(q), h, Fresh, 0)
<1> DEFINE text == Text(q)
<1>1. Fresh.mode = "NORMAL" /\ Fresh.buf = <<>> /\ Fresh.cmds = <<>> BY DEF Fresh
<1>2. f[1] = text /\ text \in Texts
  <2>1. Len(q) \in Nat BY LenProperties DEF Texts
  <2>2. 1 \in 1..(Len(q) + 3) BY <2>1
  <2> QED BY <2>2 DEF IsTextOf
<1>3. h[1] \in Lists /\ Len(text) \in Nat
  <2>1. Len(text) \in Nat BY <1>2, LenProperties DEF Texts
  <2>2. 1 \in 1..(Len(text) + 1) BY <2>1
  <2> QED BY <2>1, <2>2 DEF IsCut
<1> HIDE DEF text
<1>4. Begun(q, "NORMAL", 0) /\ Place("NORMAL", 0) = 1 BY DEF Begun, Place, Options
<1>5. Rest(text, text, 0)
  <2>1. 0 + Len(text) = Len(text) /\ \A i \in 1..Len(text) : 0 + i = i BY <1>3
  <2> QED BY <2>1 DEF Rest
<1>6. ReadTo(text, h, <<>>, <<>>, 0)
  <2>1. h[1] = <<>> \o h[1] BY <1>3, ConcatEmptySeq DEF Lists
  <2>2. Len(<<>>) = 0 BY EmptySeq
  <2> QED BY <1>3, <2>1, <2>2 DEF ReadTo
<1> QED BY <1>1, <1>2, <1>4, <1>5, <1>6 DEF InStep, text

(* At the end of the stream nothing is left of the text.                   *)
LEMMA EndsInStep ==
  ASSUME NEW q \in Texts, NEW f, IsTextOf(q, f), NEW h, IsCut(Text(q), h),
         NEW a \in Readers, InStep(q, f, Text(q), h, a, Len(q))
  PROVE  a.cmds = Commands(q)
<1> DEFINE text == Text(q)  n == Len(q)  rest == f[Place(a.mode, n)]  l == Len(a.buf)
<1>0. /\ n \in Nat /\ text \in Texts
      /\ a.mode \in Modes /\ a.buf \in Buffers /\ a.cmds \in Lists
      /\ \A i \in 1..(n + 3) : f[i] = TextAt(q, f, i)
  <2>1. n \in Nat BY LenProperties DEF Texts
  <2>2. 1 \in 1..(n + 3) BY <2>1
  <2> QED BY <2>1, <2>2 DEF IsTextOf, Readers
<1>1. PICK p \in Nat : Rest(text, rest, p) /\ ReadTo(text, h, a.buf, a.cmds, p)
  BY DEF InStep
<1>2. Begun(q, a.mode, n) BY DEF InStep
<1>3. rest = <<>>
  <2>1. CASE a.mode = "NORMAL"
    <3>1. Place(a.mode, n) = n + 1 BY <2>1 DEF Place
    <3>2. f[n + 1] = TextAt(q, f, n + 1) /\ n + 1 > n BY <1>0
    <3> QED BY <3>1, <3>2 DEF TextAt
  <2>2. CASE a.mode = "IAC"
    <3>1. Place(a.mode, n) = n BY <2>2 DEF Place
    <3>2. n >= 1 /\ q[n] = "IAC" BY <1>2, <2>2 DEF Begun
    <3>3. f[n] = TextAt(q, f, n) /\ ~(n > n) BY <1>0, <3>2
    <3> QED BY <3>1, <3>2, <3>3 DEF TextAt
  <2>3. CASE a.mode \in Options
    <3>1. a.mode # "NORMAL" /\ a.mode # "IAC" BY <2>3 DEF Options
    <3>2. Place(a.mode, n) = n - 1 BY <3>1 DEF Place
    <3>3. n >= 2 /\ q[n - 1] = "IAC" /\ q[n] = a.mode BY <1>2, <2>3 DEF Begun
    <3>4. /\ n - 1 \in 1..(n + 3) /\ ~(n - 1 > n) /\ n - 1 # n /\ n - 1 + 1 = n
          /\ n - 1 + 3 = n + 2 /\ n + 2 \in 1..(n + 3) /\ n + 2 > n
      BY <1>0, <3>3
    <3>5. f[n - 1] = f[n + 2] BY <1>0, <2>3, <3>1, <3>3, <3>4 DEF TextAt
    <3>6. f[n + 2] = <<>> BY <1>0, <3>4 DEF TextAt
    <3> QED BY <3>2, <3>5, <3>6
  <2> QED BY <1>0, <2>1, <2>2, <2>3 DEF Modes
<1> HIDE DEF text, rest
<1>4. Len(text) \in Nat /\ l \in Nat /\ l < LINELEN /\ LINELEN \in Nat
  BY <1>0, LenProperties, QueueAssumption DEF Texts, Buffers
<1>5. p = Len(text)
  <2>1. Len(rest) = 0 BY <1>3, EmptySeq
  <2> QED BY <1>1, <1>4, <2>1 DEF Rest
<1>6. /\ l <= p /\ \A i \in 1..l : text[p - l + i] = a.buf[i] /\ a.buf[i] # "nl"
      /\ h[1] = a.cmds \o h[p - l + 1]
  BY <1>1 DEF ReadTo
<1> DEFINE i == p - l + 1
<1> HIDE DEF l
<1>7. i \in 1..(Len(text) + 1)
  <2> DEFINE z == Len(text)
  <2>1. z \in Nat /\ l \in Nat /\ l <= p /\ p = z BY <1>4, <1>5, <1>6
  <2> HIDE DEF z
  <2>2. p - l + 1 \in 1..(z + 1) BY <2>1
  <2> QED BY <2>2 DEF z
<1>8. Ends(text, i) = {}
  <2> SUFFICES ASSUME NEW j \in i..Len(text), text[j] = "nl" \/ j = i + LINELEN - 1
               PROVE  FALSE
    BY DEF Ends
  <2>1. j \in Int /\ p - l + 1 <= j /\ j <= p BY <1>4, <1>5
  <2>2. j - (p - l) \in 1..l /\ p - l + (j - (p - l)) = j BY <1>4, <2>1
  <2>3. text[j] # "nl" BY <1>6, <2>2
  <2>4. j # i + LINELEN - 1 BY <1>4, <2>1
  <2> QED BY <2>3, <2>4
<1> HIDE DEF i
<1>9. h[i] = <<>>
  <2>1. h[i] = CutAt(text, h, i) BY <1>7 DEF IsCut, text
  <2> QED BY <1>8, <2>1 DEF CutAt
<1>10. h[1] = a.cmds BY <1>0, <1>6, <1>9, ConcatEmptySeq DEF Lists, i
<1>11. Commands(q) = h[1] BY DEF Commands, IsCut, text
<1> QED BY <1>10, <1>11

(* The reader reads the commands of the stream.                            *)
LEMMA ReadsCommands ==
  ASSUME NEW q \in Texts, NEW g, Reading(g, Fresh, q)
  PROVE  g[Len(q)].cmds = Commands(q)
<1> DEFINE n == Len(q)
<1>0. n \in Nat BY LenProperties DEF Texts
<1>1. PICK f : IsTextOf(q, f) BY TextIs DEF IsTextOf
<1>2. Text(q) \in Texts
  <2>1. 1 \in 1..(n + 3) BY <1>0
  <2> QED BY <1>1, <2>1 DEF IsTextOf
<1>3. PICK h : IsCut(Text(q), h) BY <1>2, CutIs DEF IsCut
<1> DEFINE Ok == {k \in 0..n : InStep(q, f, Text(q), h, g[k], k)}
<1>4. 0 \in Ok BY <1>0, <1>1, <1>3, StartsInStep DEF Reading
<1>5. ASSUME NEW k \in 1..n, k - 1 \in Ok PROVE k \in Ok
  <2>1. g[k - 1] \in Readers /\ g[k] = Read(g[k - 1], q[k]) BY <1>0 DEF Reading
  <2>2. InStep(q, f, Text(q), h, Read(g[k - 1], q[k]), k)
    BY <1>1, <1>3, <1>5, <2>1, StepsInStep
  <2> QED BY <2>1, <2>2
<1>6. n \in Ok
  <2> HIDE DEF Ok, n
  <2>1. \A k \in 0..n : k \in Ok BY <1>0, <1>4, <1>5, UpTo
  <2> QED BY <1>0, <2>1
<1>7. g[n] \in Readers BY <1>0 DEF Reading
<1> QED BY <1>1, <1>3, <1>6, <1>7, EndsInStep

(***************************************************************************)
(* The shell, and what the queue of lines does not touch.                  *)
(***************************************************************************)
(* Only exit quits: what ParsedWhole needs of the shell, since telnetd.c   *)
(* reads no further once the shell has quit.  shell.c keeps it, its help   *)
(* and its answers to other commands are lines and prompts (ShellQuits).   *)
Quits(script) == \E i \in 1..Len(script) : script[i] = "quit"
OnlyExitQuits ==
  /\ ~Quits(Greeting)
  /\ \A cmd \in Seq(STRING) : Quits(Answer(cmd)) => cmd[1] = "exit"

LEMMA ShellQuits ==
  /\ ~Quits(Sh!shell_start)
  /\ \A cmd \in Seq(STRING) : Quits(Sh!shell_input(cmd)) => cmd[1] = "exit"
<1>1. ~Quits(Sh!shell_start)
  <2>1. Sh!shell_start[1] = "line" /\ Sh!shell_start[2] = "line" /\ Sh!shell_start[3] = "prompt"
        /\ Len(Sh!shell_start) = 3
    BY DEF Sh!shell_start
  <2>2. \A i \in 1..3 : i = 1 \/ i = 2 \/ i = 3 OBVIOUS
  <2> QED BY <2>1, <2>2 DEF Quits
<1>2. ~Quits(Sh!help)
  <2>1. Len(Sh!help) = 5 /\ \A i \in 1..5 : Sh!help[i] = "line" BY DEF Sh!help
  <2> QED BY <2>1 DEF Quits
<1>3. ~Quits(<<"line">>) /\ ~Quits(<<>>)
  <2>1. Len(<<"line">>) = 1 /\ Len(<<>>) = 0 /\ \A i \in 1..1 : <<"line">>[i] = "line" OBVIOUS
  <2> QED BY <2>1 DEF Quits
<1>4. ASSUME NEW cmd \in Seq(STRING), Quits(Sh!shell_input(cmd)) PROVE cmd[1] = "exit"
  <2> DEFINE p == Sh!parse(cmd)
  <2>1. p \in Seq(Calls)
    <3> USE DEF Calls
    <3>1. Sh!help \in Seq(Calls) /\ <<"quit">> \in Seq(Calls) /\ <<"line">> \in Seq(Calls)
          /\ <<>> \in Seq(Calls)
      BY DEF Sh!help
    <3>2. Sh!unknown(cmd) \in Seq(Calls) BY <3>1 DEF Sh!unknown
    <3>3. \A word \in DOMAIN Sh!parsetab : Sh!parsetab[word] \in Seq(Calls)
      BY <3>1 DEF Sh!parsetab
    <3> QED BY <3>2, <3>3 DEF Sh!parse
  <2>2. Sh!shell_input(cmd) = Append(p, "prompt") BY DEF Sh!shell_input
  <2>3. Quits(p)
    <3> HIDE DEF p
    <3>1. Len(p) \in Nat /\ "prompt" \in Calls BY <2>1, LenProperties DEF Calls
    <3>2. /\ Len(Append(p, "prompt")) = Len(p) + 1
          /\ \A i \in 1..Len(p) : Append(p, "prompt")[i] = p[i]
          /\ Append(p, "prompt")[Len(p) + 1] = "prompt"
      BY <2>1, <3>1, AppendProperties
    <3>3. PICK i \in 1..(Len(p) + 1) : Append(p, "prompt")[i] = "quit" BY <1>4, <2>2, <3>2 DEF Quits
    <3>4. i \in 1..Len(p) BY <3>1, <3>2, <3>3
    <3> QED BY <3>2, <3>3, <3>4 DEF Quits
  <2>4. ASSUME NEW word \in DOMAIN Sh!parsetab, word # "exit"
        PROVE  ~Quits(Sh!parsetab[word])
    BY <1>2, <2>4 DEF Sh!parsetab
  <2>5. ~Quits(Sh!unknown(cmd)) BY <1>3 DEF Sh!unknown
  <2>6. cmd # <<>> /\ cmd[1] \in DOMAIN Sh!parsetab /\ p = Sh!parsetab[cmd[1]]
    BY <2>3, <2>5 DEF Sh!parse
  <2> QED BY <2>3, <2>4, <2>6
<1> QED BY <1>1, <1>4

(* What the queue does not touch.                                          *)
SameInput(t, u) == u.buf = t.buf /\ u.cmds = t.cmds
SameReader(t, u) == SameInput(t, u) /\ u.state = t.state

LEMMA QueueKeeps ==
  ASSUME NEW t \in ServerRecs, NEW len \in 0..2
  PROVE  SameReader(t, Queue(t, len))
<1> DEFINE b == alloc_line(t)
           line == [no |-> t.made + 1, len |-> len]
           u == [t EXCEPT !.count = Taken(@, b), !.made = @ + 1, !.text[b] = line]
<1>1. CASE b = NULL
  <2>1. Queue(t, len) = t BY <1>1 DEF Queue
  <2> QED BY <2>1 DEF SameReader, SameInput
<1>2. CASE b # NULL
  <2>1. Queue(t, len) = sendline(u, b) BY <1>2 DEF Queue
  <2>2. /\ u.buf = t.buf /\ u.cmds = t.cmds /\ u.state = t.state
        /\ DOMAIN u = DOMAIN t
    BY DEF ServerRecs
  <2> HIDE DEF u, b
  <2>3. DOMAIN u = {"lines", "numsent", "buf", "state", "count", "text", "made", "cmds"}
    BY <2>2 DEF ServerRecs
  <2>4. \A x : /\ [u EXCEPT !.lines = x].buf = u.buf /\ [u EXCEPT !.lines = x].cmds = u.cmds
               /\ [u EXCEPT !.lines = x].state = u.state
               /\ [u EXCEPT !.count = x].buf = u.buf /\ [u EXCEPT !.count = x].cmds = u.cmds
               /\ [u EXCEPT !.count = x].state = u.state
    BY <2>3
  <2> QED BY <2>1, <2>2, <2>4 DEF sendline, dealloc_line, SameReader, SameInput
<1> QED BY <1>1, <1>2

LEMMA RunOneKeeps ==
  ASSUME NEW t \in ServerRecs, NEW call \in Calls
  PROVE  /\ SameInput(t, RunOne(t, call))
         /\ call # "quit" => RunOne(t, call).state = t.state
<1>1. CASE call = "quit"
  <2>1. RunOne(t, call) = [t EXCEPT !.state = "CLOSE"] BY <1>1 DEF RunOne, shell_quit
  <2> QED BY <1>1, <2>1 DEF SameInput, ServerRecs
<1>2. CASE call = "prompt"
  <2>1. RunOne(t, call) = Queue(t, 1) BY <1>2 DEF RunOne, shell_prompt, LineLen
  <2> QED BY <2>1, QueueKeeps DEF SameReader
<1>3. CASE call = "line"
  <2>1. RunOne(t, call) = Queue(t, 2) BY <1>3 DEF RunOne, shell_output, LineLen
  <2> QED BY <2>1, QueueKeeps DEF SameReader
<1> QED BY <1>1, <1>2, <1>3 DEF Calls

LEMMA RunKeeps ==
  ASSUME NEW t \in ServerRecs, NEW script \in Seq(Calls)
  PROVE  /\ SameInput(t, Run(t, script))
         /\ ~Quits(script) => Run(t, script).state = t.state
<1> DEFINE n == Len(script)
<1>1. n \in Nat /\ \A i \in 1..n : script[i] \in Calls BY LenProperties, ElementOfSeq
<1>2. PICK h \in [0..n -> ServerRecs] :
        h[0] = t /\ h[n] = Run(t, script) /\ \A k \in 1..n : h[k] = RunOne(h[k - 1], script[k])
  BY RunSteps
<1> DEFINE Same(u) == SameInput(t, u) /\ (~Quits(script) => u.state = t.state)
           Ok == {k \in 0..n : Same(h[k])}
<1>3. 0 \in Ok BY <1>1, <1>2 DEF SameInput
<1>4. ASSUME NEW k \in 1..n, k - 1 \in Ok PROVE k \in Ok
  <2>1. h[k - 1] \in ServerRecs /\ script[k] \in Calls BY <1>1
  <2>2. ~Quits(script) => script[k] # "quit" BY DEF Quits
  <2>3. Same(RunOne(h[k - 1], script[k])) BY <1>4, <2>1, <2>2, RunOneKeeps DEF SameInput
  <2> QED BY <1>2, <2>3
<1>5. n \in Ok
  <2> HIDE DEF Ok, n
  <2>1. \A k \in 0..n : k \in Ok BY <1>1, <1>3, <1>4, UpTo
  <2> QED BY <1>1, <2>1
<1> QED BY <1>2, <1>5

(***************************************************************************)
(* The server against the reader: both take the same characters, but the   *)
(* server stops reading when the shell quits.                              *)
(***************************************************************************)
(* The two lists begin alike, up to a command that is an exit.             *)
Left(cs, ds) ==
  \E i \in 1..Len(cs) : /\ i <= Len(ds) /\ cs[i][1] = "exit"
                        /\ \A j \in 1..i : cs[j] = ds[j]

(* The server has read what the reader has, at least up to an exit.        *)
Follows(t, a) ==
  (t.state = a.mode /\ SameInput(a, t)) \/ Left(t.cmds, a.cmds)

(* ds goes on where cs ends.                                               *)
Longer(cs, ds) == Len(cs) <= Len(ds) /\ \A j \in 1..Len(cs) : ds[j] = cs[j]

LEMMA LongerLeft ==
  ASSUME NEW cs \in Lists, NEW ds \in Lists, Left(cs, ds),
         NEW es \in Lists, NEW fs \in Lists, Longer(cs, es), Longer(ds, fs)
  PROVE  Left(es, fs)
<1>1. Len(cs) \in Nat /\ Len(ds) \in Nat /\ Len(es) \in Nat /\ Len(fs) \in Nat
  BY LenProperties DEF Lists
<1>2. PICK i \in 1..Len(cs) : /\ i <= Len(ds) /\ cs[i][1] = "exit"
                              /\ \A j \in 1..i : cs[j] = ds[j]
  BY DEF Left
<1>3. \A j \in 1..i : j \in 1..Len(cs) /\ j \in 1..Len(ds) BY <1>1, <1>2
<1>4. i \in 1..Len(es) /\ i <= Len(fs) /\ i \in 1..i BY <1>1, <1>2 DEF Longer
<1>5. \A j \in 1..i : es[j] = cs[j] /\ fs[j] = ds[j] BY <1>3 DEF Longer
<1>6. es[i][1] = "exit" /\ \A j \in 1..i : es[j] = fs[j] BY <1>2, <1>4, <1>5
<1> QED BY <1>4, <1>6 DEF Left

LEMMA LongerGave ==
  ASSUME NEW buf \in Buffers, NEW cmds \in Lists, NEW c \in STRING
  PROVE  Longer(cmds, Gave(buf, cmds, c)) /\ Longer(cmds, cmds)
<1>1. Len(cmds) \in Nat BY LenProperties DEF Lists
<1>2. Longer(cmds, cmds) BY <1>1 DEF Longer
<1>3. CASE Ended(buf, c)
  <2> DEFINE x == IF buf = <<>> THEN <<c>> ELSE buf
  <2>1. Gave(buf, cmds, c) = Append(cmds, x) /\ x \in Texts BY <1>3, TookIs
  <2> HIDE DEF x
  <2>2. Longer(cmds, Append(cmds, x)) BY <1>1, <2>1, AppendProperties DEF Lists, Longer
  <2> QED BY <1>2, <2>1, <2>2
<1>4. CASE ~Ended(buf, c) BY <1>2, <1>4 DEF Gave
<1> QED BY <1>3, <1>4

(* A character of the text is read as the reader does; the state changes   *)
(* only when it ends an exit.                                              *)
LEMMA CharReads ==
  ASSUME Scripted, OnlyExitQuits, NEW t \in ServerRecs, NEW c \in STRING
  PROVE  LET u == get_char(t, c)
         IN  /\ u.buf = Took(t.buf, c) /\ u.cmds = Gave(t.buf, t.cmds, c)
             /\ \/ u.state = t.state
                \/ Ended(t.buf, c) /\ (IF t.buf = <<>> THEN <<c>> ELSE t.buf)[1] = "exit"
<1>0. t.buf \in Buffers /\ t.buf \in Seq(STRING) /\ t.cmds \in Lists /\ Len(t.buf) \in Nat
      /\ LINELEN \in Nat
  BY LenProperties, QueueAssumption DEF ServerRecs, Buffers, Lists, Texts
<1>1. CASE c = "cr"
  <2>1. get_char(t, c) = t BY <1>1 DEF get_char
  <2> QED BY <1>1, <2>1 DEF Took, Gave, Ended
<1>2. CASE c # "cr" /\ ~Ended(t.buf, c)
  <2>1. c # "nl" /\ Room(t) BY <1>0, <1>2 DEF Ended, Room
  <2>2. get_char(t, c) = [t EXCEPT !.buf = Append(t.buf, c)] BY <1>2, <2>1 DEF get_char
  <2> DEFINE b == Append(t.buf, c)
  <2>3. Took(t.buf, c) = b /\ Gave(t.buf, t.cmds, c) = t.cmds BY <1>2 DEF Took, Gave
  <2> HIDE DEF b
  <2>4. /\ [t EXCEPT !.buf = b].buf = b /\ [t EXCEPT !.buf = b].cmds = t.cmds
        /\ [t EXCEPT !.buf = b].state = t.state
    BY DEF ServerRecs
  <2> QED BY <2>2, <2>3, <2>4 DEF b
<1>3. CASE Ended(t.buf, c)
  <2> DEFINE cmd == IF t.buf = <<>> THEN <<c>> ELSE t.buf
             v == Run(t, Answer(cmd))
             u == [v EXCEPT !.buf = <<>>, !.cmds = Append(v.cmds, cmd)]
  <2>1. c # "cr" /\ ~(c # "nl" /\ Room(t)) BY <1>0, <1>3 DEF Ended, Room
  <2>2. get_char(t, c) = u BY <2>1 DEF get_char
  <2>3. Took(t.buf, c) = <<>> /\ Gave(t.buf, t.cmds, c) = Append(t.cmds, cmd) /\ cmd \in Texts
    BY <1>0, <1>3, TookIs
  <2> HIDE DEF cmd
  <2>4. Answer(cmd) \in Seq(Calls) BY <2>3 DEF Scripted, Texts
  <2>5. /\ v \in ServerRecs /\ SameInput(t, v)
        /\ v.state = t.state \/ Quits(Answer(cmd))
    BY <2>4, RunGrows, RunKeeps
  <2>6. Quits(Answer(cmd)) => cmd[1] = "exit" BY <2>3 DEF OnlyExitQuits, Texts
  <2> HIDE DEF v
  <2>7. u.buf = <<>> /\ u.cmds = Append(v.cmds, cmd) /\ u.state = v.state
    BY <2>5 DEF ServerRecs
  <2> QED BY <1>3, <2>2, <2>3, <2>5, <2>6, <2>7 DEF SameInput, cmd
<1> QED BY <1>1, <1>2, <1>3

(* One turn of the loop of newdata.                                        *)
LEMMA ParsedFollows ==
  ASSUME Scripted, OnlyExitQuits, NEW t \in ServerRecs, NEW a \in Readers, Follows(t, a),
         NEW c \in STRING
  PROVE  Follows(Parsed(t, c), Read(a, c))
<1> DEFINE u == get_char(t, c)  w == Parsed(t, c)  b == Read(a, c)
           x == IF t.buf = <<>> THEN <<c>> ELSE t.buf
<1>0. /\ t.state \in States /\ t.buf \in Buffers /\ t.cmds \in Lists
      /\ a.mode \in Modes /\ a.buf \in Buffers /\ a.cmds \in Lists
      /\ w \in ServerRecs /\ w.cmds \in Lists /\ b \in Readers /\ b.cmds \in Lists
      /\ u \in ServerRecs
  BY ParsedGrows, CharGrows, ReadIs DEF ServerRecs, Readers, Lists, Texts
<1>u. /\ u.buf = Took(t.buf, c) /\ u.cmds = Gave(t.buf, t.cmds, c)
      /\ u.state = t.state \/ (Ended(t.buf, c) /\ x[1] = "exit")
  BY CharReads
<1>b. /\ b.mode = NextMode(a.mode, c)
      /\ b.buf = IF IsText(a.mode, c) THEN Took(a.buf, c) ELSE a.buf
      /\ b.cmds = IF IsText(a.mode, c) THEN Gave(a.buf, a.cmds, c) ELSE a.cmds
  BY DEF Read
<1>d. t.state = "NORMAL" \/ t.state = "IAC" => t.state \notin Options BY DEF Options
<1>o. "IAC" # "NORMAL" /\ "CLOSE" \notin Options /\ "CLOSE" # "NORMAL" /\ "CLOSE" # "IAC" BY DEF Options
<1>p. /\ t.state = "IAC" /\ c = "IAC" => w = [u EXCEPT !.state = "NORMAL"]
      /\ t.state = "IAC" /\ c # "IAC"
           => w = [t EXCEPT !.state = IF c \in Options THEN c ELSE "NORMAL"]
      /\ t.state \in Options => w = [sendopt(t) EXCEPT !.state = "NORMAL"]
      /\ t.state = "NORMAL" /\ c = "IAC" => w = [t EXCEPT !.state = "IAC"]
      /\ t.state = "NORMAL" /\ c # "IAC" => w = u
      /\ t.state = "CLOSE" => w = t
  BY <1>d, <1>o DEF Parsed
<1> DEFINE v == sendopt(t)
<1>v. v \in ServerRecs /\ SameReader(t, v)
  <2>1. sendopt(t) = Queue(t, 1) BY DEF sendopt, LineLen
  <2> QED BY <2>1, QueueGrows, QueueKeeps
<1> HIDE DEF u, v, w, b, x
<1>w. \/ w.buf = t.buf /\ w.cmds = t.cmds
      \/ w.buf = Took(t.buf, c) /\ w.cmds = Gave(t.buf, t.cmds, c)
  <2>1. \A st : \A r \in ServerRecs :
          [r EXCEPT !.state = st].buf = r.buf /\ [r EXCEPT !.state = st].cmds = r.cmds
    BY DEF ServerRecs
  <2>2. CASE t.state = "IAC" /\ c = "IAC"
    <3>1. w = [u EXCEPT !.state = "NORMAL"] BY <1>p, <2>2
    <3>2. w.buf = u.buf /\ w.cmds = u.cmds BY <1>0, <2>1, <3>1
    <3> QED BY <1>u, <3>2
  <2>3. CASE t.state = "IAC" /\ c # "IAC"
    <3> DEFINE st == IF c \in Options THEN c ELSE "NORMAL"
    <3>1. w = [t EXCEPT !.state = st] BY <1>p, <2>3
    <3> HIDE DEF st
    <3> QED BY <2>1, <3>1
  <2>4. CASE t.state \in Options
    <3>1. w = [v EXCEPT !.state = "NORMAL"] BY <1>p, <2>4 DEF v
    <3> QED BY <1>v, <2>1, <3>1 DEF SameReader, SameInput
  <2>5. CASE t.state = "NORMAL" /\ c = "IAC"
    <3>1. w = [t EXCEPT !.state = "IAC"] BY <1>p, <2>5
    <3> QED BY <2>1, <3>1
  <2>6. CASE t.state = "NORMAL" /\ c # "IAC" BY <1>p, <1>u, <2>6
  <2>7. CASE t.state = "CLOSE" BY <1>p, <2>7
  <2> QED BY <1>0, <2>2, <2>3, <2>4, <2>5, <2>6, <2>7 DEF States
<1>1. CASE Left(t.cmds, a.cmds)
  <2>1. Longer(t.cmds, w.cmds) BY <1>0, <1>w, LongerGave
  <2>2. Longer(a.cmds, b.cmds) BY <1>0, <1>b, LongerGave
  <2>3. Left(w.cmds, b.cmds) BY <1>0, <1>1, <2>1, <2>2, LongerLeft
  <2> QED BY <2>3 DEF Follows, w, b
<1>2. CASE t.state = a.mode /\ SameInput(a, t)
  <2>0. t.buf = a.buf /\ t.cmds = a.cmds BY <1>2 DEF SameInput
  <2>m. \A st : \A r \in ServerRecs :
          /\ [r EXCEPT !.state = st].buf = r.buf
          /\ [r EXCEPT !.state = st].cmds = r.cmds
          /\ [r EXCEPT !.state = st].state = st
    BY DEF ServerRecs
  <2>1. ASSUME Ended(t.buf, c), x[1] = "exit", w.cmds = u.cmds, IsText(a.mode, c)
        PROVE  Left(w.cmds, b.cmds)
    <3>1. w.cmds = Append(t.cmds, x) /\ x \in Texts
      BY <1>0, <1>u, <2>1, TookIs DEF x
    <3>2. b.cmds = w.cmds BY <1>b, <1>u, <2>0, <2>1
    <3>3. Len(t.cmds) \in Nat BY <1>0, LenProperties DEF Lists
    <3>4. Len(w.cmds) = Len(t.cmds) + 1 /\ w.cmds[Len(t.cmds) + 1] = x
      BY <1>0, <3>1, AppendProperties DEF Lists
    <3>5. Len(t.cmds) + 1 \in 1..Len(w.cmds) /\ Len(t.cmds) + 1 <= Len(w.cmds) BY <3>3, <3>4
    <3> QED BY <2>1, <3>2, <3>4, <3>5 DEF Left
  <2>2. ASSUME IsText(a.mode, c), w.buf = u.buf, w.cmds = u.cmds
        PROVE  SameInput(b, w)
    BY <1>b, <1>u, <2>0, <2>2 DEF SameInput
  <2>3. ASSUME ~IsText(a.mode, c), w.buf = t.buf, w.cmds = t.cmds
        PROVE  SameInput(b, w)
    BY <1>b, <2>0, <2>3 DEF SameInput
  <2>4. CASE t.state = "NORMAL" /\ c # "IAC"
    <3>1. w = u /\ IsText(a.mode, c) /\ b.mode = "NORMAL"
      BY <1>b, <1>o, <1>p, <1>2, <2>4 DEF IsText, NextMode
    <3>2. CASE u.state = t.state BY <1>2, <2>2, <2>4, <3>1, <3>2 DEF Follows, w, b
    <3>3. CASE Ended(t.buf, c) /\ x[1] = "exit" BY <2>1, <3>1, <3>3 DEF Follows, w, b
    <3> QED BY <1>u, <3>2, <3>3
  <2>5. CASE t.state = "NORMAL" /\ c = "IAC"
    <3>1. w = [t EXCEPT !.state = "IAC"] /\ ~IsText(a.mode, c) /\ b.mode = "IAC"
      BY <1>b, <1>o, <1>p, <1>2, <2>5 DEF IsText, NextMode
    <3>2. w.buf = t.buf /\ w.cmds = t.cmds /\ w.state = "IAC" BY <2>m, <3>1
    <3> QED BY <2>3, <3>1, <3>2 DEF Follows, w, b
  <2>6. CASE t.state = "IAC" /\ c = "IAC"
    <3>1. w = [u EXCEPT !.state = "NORMAL"] /\ IsText(a.mode, c) /\ b.mode = "NORMAL"
      <4>1. c \notin Options BY <2>6 DEF Options
      <4> QED BY <1>b, <1>o, <1>p, <1>2, <2>6, <4>1 DEF IsText, NextMode
    <3>2. w.buf = u.buf /\ w.cmds = u.cmds /\ w.state = "NORMAL" BY <1>0, <2>m, <3>1
    <3> QED BY <2>2, <3>1, <3>2 DEF Follows, w, b
  <2>7. CASE t.state = "IAC" /\ c # "IAC"
    <3> DEFINE st == IF c \in Options THEN c ELSE "NORMAL"
    <3>1. w = [t EXCEPT !.state = st] /\ ~IsText(a.mode, c) /\ b.mode = st
      BY <1>b, <1>o, <1>p, <1>2, <2>7 DEF IsText, NextMode
    <3> HIDE DEF st
    <3>2. w.buf = t.buf /\ w.cmds = t.cmds /\ w.state = st BY <2>m, <3>1
    <3> QED BY <2>3, <3>1, <3>2 DEF Follows, w, b
  <2>8. CASE t.state \in Options
    <3>1. ~IsText(a.mode, c) /\ b.mode = "NORMAL"
      BY <1>b, <1>d, <1>2, <2>8 DEF IsText, NextMode
    <3>2. w = [v EXCEPT !.state = "NORMAL"] BY <1>p, <2>8 DEF v
    <3>3. w.buf = t.buf /\ w.cmds = t.cmds /\ w.state = "NORMAL"
      BY <1>v, <2>m, <3>2 DEF SameReader, SameInput
    <3> QED BY <2>3, <3>1, <3>3 DEF Follows, w, b
  <2> QED BY <1>0, <1>2, <2>4, <2>5, <2>6, <2>7, <2>8 DEF Modes
<1> QED BY <1>1, <1>2 DEF Follows

(***************************************************************************)
(* One call of telnetd_appcall.                                            *)
(***************************************************************************)
LEMMA ReadingExists ==
  ASSUME NEW a \in Readers, NEW q \in Texts
  PROVE  \E g : Reading(g, a, q)
<1> DEFINE F == [b \in Readers |-> [c \in STRING |-> Read(b, c)]]
<1>1. F \in [Readers -> [STRING -> Readers]] BY ReadIs
<1>2. \A b \in Readers : \A c \in STRING : F[b][c] = Read(b, c) OBVIOUS
<1>3. Len(q) \in Nat /\ DOMAIN q = 1..Len(q) /\ \A i \in 1..Len(q) : q[i] \in STRING
  BY LenProperties, ElementOfSeq DEF Texts
<1> HIDE DEF F
<1>4. PICK e : Folded(e, Readers, a, F, q) BY <1>1, FoldExists DEF Texts
<1>5. Folds(e, Readers, F, q) /\ e[{}] = a BY <1>4 DEF Folded, Folds
<1>6. PICK h : Through(h, e, Readers, F, q) BY <1>1, <1>5, FoldSteps DEF Texts
<1>7. h \in [0..Len(q) -> Readers] /\ h[0] = a BY <1>5, <1>6 DEF Through
<1>8. \A k \in 1..Len(q) : h[k] = Read(h[k - 1], q[k])
  <2> TAKE k \in 1..Len(q)
  <2>1. h[k - 1] \in Readers /\ q[k] \in STRING BY <1>3, <1>7
  <2> QED BY <1>2, <1>6, <2>1 DEF Through
<1> QED BY <1>7, <1>8 DEF Reading

(* Reading goes on with what arrives.                                      *)
LEMMA ReadingOn ==
  ASSUME NEW q \in Texts, NEW d \in Texts, NEW a, NEW g, Reading(g, a, q),
         NEW h, Reading(h, g[Len(q)], d)
  PROVE  \E e : Reading(e, a, q \o d) /\ e[Len(q \o d)] = h[Len(d)]
<1> DEFINE m == Len(q)  n == Len(d)  r == q \o d
           e == [k \in 0..(m + n) |-> IF k <= m THEN g[k] ELSE h[k - m]]
<1>1. m \in Nat /\ n \in Nat BY LenProperties DEF Texts
<1>2. Len(r) = m + n /\ \A i \in 1..(m + n) : r[i] = IF i <= m THEN q[i] ELSE d[i - m]
  BY ConcatProperties DEF Texts
<1>3. g \in [0..m -> Readers] /\ g[0] = a /\ \A k \in 1..m : g[k] = Read(g[k - 1], q[k])
  BY DEF Reading
<1>4. h \in [0..n -> Readers] /\ h[0] = g[m] /\ \A k \in 1..n : h[k] = Read(h[k - 1], d[k])
  BY DEF Reading
<1> HIDE DEF m, n, r
<1>5. e \in [0..(m + n) -> Readers] BY <1>1, <1>3, <1>4
<1>6. e[0] = a BY <1>1, <1>3
<1>7. \A k \in 0..m : e[k] = g[k] BY <1>1
<1>0. \A j \in 0..(m + n) : e[j] = IF j <= m THEN g[j] ELSE h[j - m] OBVIOUS
<1> HIDE DEF e
<1>8. \A k \in 0..n : e[m + k] = h[k]
  <2> TAKE k \in 0..n
  <2>1. m + k \in 0..(m + n) /\ m + k - m = k BY <1>1
  <2>2. CASE k = 0
    <3>1. m + k = m /\ m <= m BY <1>1, <2>2
    <3>2. e[m] = g[m] BY <1>1, <1>7
    <3> QED BY <1>4, <2>2, <3>1, <3>2
  <2>3. CASE k # 0
    <3> DEFINE j == m + k
    <3>1. j \in 0..(m + n) /\ ~(j <= m) /\ j - m = k BY <1>1, <2>1, <2>3
    <3> HIDE DEF j
    <3>2. e[j] = h[k] BY <1>0, <3>1
    <3> QED BY <3>2 DEF j
  <2> QED BY <2>2, <2>3
<1>9. ASSUME NEW k \in 1..(m + n) PROVE e[k] = Read(e[k - 1], r[k])
  <2>1. CASE k <= m
    <3>1. k \in 1..m /\ k \in 0..m /\ k - 1 \in 0..m BY <1>1, <2>1
    <3>2. e[k] = g[k] /\ e[k - 1] = g[k - 1] BY <1>7, <3>1
    <3>3. r[k] = q[k] BY <1>2, <2>1
    <3> QED BY <1>3, <3>1, <3>2, <3>3
  <2>2. CASE ~(k <= m)
    <3> DEFINE j == k - m
    <3>1. j \in 1..n /\ j \in 0..n /\ j - 1 \in 0..n /\ m + j = k /\ m + (j - 1) = k - 1
      BY <1>1, <2>2
    <3>2. r[k] = d[j] BY <1>2, <2>2
    <3> HIDE DEF j
    <3>3. e[k] = h[j] /\ e[k - 1] = h[j - 1] BY <1>8, <3>1
    <3> QED BY <1>4, <3>1, <3>2, <3>3
  <2> QED BY <2>1, <2>2
<1>10. e[m + n] = h[n]
  <2>1. n \in 0..n BY <1>1
  <2> QED BY <1>8, <2>1
<1>11. Reading(e, a, r) BY <1>2, <1>5, <1>6, <1>9 DEF Reading
<1> QED BY <1>2, <1>10, <1>11 DEF r, n

LEMMA NewdataFollows ==
  ASSUME Scripted, OnlyExitQuits, NEW t \in ServerRecs, NEW a \in Readers, Follows(t, a),
         NEW data \in Texts, NEW g, Reading(g, a, data)
  PROVE  Follows(newdata(t, data), g[Len(data)])
<1> DEFINE n == Len(data)
<1>1. n \in Nat /\ \A i \in 1..n : data[i] \in STRING BY LenProperties, ElementOfSeq DEF Texts
<1>2. PICK h \in [0..n -> ServerRecs] :
        h[0] = t /\ h[n] = newdata(t, data) /\ \A k \in 1..n : h[k] = Parsed(h[k - 1], data[k])
  BY NewdataSteps DEF Texts
<1>3. g \in [0..n -> Readers] /\ g[0] = a /\ \A k \in 1..n : g[k] = Read(g[k - 1], data[k])
  BY DEF Reading
<1> DEFINE Ok == {k \in 0..n : Follows(h[k], g[k])}
<1>4. 0 \in Ok BY <1>1, <1>2, <1>3
<1>5. ASSUME NEW k \in 1..n, k - 1 \in Ok PROVE k \in Ok
  <2>1. h[k - 1] \in ServerRecs /\ g[k - 1] \in Readers /\ data[k] \in STRING
        /\ Follows(h[k - 1], g[k - 1])
    BY <1>1, <1>5
  <2>2. Follows(Parsed(h[k - 1], data[k]), Read(g[k - 1], data[k])) BY <2>1, ParsedFollows
  <2> QED BY <1>2, <1>3, <2>2
<1>6. n \in Ok
  <2> HIDE DEF Ok, n
  <2>1. \A k \in 0..n : k \in Ok BY <1>1, <1>4, <1>5, UpTo
  <2> QED BY <1>1, <2>1
<1> QED BY <1>2, <1>6

(* Freeing and sending lines, and the whole call.                          *)
LEMMA FreedKeeps ==
  ASSUME NEW t \in ServerRecs, NEW q \in Seq(Blocks)
  PROVE  LET u == FoldLeft(dealloc_line, t, q)
         IN  u \in ServerRecs /\ SameReader(t, u) /\ u.lines = t.lines /\ u.numsent = t.numsent
<1>1. FoldLeft(dealloc_line, t, q) = FreedUpTo(t, q, Len(q)) BY FreedAll
<1> DEFINE cs == [b \in Blocks |-> IF \E i \in 1..Len(q) : q[i] = b THEN 0 ELSE t.count[b]]
<1>2. FreedUpTo(t, q, Len(q)) = [t EXCEPT !.count = cs] BY DEF FreedUpTo
<1> HIDE DEF cs
<1>3. SameReader(t, [t EXCEPT !.count = cs]) BY DEF SameReader, SameInput, ServerRecs
<1> QED BY <1>1, <1>2, <1>3, FreedUpToIs

LEMMA AckedKeeps ==
  ASSUME NEW t \in ServerRecs, t.numsent \in 0..Len(t.lines)
  PROVE  SameReader(t, acked(t))
<1> DEFINE q == SubSeq(t.lines, 1, t.numsent)
           v == FoldLeft(dealloc_line, t, q)
           rest == SubSeq(v.lines, v.numsent + 1, Len(v.lines))
<1>1. q \in Seq(Blocks)
  <2> DEFINE m == t.numsent  n == Len(t.lines)
  <2>1. n \in Nat /\ m \in 0..n /\ \A i \in 1..n : t.lines[i] \in Blocks
    BY LenProperties, ElementOfSeq DEF ServerRecs
  <2>2. 1 \in Int /\ m \in Int /\ \A i \in 1..m : t.lines[i] \in Blocks BY <2>1
  <2> QED BY <2>2, SubSeqProperties
<1>2. v \in ServerRecs /\ SameReader(t, v) /\ v.lines = t.lines /\ v.numsent = t.numsent
  BY <1>1, FreedKeeps
<1>3. acked(t) = [v EXCEPT !.lines = SubSeq(v.lines, t.numsent + 1, Len(v.lines)), !.numsent = 0]
  BY <1>2 DEF acked
<1> HIDE DEF v
<1>4. \A x : SameReader(v, [v EXCEPT !.lines = x, !.numsent = 0])
  BY <1>2 DEF SameReader, SameInput, ServerRecs
<1> QED BY <1>2, <1>3, <1>4 DEF SameReader, SameInput

LEMMA SenddataKeeps ==
  ASSUME NEW t \in ServerRecs PROVE SameReader(t, senddata(t))
<1>1. senddata(t) = [t EXCEPT !.numsent = Fits(t)] BY SenddataIs
<1>2. SameReader(t, [t EXCEPT !.numsent = Fits(t)]) BY DEF SameReader, SameInput, ServerRecs
<1> QED BY <1>1, <1>2

LEMMA SameFollows ==
  ASSUME NEW t, NEW u, SameReader(t, u), NEW a, Follows(t, a)
  PROVE  Follows(u, a)
BY DEF SameReader, SameInput, Follows

LEMMA StartedReads ==
  ASSUME OnlyExitQuits, NEW t \in ServerRecs
  PROVE  Started(t) \in ServerRecs /\ Follows(Started(t), Fresh)
<1> DEFINE v == [t EXCEPT !.lines = <<>>, !.buf = <<>>, !.state = "NORMAL", !.made = 0, !.cmds = <<>>]
<1>1. /\ <<>> \in Seq(Blocks) /\ <<>> \in Seq(STRING) /\ <<>> \in Seq(Seq(STRING))
      /\ Len(<<>>) = 0
  BY EmptySeq
<1>2. <<>> \in Buffers BY <1>1, QueueAssumption DEF Buffers
<1>3. v \in ServerRecs BY <1>1, <1>2 DEF ServerRecs, States
<1>4. v.buf = <<>> /\ v.cmds = <<>> /\ v.state = "NORMAL" BY DEF ServerRecs
<1>5. Started(t) = Run(v, Greeting) BY DEF Started
<1> HIDE DEF v
<1>6. Greeting \in Seq(Calls) BY QueueAssumption
<1>7. SameInput(v, Run(v, Greeting)) /\ Run(v, Greeting).state = v.state
  BY <1>3, <1>6, RunKeeps DEF OnlyExitQuits
<1>8. Run(v, Greeting) \in ServerRecs BY <1>3, <1>6, RunGrows
<1> QED BY <1>4, <1>5, <1>7, <1>8 DEF Follows, SameInput, Fresh

(* A call on an open connection, whatever it is for.                       *)
LEMMA CallFollows ==
  ASSUME Scripted, OnlyExitQuits, NEW t \in ServerRecs, t.numsent \in 0..Len(t.lines),
         NEW flags, "CONNECTED" \notin flags, NEW data \in Texts,
         "NEWDATA" \in flags <=> data # <<>>,
         NEW a \in Readers, Follows(t, a), NEW g, Reading(g, a, data)
  PROVE  Follows(telnetd_appcall(t, flags, data), g[Len(data)])
<1> DEFINE w == telnetd_appcall(t, flags, data)
           freed == IF flags \cap {"CLOSE", "ABORT", "TIMEDOUT"} # {} THEN closed(t) ELSE t
           answered == IF "ACKDATA" \in flags THEN acked(freed) ELSE freed
           parsed == IF "NEWDATA" \in flags THEN newdata(answered, data) ELSE answered
<1>0. /\ Len(data) \in Nat /\ g[0] = a /\ g \in [0..Len(data) -> Readers]
      /\ \A k \in 1..Len(data) : g[k] = Read(g[k - 1], data[k])
      /\ \A i \in 1..Len(data) : data[i] \in STRING
  BY LenProperties, ElementOfSeq DEF Reading, Texts
<1>1. CASE Leaving(t, flags)
  <2>1. w = [t EXCEPT !.state = "NORMAL"] BY <1>1 DEF telnetd_appcall
  <2>2. w.cmds = t.cmds BY <2>1 DEF ServerRecs
  <2>3. t.state = "CLOSE" /\ a.mode # "CLOSE"
    <3>1. a.mode \in Modes /\ "CLOSE" \notin Modes BY DEF Readers, Modes, Options
    <3> QED BY <1>1, <3>1 DEF Leaving
  <2>4. Left(t.cmds, a.cmds) BY <2>3 DEF Follows
  <2> DEFINE Ok == {k \in 0..Len(data) : Left(t.cmds, g[k].cmds)}
  <2>5. 0 \in Ok BY <1>0, <2>4
  <2>6. ASSUME NEW k \in 1..Len(data), k - 1 \in Ok PROVE k \in Ok
    <3>1. g[k - 1] \in Readers /\ g[k] \in Readers /\ data[k] \in STRING
          /\ g[k] = Read(g[k - 1], data[k]) /\ Left(t.cmds, g[k - 1].cmds)
      BY <1>0, <2>6
    <3> DEFINE b == g[k - 1]  d == g[k]  c == data[k]
    <3>2. b \in Readers /\ d \in Readers /\ c \in STRING /\ d = Read(b, c) /\ Left(t.cmds, b.cmds)
      BY <3>1
    <3> HIDE DEF b, c, d
    <3>3. b.cmds \in Lists /\ d.cmds \in Lists /\ b.buf \in Buffers /\ t.cmds \in Lists
      BY <3>2 DEF Readers, ServerRecs, Lists, Texts
    <3>4. d.cmds = b.cmds \/ d.cmds = Gave(b.buf, b.cmds, c) BY <3>2 DEF Read
    <3>5. Longer(b.cmds, d.cmds) /\ Longer(t.cmds, t.cmds)
      <4>1. Longer(b.cmds, Gave(b.buf, b.cmds, c)) /\ Longer(b.cmds, b.cmds)
        BY <3>2, <3>3, LongerGave
      <4>2. Len(t.cmds) \in Nat BY <3>3, LenProperties DEF Lists
      <4> QED BY <3>4, <4>1, <4>2 DEF Longer
    <3>6. Left(t.cmds, d.cmds) BY <3>2, <3>3, <3>5, LongerLeft
    <3> QED BY <3>6 DEF d
  <2>7. Len(data) \in Ok
    <3> DEFINE n == Len(data)
    <3>1. n \in Nat /\ 0 \in Ok /\ \A k \in 1..n : k - 1 \in Ok => k \in Ok BY <1>0, <2>5, <2>6
    <3> HIDE DEF Ok, n
    <3>2. \A k \in 0..n : k \in Ok BY <3>1, UpTo
    <3>3. n \in Ok BY <3>1, <3>2
    <3> QED BY <3>3 DEF n
  <2> QED BY <2>2, <2>7 DEF Follows
<1>2. CASE ~Leaving(t, flags)
  <2>1. w = IF flags \cap Sends # {} THEN senddata(parsed) ELSE parsed
    BY <1>2 DEF telnetd_appcall
  <2>2. freed \in ServerRecs /\ freed.numsent \in 0..Len(freed.lines) /\ SameReader(t, freed)
    <3>1. t.lines \in Seq(Blocks) BY DEF ServerRecs
    <3>2. closed(t) \in ServerRecs /\ SameReader(t, closed(t)) /\ closed(t).lines = t.lines
          /\ closed(t).numsent = t.numsent
      BY <3>1, FreedKeeps DEF closed
    <3>3. SameReader(t, t) BY DEF SameReader, SameInput
    <3> QED BY <3>2, <3>3
  <2> HIDE DEF freed
  <2>3. answered \in ServerRecs /\ SameReader(freed, answered)
    <3>1. SameReader(freed, freed) BY DEF SameReader, SameInput
    <3> QED BY <2>2, <3>1, AckedIs, AckedKeeps
  <2> HIDE DEF answered
  <2>4. Follows(answered, a) BY <2>2, <2>3, SameFollows
  <2>5. parsed \in ServerRecs /\ Follows(parsed, g[Len(data)])
    <3>1. CASE "NEWDATA" \in flags
      <4>1. parsed = newdata(answered, data) BY <3>1
      <4>2. newdata(answered, data) \in ServerRecs BY <2>3, NewdataGrows DEF Texts
      <4> QED BY <2>3, <2>4, <4>1, <4>2, NewdataFollows
    <3>2. CASE "NEWDATA" \notin flags
      <4>1. Len(data) = 0 BY <3>2, EmptySeq
      <4> QED BY <1>0, <2>3, <2>4, <3>2, <4>1
    <3> QED BY <3>1, <3>2
  <2> HIDE DEF parsed
  <2>6. Follows(senddata(parsed), g[Len(data)]) BY <2>5, SenddataKeeps, SameFollows
  <2> HIDE DEF w
  <2>7. Follows(w, g[Len(data)]) BY <2>1, <2>5, <2>6
  <2> QED BY <2>7 DEF w
<1> QED BY <1>1, <1>2

LEMMA ConnectedFollows ==
  ASSUME Scripted, OnlyExitQuits, NEW t \in ServerRecs,
         NEW f \in SUBSET {"NEWDATA"}, NEW data \in Texts,
         "NEWDATA" \in {"CONNECTED"} \cup f <=> data # <<>>, NEW g, Reading(g, Fresh, data)
  PROVE  Follows(telnetd_appcall(t, {"CONNECTED"} \cup f, data), g[Len(data)])
<1> DEFINE flags == {"CONNECTED"} \cup f
           u == Started(t)
           v == IF "NEWDATA" \in flags THEN newdata(u, data) ELSE u
<1>1. u \in ServerRecs /\ Follows(u, Fresh) BY StartedReads
<1>2. /\ "CONNECTED" \in flags /\ "ACKDATA" \notin flags
      /\ flags \cap {"CLOSE", "ABORT", "TIMEDOUT"} = {} /\ flags \cap Sends # {}
      /\ ~Leaving(t, flags)
  BY DEF Sends, Leaving
<1>3. telnetd_appcall(t, flags, data) = senddata(v) BY <1>2 DEF telnetd_appcall
<1> HIDE DEF u
<1>4. v \in ServerRecs /\ Follows(v, g[Len(data)])
  <2>1. CASE "NEWDATA" \in flags
    <3>1. v = newdata(u, data) /\ newdata(u, data) \in ServerRecs
      BY <1>1, <2>1, NewdataGrows DEF Texts
    <3> QED BY <1>1, <3>1, FreshIs, NewdataFollows
  <2>2. CASE "NEWDATA" \notin flags
    <3>1. Len(data) = 0 /\ g[0] = Fresh BY <2>2, EmptySeq DEF Reading
    <3> QED BY <1>1, <2>2, <3>1
  <2> QED BY <2>1, <2>2
<1> HIDE DEF v
<1>5. Follows(senddata(v), g[Len(data)]) BY <1>4, SenddataKeeps, SameFollows
<1> QED BY <1>3, <1>5

(***************************************************************************)
(* Every call.                                                             *)
(***************************************************************************)
(* What has arrived on a connection has been read by the server as by the  *)
(* reader.                                                                 *)
ReadInv(c) ==
  /\ typed \in [Conns -> Texts]
  /\ \E g : Reading(g, Fresh, typed[c]) /\ Follows(s, g[Len(typed[c])])

LEMMA HandleReads ==
  ASSUME Scripted, OnlyExitQuits, TypeInv, NEW c \in Conns, ReadInv(c),
         NEW flags, NEW data \in Seq(STRING), Handle(c, flags, data),
         "CONNECTED" \notin flags \/ \E f \in SUBSET {"NEWDATA"} : flags = {"CONNECTED"} \cup f
  PROVE  ReadInv(c)'
<1> DEFINE q == IF "CONNECTED" \in flags THEN data ELSE typed[c] \o data
<1>1. /\ s' = telnetd_appcall(s, flags, data) /\ typed' = [typed EXCEPT ![c] = q]
      /\ "NEWDATA" \in flags <=> data # <<>>
  BY DEF Handle
<1>2. data \in Texts /\ typed \in [Conns -> Texts] /\ typed[c] \in Texts BY DEF ReadInv, Texts
<1>3. typed[c] \o data \in Texts BY <1>2, ConcatProperties DEF Texts
<1>4. typed'[c] = q /\ typed' \in [Conns -> Texts]
  <2>1. q \in Texts BY <1>2, <1>3
  <2> HIDE DEF q
  <2> QED BY <1>1, <1>2, <2>1
<1>5. s \in ServerRecs /\ s.numsent \in 0..Len(s.lines) BY DEF TypeInv, SentOK
<1>6. CASE "CONNECTED" \in flags
  <2>1. PICK f \in SUBSET {"NEWDATA"} : flags = {"CONNECTED"} \cup f BY <1>6
  <2>2. PICK g : Reading(g, Fresh, data) BY <1>2, FreshIs, ReadingExists
  <2>3. Follows(telnetd_appcall(s, flags, data), g[Len(data)])
    BY <1>1, <1>2, <1>5, <2>1, <2>2, ConnectedFollows
  <2>4. typed'[c] = data /\ Follows(s', g[Len(data)]) BY <1>1, <1>4, <1>6, <2>3
  <2> QED BY <1>4, <2>2, <2>4 DEF ReadInv
<1>7. CASE "CONNECTED" \notin flags
  <2>1. PICK g : Reading(g, Fresh, typed[c]) /\ Follows(s, g[Len(typed[c])]) BY DEF ReadInv
  <2> DEFINE a == g[Len(typed[c])]
  <2>2. a \in Readers
    <3>1. Len(typed[c]) \in Nat BY <1>2, LenProperties DEF Texts
    <3> QED BY <2>1, <3>1 DEF Reading
  <2>3. PICK h : Reading(h, a, data) BY <1>2, <2>2, ReadingExists
  <2>4. Follows(s', h[Len(data)])
    <3>1. Follows(s, a) BY <2>1
    <3> HIDE DEF a
    <3> QED BY <1>1, <1>2, <1>5, <1>7, <2>2, <2>3, <3>1, CallFollows
  <2>5. PICK e : Reading(e, Fresh, typed[c] \o data) /\ e[Len(typed[c] \o data)] = h[Len(data)]
    BY <1>2, <2>1, <2>3, ReadingOn
  <2>6. typed'[c] = typed[c] \o data BY <1>4, <1>7
  <2> QED BY <1>4, <2>4, <2>5, <2>6 DEF ReadInv
<1> QED BY <1>6, <1>7

LEMMA InitReads ==
  ASSUME Init, NEW c \in Conns
  PROVE  ReadInv(c)
<1>1. <<>> \in Texts BY EmptySeq DEF Texts
<1>2. PICK g : Reading(g, Fresh, <<>>) BY <1>1, FreshIs, ReadingExists
<1>3. Len(<<>>) = 0 /\ g[0] = Fresh BY <1>2, EmptySeq DEF Reading
<1>4. typed = [d \in Conns |-> <<>>] BY DEF Init
<1>5. typed[c] = <<>> /\ typed \in [Conns -> Texts] BY <1>1, <1>4
<1>6. s.buf = <<>> /\ s.cmds = <<>> /\ s.state = "NORMAL" BY DEF Init
<1>7. Follows(s, Fresh) BY <1>6 DEF Follows, SameInput, Fresh
<1> QED BY <1>2, <1>3, <1>5, <1>7 DEF ReadInv

LEMMA NextReads ==
  ASSUME Scripted, OnlyExitQuits, NEW c, Conns = {c}, TypeInv, ReadInv(c), [Next]_vars
  PROVE  ReadInv(c)'
<1>c. c \in Conns /\ \A d \in Conns : d = c OBVIOUS
<1>0. ASSUME NEW flags, NEW data \in Seq(STRING), Handle(c, flags, data), "CONNECTED" \notin flags
      PROVE  ReadInv(c)'
  BY <1>0, <1>c, HandleReads
<1>1. CASE Connected(c)
  <2>1. PICK f \in SUBSET {"NEWDATA"}, data \in Seq(STRING) :
          /\ Moves(c, {"absent"}, "open") /\ Handle(c, {"CONNECTED"} \cup f, data)
    BY <1>1, <1>c, ConnectedMoves
  <2> QED BY <1>c, <2>1, HandleReads
<1>2. CASE Served(c)
  <2>1. PICK flags \in SUBSET {"ACKDATA", "NEWDATA", "POLL"}, data \in Seq(STRING) :
          Handle(c, flags, data)
    BY <1>2, <1>c, ServedMoves
  <2>2. "CONNECTED" \notin flags OBVIOUS
  <2> QED BY <1>0, <2>1, <2>2
<1>3. CASE Rexmit(c) BY <1>0, <1>3, <1>c, RexmitMoves, EmptyString
<1>4. CASE PeerCloses(c)
  <2>1. PICK f \in SUBSET {"ACKDATA", "NEWDATA"}, data \in Seq(STRING) :
          Handle(c, {"CLOSE"} \cup f, data)
    BY <1>4, <1>c, PeerClosesMoves
  <2>2. "CONNECTED" \notin {"CLOSE"} \cup f OBVIOUS
  <2> QED BY <1>0, <2>1, <2>2
<1>5. CASE PeerFollows(c) BY <1>0, <1>5, <1>c, PeerFollowsMoves, EmptyString
<1>6. CASE ClosedAgain(c) BY <1>0, <1>6, <1>c, ClosedAgainMoves, EmptyString
<1>7. CASE Broken(c)
  <2>1. PICK how \in {"ABORT", "TIMEDOUT"} : Handle(c, {how}, <<>>) BY <1>7, <1>c, BrokenMoves
  <2>2. "CONNECTED" \notin {how} OBVIOUS
  <2> QED BY <1>0, <2>1, <2>2, EmptyString
<1>8. CASE Forgotten(c)
  <2>1. UNCHANGED <<s, typed>> BY <1>8, <1>c, ForgottenMoves
  <2> QED BY <2>1 DEF ReadInv
<1>9. CASE UNCHANGED vars
  <2>1. UNCHANGED <<s, typed>> BY <1>9 DEF vars, env
  <2> QED BY <2>1 DEF ReadInv
<1> QED BY <1>c, <1>1, <1>2, <1>3, <1>4, <1>5, <1>6, <1>7, <1>8, <1>9 DEF Next

(* Lists that begin alike up to an exit are the same up to the first.      *)
LEMMA LeftUpToExit ==
  ASSUME NEW cs \in Lists, NEW ds \in Lists, Left(cs, ds)
  PROVE  UpToExit(cs) = UpToExit(ds)
<1> DEFINE E(l) == {i \in DOMAIN l : l[i][1] = "exit"}
<1>1. /\ Len(cs) \in Nat /\ DOMAIN cs = 1..Len(cs)
      /\ Len(ds) \in Nat /\ DOMAIN ds = 1..Len(ds)
  BY LenProperties DEF Lists
<1>2. PICK i \in 1..Len(cs) : /\ i <= Len(ds) /\ cs[i][1] = "exit"
                              /\ \A j \in 1..i : cs[j] = ds[j]
  BY DEF Left
<1>3. i \in E(cs) /\ i \in E(ds)
  <2>1. i \in 1..i /\ i \in 1..Len(ds) BY <1>1, <1>2
  <2>2. cs[i] = ds[i] BY <1>2, <2>1
  <2> QED BY <1>1, <1>2, <2>1, <2>2
<1>4. E(cs) \in SUBSET Nat /\ E(ds) \in SUBSET Nat BY <1>1
<1>5. \A j \in 1..i : j \in E(cs) <=> j \in E(ds)
  <2> TAKE j \in 1..i
  <2>1. j \in DOMAIN cs /\ j \in DOMAIN ds /\ cs[j] = ds[j] BY <1>1, <1>2
  <2> QED BY <2>1
<1>u. /\ UpToExit(cs) = IF E(cs) = {} THEN cs ELSE SubSeq(cs, 1, Min(E(cs)))
      /\ UpToExit(ds) = IF E(ds) = {} THEN ds ELSE SubSeq(ds, 1, Min(E(ds)))
  BY DEF UpToExit
<1>0. 0 \notin E(cs) /\ 0 \notin E(ds) BY <1>1
<1> DEFINE m == Min(E(cs))  n == Min(E(ds))
<1> HIDE DEF E
<1>6. /\ m \in E(cs) /\ m <= i /\ \A j \in E(cs) : m <= j
      /\ n \in E(ds) /\ n <= i /\ \A j \in E(ds) : n <= j
  BY <1>3, <1>4, MinIs
<1> HIDE DEF m, n
<1>7. m \in Nat /\ n \in Nat /\ m # 0 /\ n # 0 BY <1>0, <1>4, <1>6
<1>8. m \in 1..i /\ n \in 1..i BY <1>1, <1>2, <1>6, <1>7
<1>9. m = n
  <2>1. m \in E(ds) /\ n \in E(cs) BY <1>5, <1>6, <1>8
  <2> QED BY <1>6, <1>7, <2>1
<1>10. SubSeq(cs, 1, m) = SubSeq(ds, 1, m)
  <2>1. SubSeq(cs, 1, m) = [j \in 1..m |-> cs[j]] /\ SubSeq(ds, 1, m) = [j \in 1..m |-> ds[j]]
    <3>1. \A r : SubSeq(r, 1, m) = [j \in 1..(1 + m - 1) |-> r[j + 1 - 1]] BY <1>7
    <3>2. 1 + m - 1 = m /\ \A j \in 1..m : j + 1 - 1 = j BY <1>7
    <3> QED BY <3>1, <3>2
  <2>2. \A j \in 1..m : cs[j] = ds[j] BY <1>2, <1>8
  <2> QED BY <2>1, <2>2
<1> QED BY <1>3, <1>9, <1>10, <1>u DEF m, n

(* The shell is given the commands that were typed, read with the whole    *)
(* stream at hand, however the stream was cut into segments (newdata and   *)
(* get_char, telnetd.c): for any segments, any length of the input buffer, *)
(* any mss and any answers of the shell of which only those to exit quit,  *)
(* with one connection.                                                    *)
THEOREM CommandsWhole ==
  ASSUME Scripted, OnlyExitQuits, NEW CONSTANT c, Conns = {c}
  PROVE  Spec => []ParsedWhole
<1>1. Init => TypeInv /\ ReadInv(c)
  <2>1. c \in Conns OBVIOUS
  <2> QED BY <2>1, InitTyped, InitReads
<1>2. TypeInv /\ ReadInv(c) /\ [Next]_vars => (TypeInv /\ ReadInv(c))'
  BY NextTyped, NextReads
<1>3. TypeInv /\ ReadInv(c) => ParsedWhole
  <2> SUFFICES ASSUME TypeInv, ReadInv(c)
               PROVE  UpToExit(s.cmds) = UpToExit(Commands(typed[c]))
    BY DEF ParsedWhole
  <2>1. c \in Conns OBVIOUS
  <2>2. typed[c] \in Texts /\ s.cmds \in Lists
    BY <2>1 DEF ReadInv, TypeInv, SentOK, ServerRecs, Lists, Texts
  <2>3. PICK g : Reading(g, Fresh, typed[c]) /\ Follows(s, g[Len(typed[c])]) BY DEF ReadInv
  <2> DEFINE a == g[Len(typed[c])]
  <2>4. a.cmds = Commands(typed[c]) BY <2>2, <2>3, ReadsCommands
  <2>5. a.cmds \in Lists
    <3>1. Len(typed[c]) \in Nat BY <2>2, LenProperties DEF Texts
    <3>2. a \in Readers BY <2>3, <3>1 DEF Reading
    <3> QED BY <3>2 DEF Readers
  <2>6. Follows(s, a) BY <2>3
  <2> HIDE DEF a
  <2>7. s.cmds = a.cmds \/ Left(s.cmds, a.cmds) BY <2>6 DEF Follows, SameInput
  <2> QED BY <2>2, <2>4, <2>5, <2>7, LeftUpToExit
<1> QED BY <1>1, <1>2, <1>3, PTL DEF Spec
=============================================================================
