------------------------------- MODULE PowerProofs -------------------------------
(***************************************************************************)
(* For any number of calls, entries and texts: what BootOrder keeps when   *)
(* RestartTo orders and other programs change it at the same time, what is *)
(* in front of it, and which variable can end the daemon.  Then, for any   *)
(* variables and texts: what the decoder makes of a load option, and that  *)
(* a low number's description is read for what it is.                      *)
(***************************************************************************)
EXTENDS PowerCtl, SequenceTheorems, WellFoundedInduction, TLAPS

\* The types of a handler's locals, but for the texts, which may be any.
Frame(t, d) ==
    [pc : {"new", "size", "get", "restart", "done"}, kind : {"none", "order", "list"},
     search : {t}, read : Seq(Entry), i : Nat \ {0}, size : Nat, target : Nat, listed : {d}]
Typed(k) == \E t, d : k \in Frame(t, d)

\* A call that has read BootOrder and may still write it.
Between(k) == k.pc \in {"size", "get"}

\* A list of entries that BootOrder may be made of: nothing that was there all the time is
\* missing, nothing that was gone all the time is in it.
Listing(s) ==
    /\ s \in Seq(Entry)
    /\ Distinct(s)
    /\ (Known \ deleted) \ (added \cap raced) \subseteq Entries(s)
    /\ Entries(s) \subseteq Known \ (deleted \ raced)

\* What nobody touched is in the order it was in.
Ordered(s) ==
    \A x, y \in Entries(first) \ (moved \cup deleted) : Before(first, x, y) => Before(s, x, y)

\* What the handler knows of the places it has looked at and of the variable it reads.
CallPart(k) ==
    /\ k.pc = "new" => k.target = 0
    /\ Between(k) => Listing(k.read) /\ Ordered(k.read) /\ k.target <= Len(k.read)
    /\ k.pc = "get" =>
           /\ k.i <= Len(k.read)
           /\ VariableOf(k.read[k.i]) \in DOMAIN boot
           /\ k.size = Len(boot[VariableOf(k.read[k.i])])

\* Before the first entry that was asked for, there are only new ones.
FrontPart ==
    moved # {} /\ moved \cap deleted = {} =>
        \E n \in 1..Len(order) :
            order[n] \in moved /\ \A i \in 1..(n - 1) : order[i] \in added

CallsPart ==
    /\ DOMAIN calls = Call
    /\ \A c \in Call : Typed(calls[c]) /\ CallPart(calls[c])

PInv ==
    /\ CallsPart
    /\ first \in Seq(Entry)
    /\ DOMAIN boot = Known /\ deleted \subseteq Known
    /\ \A e \in Known : boot[e] \in Seq(Byte)
    /\ added \cap Entries(first) = {}
    /\ Listing(order) /\ Ordered(order)
    /\ FrontPart
    /\ PanicNeedsShortVariable
--------------------------------------------------------------------------------
\* The elements of a list, however it is made, are in the set it is a list of.
LEMMA EntriesOf ==
    ASSUME NEW s \in Seq(Entry)
    PROVE  /\ Entries(s) \subseteq Entry
           /\ \A x : x \in Entries(s) <=> \E i \in 1..Len(s) : s[i] = x
BY DEF Entries

\* MoveToFront: the places of the entries, and so which there are.
LEMMA Moved ==
    ASSUME NEW s \in Seq(Entry), NEW t \in 1..Len(s), Distinct(s)
    PROVE  LET n == MoveToFront(s, t)
           IN /\ n \in Seq(Entry) /\ Len(n) = Len(s) /\ n[1] = s[t]
              /\ Entries(n) = Entries(s) /\ Distinct(n)
              /\ \A x, y : Before(s, x, y) /\ x # s[t] /\ y # s[t] => Before(n, x, y)
<1> DEFINE n == MoveToFront(s, t)
<1> DEFINE to(p) == IF p < t THEN p + 1 ELSE IF p = t THEN 1 ELSE p
<1> DEFINE from(q) == IF q = 1 THEN t ELSE IF q <= t THEN q - 1 ELSE q
<1>1. \A i \in 1..Len(s) : s[i] \in Entry
  OBVIOUS
<1>2. \A i \in 1..Len(s) :
        (IF i = 1 THEN s[t] ELSE IF i <= t THEN s[i - 1] ELSE s[i]) \in Entry
  BY <1>1
<1>3. n \in [1..Len(s) -> Entry]
  BY <1>2 DEF MoveToFront
<1>4. n \in Seq(Entry) /\ Len(n) = Len(s)
  BY <1>3
<1>5. \A q \in 1..Len(s) : n[q] = IF q = 1 THEN s[t] ELSE IF q <= t THEN s[q - 1] ELSE s[q]
  BY DEF MoveToFront
<1> HIDE DEF n
<1>6. \A p \in 1..Len(s) : to(p) \in 1..Len(s) /\ n[to(p)] = s[p]
  BY <1>5
<1>7. \A q \in 1..Len(s) : from(q) \in 1..Len(s) /\ n[q] = s[from(q)]
  BY <1>5
<1>8. Entries(n) = Entries(s)
  <2>1. \A x \in Entries(n) : x \in Entries(s)
    BY <1>4, <1>7, EntriesOf
  <2>2. \A x \in Entries(s) : x \in Entries(n)
    BY <1>4, <1>6, EntriesOf
  <2> QED
    BY <2>1, <2>2
<1>9. \A p, q \in 1..Len(s) : p # q => from(p) # from(q)
  OBVIOUS
<1>10. Distinct(n)
  <2> SUFFICES ASSUME NEW i \in 1..Len(s), NEW j \in 1..Len(s), i # j PROVE n[i] # n[j]
    BY <1>4 DEF Distinct
  <2>1. /\ from(i) \in 1..Len(s) /\ from(j) \in 1..Len(s) /\ from(i) # from(j)
        /\ n[i] = s[from(i)] /\ n[j] = s[from(j)]
    BY <1>7, <1>9
  <2> HIDE DEF from
  <2> QED
    BY <2>1 DEF Distinct
<1>11. ASSUME NEW x, NEW y, Before(s, x, y), x # s[t], y # s[t]
       PROVE  Before(n, x, y)
  <2>1. PICK i, j \in 1..Len(s) : i < j /\ s[i] = x /\ s[j] = y
    BY <1>11 DEF Before
  <2>2. to(i) < to(j)
    BY <2>1, <1>11
  <2> QED
    BY <1>4, <1>6, <2>1, <2>2 DEF Before
<1>12. n[1] = s[t]
  BY <1>5
<1> QED
  BY <1>4, <1>8, <1>10, <1>11, <1>12 DEF n

\* Without: the entry that is taken out, and nothing else, is gone.
LEMMA Taken ==
    ASSUME NEW s \in Seq(Entry), NEW p \in 1..Len(s), Distinct(s)
    PROVE  LET n == Without(s, p)
           IN /\ n \in Seq(Entry) /\ Len(n) = Len(s) - 1
              /\ Entries(n) = Entries(s) \ {s[p]} /\ Distinct(n)
              /\ \A q \in 1..Len(n) : n[q] = s[IF q < p THEN q ELSE q + 1]
              /\ \A x, y : Before(s, x, y) /\ x # s[p] /\ y # s[p] => Before(n, x, y)
<1> DEFINE n == Without(s, p)
<1> DEFINE m == Len(s) - 1
<1> DEFINE to(i) == IF i < p THEN i ELSE i - 1
<1> DEFINE from(q) == IF q < p THEN q ELSE q + 1
<1>0. m \in Nat /\ Len(s) = m + 1
  OBVIOUS
<1>1. \A i \in 1..Len(s) : s[i] \in Entry
  OBVIOUS
<1>2. \A q \in 1..m : (IF q < p THEN s[q] ELSE s[q + 1]) \in Entry
  BY <1>0, <1>1
<1>3. n = [q \in 1..m |-> IF q < p THEN s[q] ELSE s[q + 1]]
  BY DEF Without
<1> HIDE DEF m
<1>4. n \in [1..m -> Entry]
  BY <1>2, <1>3
<1> HIDE DEF n
<1>5. n \in Seq(Entry) /\ Len(n) = m
  BY <1>0, <1>4
<1>6. \A q \in 1..m : from(q) \in 1..Len(s) /\ from(q) # p /\ n[q] = s[from(q)]
  BY <1>0, <1>3
<1>7. \A i \in 1..Len(s) : i # p => to(i) \in 1..m /\ n[to(i)] = s[i]
  BY <1>0, <1>3
<1>8. \A i \in 1..Len(s) : i # p => s[i] # s[p]
  BY DEF Distinct
<1>9. Entries(n) = Entries(s) \ {s[p]}
  <2>1. \A x \in Entries(n) : x \in Entries(s) /\ x # s[p]
    BY <1>5, <1>6, <1>8, EntriesOf
  <2>2. \A x \in Entries(s) : x # s[p] => x \in Entries(n)
    BY <1>5, <1>7, EntriesOf
  <2> QED
    BY <2>1, <2>2
<1>10. \A q, r \in 1..m : q # r => from(q) # from(r)
  BY <1>0
<1>11. Distinct(n)
  <2> SUFFICES ASSUME NEW i \in 1..m, NEW j \in 1..m, i # j PROVE n[i] # n[j]
    BY <1>5 DEF Distinct
  <2>1. /\ from(i) \in 1..Len(s) /\ from(j) \in 1..Len(s) /\ from(i) # from(j)
        /\ n[i] = s[from(i)] /\ n[j] = s[from(j)]
    BY <1>6, <1>10
  <2> HIDE DEF from
  <2> QED
    BY <2>1 DEF Distinct
<1>12. ASSUME NEW x, NEW y, Before(s, x, y), x # s[p], y # s[p]
       PROVE  Before(n, x, y)
  <2>1. PICK i, j \in 1..Len(s) : i < j /\ s[i] = x /\ s[j] = y
    BY <1>12 DEF Before
  <2>2. i # p /\ j # p /\ to(i) < to(j)
    BY <2>1, <1>12
  <2> QED
    BY <1>5, <1>7, <2>1, <2>2 DEF Before
<1> QED
  BY <1>5, <1>6, <1>9, <1>11, <1>12 DEF n, m

\* An entry that is put in front of all others, or behind them.
LEMMA Put ==
    ASSUME NEW s \in Seq(Entry), NEW e \in Entry, Distinct(s), e \notin Entries(s),
           NEW n \in {<<e>> \o s, Append(s, e)}
    PROVE  /\ n \in Seq(Entry) /\ Len(n) = Len(s) + 1
           /\ Entries(n) = Entries(s) \cup {e} /\ Distinct(n)
           /\ \/ n[1] = e /\ \A i \in 1..Len(s) : n[i + 1] = s[i]
              \/ \A i \in 1..Len(s) : n[i] = s[i]
           /\ \A x, y : Before(s, x, y) => Before(n, x, y)
<1>1. \A i \in 1..Len(s) : s[i] \in Entry /\ s[i] # e
  BY DEF Entries
<1>2. n \in Seq(Entry) /\ Len(n) = Len(s) + 1
  <2>1. <<e>> \in Seq(Entry) /\ Len(<<e>>) = 1
    OBVIOUS
  <2>2. <<e>> \o s \in Seq(Entry) /\ Len(<<e>> \o s) = Len(s) + 1
    BY <2>1
  <2>3. Append(s, e) \in Seq(Entry) /\ Len(Append(s, e)) = Len(s) + 1
    OBVIOUS
  <2> QED
    BY <2>2, <2>3
<1>3. CASE n = <<e>> \o s
  <2>1. n[1] = e /\ \A i \in 1..Len(s) : n[i + 1] = s[i]
    BY <1>3
  <2>2. \A q \in 1..Len(n) : q = 1 \/ (q - 1 \in 1..Len(s) /\ n[q] = s[q - 1])
    BY <1>2, <2>1
  <2>3. \A i \in 1..Len(s) : i + 1 \in 1..Len(n)
    BY <1>2
  <2>4. Entries(n) = Entries(s) \cup {e}
    <3>0. 1 \in 1..Len(n) /\ n \in Seq(Entry)
      BY <1>2
    <3>1. ASSUME NEW x \in Entries(n) PROVE x \in Entries(s) \cup {e}
      <4>1. PICK q \in 1..Len(n) : n[q] = x
        BY <3>0, EntriesOf
      <4>2. x = e \/ (q - 1 \in 1..Len(s) /\ s[q - 1] = x)
        BY <2>1, <2>2, <4>1
      <4> QED
        BY <4>2, EntriesOf
    <3>2. ASSUME NEW x \in Entries(s) PROVE x \in Entries(n)
      <4>1. PICK i \in 1..Len(s) : s[i] = x
        BY EntriesOf
      <4>2. i + 1 \in 1..Len(n) /\ n[i + 1] = x
        BY <2>1, <2>3, <4>1
      <4> QED
        BY <3>0, <4>2, EntriesOf
    <3>3. e \in Entries(n)
      BY <2>1, <3>0, EntriesOf
    <3> QED
      BY <3>1, <3>2, <3>3
  <2>5. Distinct(n)
    <3> SUFFICES ASSUME NEW i \in 1..Len(n), NEW j \in 1..Len(n), i # j PROVE n[i] # n[j]
      BY DEF Distinct
    <3>1. CASE i = 1
      BY <1>1, <2>1, <2>2, <3>1
    <3>2. CASE j = 1
      BY <1>1, <2>1, <2>2, <3>2
    <3>3. CASE i # 1 /\ j # 1
      <4>1. /\ i - 1 \in 1..Len(s) /\ j - 1 \in 1..Len(s) /\ i - 1 # j - 1
            /\ n[i] = s[i - 1] /\ n[j] = s[j - 1]
        BY <2>2, <3>3
      <4> QED
        BY <4>1 DEF Distinct
    <3> QED
      BY <3>1, <3>2, <3>3
  <2>6. \A x, y : Before(s, x, y) => Before(n, x, y)
    BY <1>2, <2>1, <2>3 DEF Before
  <2> QED
    BY <1>2, <2>1, <2>4, <2>5, <2>6
<1>4. CASE n = Append(s, e)
  <2>1. n[Len(s) + 1] = e /\ \A i \in 1..Len(s) : n[i] = s[i]
    BY <1>4
  <2>2. \A q \in 1..Len(n) : q = Len(s) + 1 \/ (q \in 1..Len(s) /\ n[q] = s[q])
    BY <1>2, <2>1
  <2>3. Len(s) + 1 \in 1..Len(n) /\ \A i \in 1..Len(s) : i \in 1..Len(n)
    BY <1>2
  <2>4. Entries(n) = Entries(s) \cup {e}
    <3>1. \A x \in Entries(n) : x \in Entries(s) \cup {e}
      BY <1>2, <2>1, <2>2, EntriesOf
    <3>2. e \in Entries(n)
      BY <1>2, <2>1, <2>3, EntriesOf
    <3>3. ASSUME NEW x \in Entries(s) PROVE x \in Entries(n)
      <4>1. PICK i \in 1..Len(s) : s[i] = x
        BY EntriesOf
      <4>2. i \in 1..Len(n) /\ n[i] = x
        BY <2>1, <2>3, <4>1
      <4> QED
        BY <1>2, <4>2, EntriesOf
    <3> QED
      BY <3>1, <3>2, <3>3
  <2>5. Distinct(n)
    <3> SUFFICES ASSUME NEW i \in 1..Len(n), NEW j \in 1..Len(n), i # j PROVE n[i] # n[j]
      BY DEF Distinct
    <3>1. CASE i = Len(s) + 1
      BY <1>1, <2>1, <2>2, <3>1
    <3>2. CASE j = Len(s) + 1
      BY <1>1, <2>1, <2>2, <3>2
    <3>3. CASE i # Len(s) + 1 /\ j # Len(s) + 1
      BY <2>2, <3>3 DEF Distinct
    <3> QED
      BY <3>1, <3>2, <3>3
  <2>6. \A x, y : Before(s, x, y) => Before(n, x, y)
    BY <1>2, <2>1, <2>3 DEF Before
  <2> QED
    BY <1>2, <2>1, <2>4, <2>5, <2>6
<1> QED
  BY <1>3, <1>4
--------------------------------------------------------------------------------
\* A step of one call: the others keep what they know if no list or variable is disturbed.
LEMMA CallsStep ==
    ASSUME CallsPart, NEW c \in Call, NEW s, Becomes(c, s), Typed(s), CallPart(s)',
           \A k : CallPart(k) => CallPart(k)'
    PROVE  CallsPart'
<1>1. /\ DOMAIN calls' = Call /\ calls'[c] = s
      /\ \A d \in Call : d # c => calls'[d] = calls[d]
  BY DEF CallsPart, Becomes
<1>2. ASSUME NEW d \in Call PROVE Typed(calls'[d]) /\ CallPart(calls[d])'
  <2>1. CASE d = c
    BY <1>1, <2>1
  <2>2. CASE d # c
    <3>1. Typed(calls'[d]) /\ CallPart(calls'[d])
      BY <1>1, <2>2 DEF CallsPart
    <3> QED
      BY <3>1
  <2> QED
    BY <2>1, <2>2
<1>3. (\A d \in Call : Typed(calls[d]) /\ CallPart(calls[d]))'
  BY <1>2 DEF Typed
<1> QED
  BY <1>1, <1>3 DEF CallsPart

\* If BootOrder, the variables and the ghosts do not change, only the call's own part
\* has to be shown.
LEMMA OneCall ==
    ASSUME PInv, NEW c \in Call, NEW s, Becomes(c, s), Typed(s), CallPart(s),
           UNCHANGED Locals
    PROVE  PInv'
<1>1. \A k : CallPart(k) => CallPart(k)'
  BY DEF Locals, CallPart, Listing, Ordered, Known
<1>2. CallsPart'
  BY <1>1, CallsStep DEF PInv
<1> QED
  BY <1>2 DEF PInv, Locals, Listing, Ordered, Known, FrontPart, PanicNeedsShortVariable

\* A call that is answered promises nothing any more.
LEMMA Answered ==
    ASSUME PInv, NEW c \in Call, Answers(c), UNCHANGED Locals
    PROVE  PInv'
<1> DEFINE s == [NewCall EXCEPT !.pc = "done"]
<1>1. NewCall \in Frame(<<>>, <<>>)
  BY DEF NewCall, Frame
<1>2. s \in Frame(<<>>, <<>>) /\ s.pc = "done"
  BY <1>1 DEF Frame
<1> HIDE DEF s
<1>3. Typed(s) /\ CallPart(s)
  BY <1>2 DEF Typed, CallPart, Between
<1>4. Becomes(c, s)
  BY DEF Answers, s
<1> QED
  BY <1>3, <1>4, OneCall

\* The first step of a call.
LEMMA FirstStep ==
    ASSUME PInv, NEW c \in Call, GetOrder(c) \/ GetEntries(c) \/ PlainOrder(c)
    PROVE  PInv'
<1>1. PICK t, d : calls[c] \in Frame(t, d)
  BY DEF PInv, CallsPart, Typed
<1>2. UNCHANGED Locals /\ calls[c].pc = "new"
  BY DEF GetOrder, GetEntries, PlainOrder, At
<1>3. /\ order \in Seq(Entry) /\ Listing(order) /\ Ordered(order)
      /\ calls[c].target = 0
  BY <1>2 DEF PInv, CallsPart, Listing, CallPart
<1>4. CASE GetOrder(c)
  <2>1. PICK u \in Text : Becomes(c, [calls[c] EXCEPT !.pc = "size", !.kind = "order",
                                                      !.search = u, !.read = order])
    BY <1>4 DEF GetOrder
  <2> DEFINE s == [calls[c] EXCEPT !.pc = "size", !.kind = "order", !.search = u,
                                   !.read = order]
  <2>2. s \in Frame(u, d) /\ s.pc = "size" /\ s.read = order /\ s.target = 0
    BY <1>1, <1>3 DEF Frame
  <2> HIDE DEF s
  <2>3. Typed(s) /\ CallPart(s)
    BY <1>3, <2>2 DEF Typed, CallPart, Between
  <2>4. Becomes(c, s)
    BY <2>1 DEF s
  <2> QED
    BY <1>2, <2>3, <2>4, OneCall
<1>5. CASE GetEntries(c)
  <2> DEFINE s == [calls[c] EXCEPT !.pc = "size", !.kind = "list", !.read = order]
  <2>1. s \in Frame(t, d) /\ s.pc = "size" /\ s.read = order /\ s.target = 0
    BY <1>1, <1>3 DEF Frame
  <2> HIDE DEF s
  <2>2. Typed(s) /\ CallPart(s)
    BY <1>3, <2>1 DEF Typed, CallPart, Between
  <2>3. Becomes(c, s)
    BY <1>5 DEF GetEntries, s
  <2> QED
    BY <1>2, <2>2, <2>3, OneCall
<1>6. CASE PlainOrder(c)
  <2> DEFINE s == [calls[c] EXCEPT !.pc = "restart"]
  <2>1. s \in Frame(t, d) /\ s.pc = "restart"
    BY <1>1 DEF Frame
  <2> HIDE DEF s
  <2>2. Typed(s) /\ CallPart(s)
    BY <2>1 DEF Typed, CallPart, Between
  <2>3. Becomes(c, s)
    BY <1>6 DEF PlainOrder, s
  <2> QED
    BY <1>2, <2>2, <2>3, OneCall
<1> QED
  BY <1>4, <1>5, <1>6

\* What is done with a description: the list stays the one that was read.
LEMMA LookState ==
    ASSUME PInv, NEW c \in Call, Between(calls[c]), calls[c].i <= Len(calls[c].read),
           NEW desc, Look(c, desc)
    PROVE  \E s : Becomes(c, s) /\ Typed(s) /\ CallPart(s)
<1> DEFINE k == calls[c]
<1>1. PICK t, d : k \in Frame(t, d)
  BY DEF PInv, CallsPart, Typed
<1>2. CallPart(k)
  BY DEF PInv, CallsPart
<1> DEFINE hit == k.kind = "order" /\ HasText(desc, k.search)
<1> DEFINE next == k.i + 1
<1> DEFINE target == IF hit THEN k.i ELSE k.target
<1> DEFINE listed == IF k.kind = "list" THEN Append(k.listed, desc) ELSE k.listed
<1> DEFINE s == [k EXCEPT !.pc = "size", !.i = next, !.target = target, !.listed = listed]
<1>3. Becomes(c, s)
  BY DEF Look
<1>4. /\ next \in Nat \ {0} /\ target \in Nat
      /\ target <= Len(k.read)
  BY <1>1, <1>2 DEF CallPart, Frame
<1> HIDE DEF next, target, listed
<1>5. s \in Frame(t, listed) /\ s.pc = "size" /\ s.read = k.read /\ s.target = target
  BY <1>1, <1>4 DEF Frame
<1> HIDE DEF s
<1>6. Typed(s)
  BY <1>5 DEF Typed
<1>7. CallPart(s)
  BY <1>2, <1>4, <1>5 DEF CallPart, Between
<1> QED
  BY <1>3, <1>6, <1>7

\* The two steps in which an entry's variable is read.
LEMMA ReadStep ==
    ASSUME PInv, NEW c \in Call, GetSize(c) \/ GetVariable(c)
    PROVE  PInv'
<1> DEFINE v == Variable(c)
<1>1. PICK t, d : calls[c] \in Frame(t, d)
  BY DEF PInv, CallsPart, Typed
<1>2. /\ CallPart(calls[c]) /\ Between(calls[c]) /\ calls[c].i <= Len(calls[c].read)
      /\ v = VariableOf(calls[c].read[calls[c].i])
  BY DEF PInv, CallsPart, GetSize, GetVariable, Looking, At, Between, Variable
<1>3. /\ calls[c].i \in 1..Len(calls[c].read) /\ calls[c].read \in Seq(Entry)
      /\ calls[c].read[calls[c].i] \in Known
  <2>1. calls[c].i \in 1..Len(calls[c].read) /\ calls[c].read \in Seq(Entry)
    BY <1>1, <1>2 DEF Frame
  <2> QED
    BY <1>2, <2>1, EntriesOf DEF CallPart, Listing
<1>4. CASE GetSize(c) /\ There(v)
           /\ Becomes(c, [calls[c] EXCEPT !.pc = "get", !.size = Len(boot[v])])
  <2> DEFINE n == Len(boot[v])
  <2> DEFINE s == [calls[c] EXCEPT !.pc = "get", !.size = n]
  <2>1. n \in Nat /\ v \in DOMAIN boot
    BY <1>4 DEF There, PInv
  <2>2. Becomes(c, s)
    BY <1>4
  <2> HIDE DEF n
  <2>3. /\ s \in Frame(t, d) /\ s.pc = "get" /\ s.read = calls[c].read
        /\ s.i = calls[c].i /\ s.size = n /\ s.target = calls[c].target
    BY <1>1, <2>1 DEF Frame
  <2> HIDE DEF s
  <2>4. Typed(s) /\ CallPart(s)
    BY <1>2, <2>1, <2>3 DEF Typed, CallPart, Between, n
  <2>5. UNCHANGED Locals
    BY <1>4 DEF GetSize
  <2> QED
    BY <2>2, <2>4, <2>5, OneCall
<1>5. CASE GetSize(c) /\ Look(c, <<>>)
  <2>1. UNCHANGED Locals
    BY <1>5 DEF GetSize
  <2> QED
    BY <1>2, <1>5, <2>1, LookState, OneCall
<1>6. CASE GetVariable(c)
  <2>1. PICK b \in Got(c) :
            IF Panics(b) THEN alive' = FALSE /\ UNCHANGED calls
            ELSE Look(c, Trim(Decode(b))) /\ UNCHANGED alive
    BY <1>6 DEF GetVariable
  <2>2. UNCHANGED <<order, boot, deleted, machine, first, moved, added, raced>>
    BY <1>6 DEF GetVariable
  <2>3. CASE ~Panics(b)
    <3>1. Look(c, Trim(Decode(b))) /\ UNCHANGED Locals
      BY <2>1, <2>2, <2>3 DEF Locals
    <3> QED
      BY <1>2, <3>1, LookState, OneCall
  <2>4. CASE Panics(b)
    <3>1. /\ v \in DOMAIN boot /\ calls[c].size = Len(boot[v])
      BY <1>2, <1>6 DEF CallPart, GetVariable, Looking, At
    <3>2. boot[v] \in Seq(Byte)
      BY <3>1 DEF PInv
    <3>3. Len(Zeros(calls[c].size)) = Len(boot[v])
      BY <3>1, <3>2 DEF Zeros
    <3>4. Len(UpTo(boot[v], calls[c].size)) = Len(boot[v])
      BY <3>1, <3>2 DEF UpTo
    <3>5. Len(b) = Len(boot[v])
      BY <2>1, <3>3, <3>4 DEF Got
    <3>6. \E e \in Known : VariableOf(e) \in DOMAIN boot
                           /\ Len(boot[VariableOf(e)]) \in 1..(Header - 1)
      BY <1>2, <1>3, <2>4, <3>1, <3>5 DEF Panics
    <3>7. PanicNeedsShortVariable'
      BY <2>2, <3>6 DEF PanicNeedsShortVariable, Known
    <3>8. \A k : CallPart(k) => CallPart(k)'
      BY <2>2 DEF CallPart, Listing, Ordered, Known
    <3>9. UNCHANGED calls
      BY <2>1, <2>4
    <3> QED
      BY <2>2, <3>7, <3>8, <3>9
         DEF PInv, CallsPart, Typed, Listing, Ordered, Known, FrontPart
  <2> QED
    BY <2>3, <2>4
<1>7. GetSize(c) =>
        \/ There(v) /\ Becomes(c, [calls[c] EXCEPT !.pc = "get", !.size = Len(boot[v])])
        \/ Look(c, <<>>)
  BY DEF GetSize
<1> QED
  BY <1>4, <1>5, <1>6, <1>7

\* BootOrder is written: it has the same entries as the list that was read.
LEMMA SetOrderStep ==
    ASSUME PInv, NEW c \in Call, SetOrder(c)
    PROVE  PInv'
<1> DEFINE k == calls[c]
<1> DEFINE new == MoveToFront(k.read, k.target)
<1> DEFINE chosen == k.read[k.target]
<1>1. PICK t, d : k \in Frame(t, d)
  BY DEF PInv, CallsPart, Typed
<1>2. /\ CallPart(k) /\ Between(k) /\ k.target > 0
      /\ order' = new /\ moved' = moved \cup {chosen}
      /\ Becomes(c, [k EXCEPT !.pc = "restart"])
      /\ UNCHANGED <<boot, deleted, machine, alive, first, added, raced>>
  BY DEF PInv, CallsPart, SetOrder, Looked, At, Between
<1>3. k.read \in Seq(Entry) /\ k.target \in 1..Len(k.read) /\ Distinct(k.read)
  BY <1>1, <1>2 DEF Frame, CallPart, Listing
<1> HIDE DEF k, new, chosen
<1>4. /\ new \in Seq(Entry) /\ Len(new) = Len(k.read) /\ new[1] = chosen
      /\ Entries(new) = Entries(k.read) /\ Distinct(new)
      /\ \A x, y : Before(k.read, x, y) /\ x # chosen /\ y # chosen => Before(new, x, y)
  BY <1>3, Moved DEF new, chosen
<1>5. Listing(order)'
  BY <1>2, <1>4 DEF CallPart, Listing, Known
<1>6. Ordered(order)'
  BY <1>2, <1>4 DEF CallPart, Ordered
<1>7. FrontPart'
  <2>1. 1 \in 1..Len(order') /\ order'[1] \in moved'
    BY <1>2, <1>3, <1>4
  <2>2. \A i \in 1..(1 - 1) : FALSE
    OBVIOUS
  <2> QED
    BY <2>1, <2>2 DEF FrontPart
<1>8. \A j : CallPart(j) => CallPart(j)'
  BY <1>2 DEF CallPart, Listing, Ordered, Known
<1>9. PICK s : Becomes(c, s) /\ s \in Frame(t, d) /\ s.pc = "restart"
  <2> DEFINE s == [k EXCEPT !.pc = "restart"]
  <2>1. s \in Frame(t, d) /\ s.pc = "restart"
    BY <1>1 DEF Frame
  <2> QED
    BY <1>2, <2>1
<1>10. Typed(s) /\ CallPart(s)'
  BY <1>9 DEF Typed, CallPart, Between
<1>11. CallsPart'
  BY <1>8, <1>9, <1>10, CallsStep DEF PInv
<1> QED
  BY <1>2, <1>5, <1>6, <1>7, <1>11 DEF PInv, Known, PanicNeedsShortVariable

\* The machine goes down, which ends no promise.
LEMMA RestartStep ==
    ASSUME PInv, NEW c \in Call, Reboot(c) \/ RunShutdown(c) \/ GoDown
    PROVE  PInv'
<1> USE DEF Listing, Ordered, Known, FrontPart, PanicNeedsShortVariable
<1>1. UNCHANGED <<order, boot, deleted, alive, first, moved, added, raced>>
  BY DEF Reboot, RunShutdown, GoDown
<1>2. \A j : CallPart(j) => CallPart(j)'
  BY <1>1 DEF CallPart
<1>3. CASE UNCHANGED calls
  BY <1>1, <1>2, <1>3 DEF PInv, CallsPart, Typed
<1>4. CASE Answers(c)
  <2> DEFINE s == [NewCall EXCEPT !.pc = "done"]
  <2>1. NewCall \in Frame(<<>>, <<>>)
    BY DEF NewCall, Frame
  <2>2. s \in Frame(<<>>, <<>>) /\ s.pc = "done"
    BY <2>1 DEF Frame
  <2>3. Becomes(c, s)
    BY <1>4 DEF Answers
  <2> HIDE DEF s
  <2>4. Typed(s) /\ CallPart(s)'
    BY <2>2 DEF Typed, CallPart, Between
  <2>5. CallsPart'
    BY <1>2, <2>3, <2>4, CallsStep DEF PInv
  <2> QED
    BY <1>1, <2>5 DEF PInv
<1> QED
  BY <1>3, <1>4 DEF Reboot, RunShutdown, GoDown

\* Another program adds an entry: a call that is between its read and its write may lose it.
LEMMA AddStep ==
    ASSUME PInv, NEW e \in Entry, AddEntry(e), Content \subseteq Seq(Byte)
    PROVE  PInv'
<1>1. /\ e \notin DOMAIN boot /\ order' \in {<<e>> \o order, Append(order, e)}
      /\ added' = added \cup {e} /\ raced' = Racing(e)
      /\ UNCHANGED <<deleted, calls, machine, alive, first, moved>>
  BY DEF AddEntry
<1>2. PICK b \in Content :
        boot' = [v \in DOMAIN boot \cup {e} |-> IF v = e THEN b ELSE boot[v]]
  BY DEF AddEntry
<1>3. /\ DOMAIN boot' = DOMAIN boot \cup {e} /\ boot'[e] = b
      /\ \A v \in DOMAIN boot : boot'[v] = boot[v]
  BY <1>1, <1>2
<1>4. /\ order \in Seq(Entry) /\ Distinct(order) /\ e \notin Entries(order)
      /\ e \notin Known /\ e \notin deleted /\ Known' = Known \cup {e}
  BY <1>1 DEF PInv, Listing, Known
<1>5. /\ order' \in Seq(Entry) /\ Len(order') = Len(order) + 1
      /\ Entries(order') = Entries(order) \cup {e} /\ Distinct(order')
      /\ \/ order'[1] = e /\ \A i \in 1..Len(order) : order'[i + 1] = order[i]
         \/ \A i \in 1..Len(order) : order'[i] = order[i]
      /\ \A x, y : Before(order, x, y) => Before(order', x, y)
  <2>1. order' \in {<<e>> \o order, Append(order, e)}
    BY <1>1
  <2>2. order \in Seq(Entry) /\ Distinct(order) /\ e \notin Entries(order)
    BY <1>4
  <2> QED
    BY <2>1, <2>2, Put
<1>6. raced \subseteq raced' /\ raced' \subseteq raced \cup {e}
  BY <1>1 DEF Racing
<1>7. Listing(order)'
  BY <1>1, <1>4, <1>5, <1>6 DEF PInv, Listing
<1>8. Ordered(order)'
  BY <1>1, <1>5 DEF PInv, Ordered
<1>9. FrontPart'
  <2> SUFFICES ASSUME moved' # {}, moved' \cap deleted' = {}
               PROVE  \E n \in 1..Len(order') :
                          order'[n] \in moved' /\ \A i \in 1..(n - 1) : order'[i] \in added'
    BY DEF FrontPart
  <2>1. PICK n \in 1..Len(order) : order[n] \in moved /\ \A i \in 1..(n - 1) : order[i] \in added
    BY <1>1 DEF PInv, FrontPart
  <2>2. Len(order) \in Nat
    BY <1>4
  <2>3. CASE order'[1] = e /\ \A i \in 1..Len(order) : order'[i + 1] = order[i]
    <3>1. n + 1 \in 1..Len(order') /\ order'[n + 1] \in moved'
      BY <1>1, <1>5, <2>1, <2>2, <2>3
    <3>2. \A i \in 1..n : order'[i] \in added'
      <4> SUFFICES ASSUME NEW i \in 1..n PROVE order'[i] \in added'
        OBVIOUS
      <4>1. CASE i = 1
        BY <1>1, <2>3, <4>1
      <4>2. CASE i # 1
        <5>1. i - 1 \in 1..(n - 1) /\ i - 1 \in 1..Len(order) /\ i = (i - 1) + 1
          BY <2>2, <4>2
        <5>2. order'[i] = order[i - 1]
          BY <2>3, <5>1
        <5> QED
          BY <1>1, <2>1, <5>1, <5>2
      <4> QED
        BY <4>1, <4>2
    <3>3. (n + 1) - 1 = n
      OBVIOUS
    <3> QED
      BY <3>1, <3>2, <3>3
  <2>4. CASE \A i \in 1..Len(order) : order'[i] = order[i]
    <3>1. n \in 1..Len(order') /\ order'[n] \in moved'
      BY <1>1, <1>5, <2>1, <2>2, <2>4
    <3>2. \A i \in 1..(n - 1) : i \in 1..Len(order) /\ order'[i] = order[i]
      BY <2>2, <2>4
    <3>3. \A i \in 1..(n - 1) : order'[i] \in added'
      BY <1>1, <2>1, <3>2
    <3> QED
      BY <3>1, <3>3
  <2> QED
    BY <1>5, <2>3, <2>4
<1>10. ASSUME NEW c \in Call PROVE CallPart(calls[c])'
  <2>1. CallPart(calls[c])
    BY DEF PInv, CallsPart
  <2>2. Between(calls[c]) => raced' = raced \cup {e}
    BY <1>1 DEF Racing, Between
  <2>3. Between(calls[c]) => Listing(calls[c].read)'
    BY <1>1, <1>4, <2>1, <2>2 DEF CallPart, Listing
  <2>4. Between(calls[c]) => Ordered(calls[c].read)'
    BY <1>1, <2>1 DEF CallPart, Ordered
  <2> QED
    BY <1>1, <1>3, <2>1, <2>3, <2>4 DEF CallPart, Between
<1>11. CallsPart'
  BY <1>1, <1>10 DEF PInv, CallsPart, Typed
<1>12. PanicNeedsShortVariable'
  BY <1>1, <1>3, <1>4 DEF PInv, PanicNeedsShortVariable
<1>13. \A v \in Known' : boot'[v] \in Seq(Byte)
  BY <1>3, <1>4 DEF PInv
<1> QED
  BY <1>1, <1>3, <1>4, <1>7, <1>8, <1>9, <1>11, <1>12, <1>13 DEF PInv, Known

\* Another program deletes an entry: a call that is between its read and its write may
\* bring it back.
LEMMA DeleteStep ==
    ASSUME PInv, NEW e \in Entry, DeleteEntry(e)
    PROVE  PInv'
<1>1. /\ e \in Known /\ deleted' = deleted \cup {e} /\ raced' = Racing(e)
      /\ UNCHANGED <<boot, calls, machine, alive, first, moved, added>>
  BY DEF DeleteEntry, There, PInv
<1>2. /\ order \in Seq(Entry) /\ Distinct(order) /\ Listing(order) /\ Ordered(order)
      /\ Len(order) \in Nat
  BY DEF PInv, Listing
<1>3. ASSUME NEW c \in Call PROVE CallPart(calls[c])'
  <2>1. CallPart(calls[c])
    BY DEF PInv, CallsPart
  <2>2. Between(calls[c]) => raced' = raced \cup {e}
    BY <1>1 DEF Racing, Between
  <2>3. Between(calls[c]) => Listing(calls[c].read)'
    BY <1>1, <2>1, <2>2 DEF CallPart, Listing, Known
  <2>4. Between(calls[c]) => Ordered(calls[c].read)'
    BY <1>1, <2>1 DEF CallPart, Ordered
  <2> QED
    BY <1>1, <2>1, <2>3, <2>4 DEF CallPart, Between
<1>4. CallsPart'
  BY <1>1, <1>3 DEF PInv, CallsPart, Typed
<1>5. raced \subseteq raced'
  BY <1>1 DEF Racing
<1>6. CASE e \notin Entries(order)
  <2>1. order' = order
    BY <1>6 DEF DeleteEntry
  <2>2. Listing(order)'
    BY <1>1, <1>2, <1>5, <1>6, <2>1 DEF Listing, Known
  <2>3. Ordered(order)'
    BY <1>1, <1>2, <2>1 DEF Ordered
  <2>4. FrontPart'
    BY <1>1, <2>1 DEF PInv, FrontPart
  <2> QED
    BY <1>1, <1>4, <2>2, <2>3, <2>4 DEF PInv, Known, PanicNeedsShortVariable
<1>7. CASE e \in Entries(order)
  <2>1. PICK p \in 1..Len(order) : order[p] = e /\ order' = Without(order, p)
    BY <1>7 DEF DeleteEntry, Places
  <2>2. /\ order' \in Seq(Entry) /\ Len(order') = Len(order) - 1
        /\ Entries(order') = Entries(order) \ {e} /\ Distinct(order')
        /\ \A q \in 1..Len(order') : order'[q] = order[IF q < p THEN q ELSE q + 1]
        /\ \A x, y : Before(order, x, y) /\ x # e /\ y # e => Before(order', x, y)
    BY <1>2, <2>1, Taken
  <2>3. Listing(order)'
    BY <1>1, <1>2, <1>5, <2>2 DEF Listing, Known
  <2>4. Ordered(order)'
    BY <1>1, <1>2, <2>2 DEF Ordered
  <2>5. FrontPart'
    <3> SUFFICES ASSUME moved' # {}, moved' \cap deleted' = {}
                 PROVE  \E n \in 1..Len(order') :
                            order'[n] \in moved' /\ \A i \in 1..(n - 1) : order'[i] \in added'
      BY DEF FrontPart
    <3>1. PICK n \in 1..Len(order) :
              order[n] \in moved /\ \A i \in 1..(n - 1) : order[i] \in added
      BY <1>1 DEF PInv, FrontPart
    <3>2. n # p
      BY <1>1, <2>1, <3>1
    <3>3. CASE n < p
      <4>1. n \in 1..Len(order') /\ order'[n] = order[n]
        BY <1>2, <2>2, <3>3
      <4>2. \A i \in 1..(n - 1) : order'[i] = order[i]
        BY <1>2, <2>2, <3>3
      <4> QED
        BY <1>1, <3>1, <4>1, <4>2
    <3>4. CASE n > p
      <4>1. n - 1 \in 1..Len(order') /\ order'[n - 1] = order[n]
        BY <1>2, <2>2, <3>4
      <4>2. \A i \in 1..((n - 1) - 1) :
                i \in 1..(n - 1) /\ i + 1 \in 1..(n - 1) /\ order'[i] \in {order[i], order[i + 1]}
        BY <1>2, <2>2, <3>4
      <4>3. \A i \in 1..((n - 1) - 1) : order'[i] \in added'
        BY <1>1, <3>1, <4>2
      <4> QED
        BY <1>1, <3>1, <4>1, <4>3
    <3> QED
      BY <3>2, <3>3, <3>4
  <2> QED
    BY <1>1, <1>4, <2>3, <2>4, <2>5 DEF PInv, Known, PanicNeedsShortVariable
<1> QED
  BY <1>6, <1>7
--------------------------------------------------------------------------------
LEMMA FirstIsBounded == MaxFirst \in Nat
BY PowerAssumption

\* At the beginning BootOrder is what it is then.
LEMMA PInit == Init /\ Content \subseteq Seq(Byte) => PInv
<1> SUFFICES ASSUME Init, Content \subseteq Seq(Byte) PROVE PInv
  OBVIOUS
<1>1. order \in Seq(Entry) /\ first = order /\ Distinct(order)
  <2>1. MaxFirst \in Nat
    BY FirstIsBounded
  <2>2. \E n \in 0..MaxFirst : order \in [1..n -> Entry]
    BY DEF Init
  <2>3. order \in Seq(Entry)
    <3>1. PICK n \in 0..MaxFirst : order \in [1..n -> Entry]
      BY <2>2
    <3>2. n \in Nat
      BY <2>1
    <3> QED
      BY <3>1, <3>2
  <2> QED
    BY <2>3 DEF Init
<1>2. NewCall \in Frame(<<>>, <<>>) /\ NewCall.pc = "new" /\ NewCall.target = 0
  BY DEF NewCall, Frame
<1>3. Typed(NewCall) /\ CallPart(NewCall)
  BY <1>2 DEF Typed, CallPart, Between
<1>4. CallsPart
  BY <1>3 DEF Init, CallsPart
<1>5. Listing(order) /\ Ordered(order)
  BY <1>1 DEF Init, Listing, Ordered, Known
<1> QED
  BY <1>1, <1>4, <1>5 DEF Init, PInv, Known, FrontPart, PanicNeedsShortVariable

\* Every step of every call, of the machine and of other programs keeps the invariant.
LEMMA PStep == PInv /\ [Next]_vars /\ Content \subseteq Seq(Byte) => PInv'
<1> SUFFICES ASSUME PInv, [Next]_vars, Content \subseteq Seq(Byte) PROVE PInv'
  OBVIOUS
<1>1. CASE UNCHANGED vars
  BY <1>1 DEF vars, PInv, CallsPart, Typed, CallPart, Listing, Ordered, Known, FrontPart,
              PanicNeedsShortVariable
<1>2. ASSUME NEW c \in Call, Handler(c) PROVE PInv'
  <2>1. CASE GetOrder(c) \/ GetEntries(c) \/ PlainOrder(c)
    BY <2>1, FirstStep
  <2>2. CASE OtherOrder(c) \/ ListEntries(c) \/ Fails(c)
    BY <2>2, Answered DEF OtherOrder, ListEntries, Fails
  <2>3. CASE GetSize(c) \/ GetVariable(c)
    BY <2>3, ReadStep
  <2>4. CASE SetOrder(c)
    BY <2>4, SetOrderStep
  <2>5. CASE Reboot(c) \/ RunShutdown(c)
    BY <2>5, RestartStep
  <2> QED
    BY <1>2, <2>1, <2>2, <2>3, <2>4, <2>5 DEF Handler
<1>3. CASE GoDown
  <2>1. UNCHANGED <<order, boot, deleted, calls, alive, first, moved, added, raced>>
    BY <1>3 DEF GoDown
  <2> QED
    BY <2>1 DEF PInv, CallsPart, Typed, CallPart, Listing, Ordered, Known, FrontPart,
                PanicNeedsShortVariable
<1>4. ASSUME NEW e \in Entry, AddEntry(e) \/ DeleteEntry(e) PROVE PInv'
  BY <1>4, AddStep, DeleteStep
<1> QED
  BY <1>1, <1>2, <1>3, <1>4 DEF Next

\* The inductive invariant of PowerCtl holds in every state.
THEOREM PInvariant == Spec => []PInv
<1>2. Init => PInv
  BY ContentAssumption, PInit
<1>3. PInv /\ [Next]_vars => PInv'
  BY ContentAssumption, PStep
<1> QED
  BY <1>2, <1>3, PTL DEF Spec

\* BootOrder loses no entry and repeats none, but for what changed between the read and
\* the write of a call.
THEOREM OrderIsKept == Spec => []KeepsEntries
<1>1. PInv => KeepsEntries
  BY DEF PInv, Listing, KeepsEntries
<1> QED
  BY <1>1, PInvariant, PTL

\* Entries that nobody asked for keep their order.
THEOREM RelativeOrderIsKept == Spec => []KeepsRelativeOrder
<1>1. PInv => KeepsRelativeOrder
  BY DEF PInv, Ordered, KeepsRelativeOrder
<1> QED
  BY <1>1, PInvariant, PTL

\* After a RestartTo an entry that was asked for, or a new one, is in front.
THEOREM FrontIsAskedFor == Spec => []FrontWasAskedFor
<1>1. PInv => FrontWasAskedFor
  <2> SUFFICES ASSUME PInv, moved # {}, moved \cap deleted = {}
               PROVE  order # <<>> /\ order[1] \in moved \cup added
    BY DEF FrontWasAskedFor
  <2>1. PICK n \in 1..Len(order) :
            order[n] \in moved /\ \A i \in 1..(n - 1) : order[i] \in added
    BY DEF PInv, FrontPart
  <2>2. order \in Seq(Entry) /\ order # <<>>
    BY <2>1 DEF PInv, Listing
  <2>3. CASE n = 1
    BY <2>1, <2>2, <2>3
  <2>4. CASE n # 1
    <3>1. 1 \in 1..(n - 1)
      BY <2>1, <2>4
    <3> QED
      BY <2>1, <2>2, <3>1
  <2> QED
    BY <2>3, <2>4
<1> QED
  BY <1>1, PInvariant, PTL

\* Only a variable that is shorter than its header can end the daemon.
THEOREM PanicIsExplained == Spec => []PanicNeedsShortVariable
<1>1. PInv => PanicNeedsShortVariable
  BY DEF PInv
<1> QED
  BY <1>1, PInvariant, PTL
--------------------------------------------------------------------------------
\* What the text operators of BootVariable return rests on the first and the last place of
\* a text at which something holds: a set of numbers has a least, a bounded one a greatest.
LEMMA NatMin ==
    ASSUME NEW S \in SUBSET Nat, S # {}
    PROVE  \E x \in S : \A y \in S : x <= y
<1> DEFINE R == OpToRel(<, Nat)
<1>1. IsWellFoundedOn(R, Nat)
  BY NatLessThanWellFounded
<1>2. \A x, y \in Nat : x < y => <<x, y>> \in R
  BY DEF OpToRel
<1> HIDE DEF R
<1>3. PICK x \in S : \A y \in S : ~ (<<y, x>> \in R)
  BY <1>1, WFMin
<1>4. ASSUME NEW y \in S PROVE x <= y
  <2>1. x \in Nat /\ y \in Nat
    OBVIOUS
  <2>2. ~(y < x)
    BY <1>2, <1>3, <2>1
  <2> QED
    BY <2>1, <2>2
<1> QED
  BY <1>4

LEMMA NatMax ==
    ASSUME NEW S \in SUBSET Nat, S # {}, NEW b \in Nat, \A x \in S : x <= b
    PROVE  \E x \in S : \A y \in S : y <= x
<1> DEFINE T == {b - x : x \in S}
<1>1. \A x \in S : x \in Nat /\ b - x \in T /\ b - x \in Nat
  OBVIOUS
<1>2. T \in SUBSET Nat /\ T # {}
  BY <1>1
<1>3. PICK z \in T : \A w \in T : z <= w
  BY <1>2, NatMin
<1>4. PICK x \in S : z = b - x
  OBVIOUS
<1>5. ASSUME NEW y \in S PROVE y <= x
  <2>1. b - x <= b - y /\ x \in Nat /\ y \in Nat
    BY <1>1, <1>3, <1>4
  <2> QED
    BY <2>1
<1> QED
  BY <1>5
--------------------------------------------------------------------------------
\* 0 is a unit, and no blank.
LEMMA NulIs == 0 \in Unit /\ 0 \notin Blank
BY DEF Unit, UInt16, Blank

\* The first and the last of the places of a text that are in a set.
LEMMA FirstAndLast ==
    ASSUME NEW n \in Nat, NEW P \in SUBSET (1..n), P # {}
    PROVE  /\ Min(P) \in P /\ \A x \in P : Min(P) <= x
           /\ Max(P) \in P /\ \A x \in P : x <= Max(P)
<1>1. P \in SUBSET Nat /\ \A x \in P : x <= n
  OBVIOUS
<1>2. \E x \in P : \A y \in P : x <= y
  BY <1>1, NatMin
<1>3. \E x \in P : \A y \in P : y <= x
  BY <1>1, NatMax
<1>4. \A x, y \in P : y <= x <=> x >= y
  BY <1>1
<1>5. Min(P) \in P /\ \A x \in P : Min(P) <= x
  BY <1>2 DEF Min
<1>6. Max(P) \in P /\ \A x \in P : x <= Max(P)
  <2>1. \E x \in P : \A y \in P : x >= y
    BY <1>3, <1>4
  <2>2. Max(P) \in P /\ \A x \in P : Max(P) >= x
    BY <2>1 DEF Max
  <2> QED
    BY <1>4, <2>2
<1> QED
  BY <1>5, <1>6

\* A part of a text.
LEMMA PartIs ==
    ASSUME NEW s \in Seq(Unit), NEW f \in Nat \ {0}, NEW l \in 0..Len(s), f <= l + 1
    PROVE  LET p == SubSeq(s, f, l)
           IN /\ p \in Seq(Unit) /\ Len(p) = l - f + 1
              /\ \A i \in 1..(l - f + 1) : p[i] = s[f + i - 1]
<1>1. \A i \in f..l : s[i] \in Unit
  OBVIOUS
<1> QED
  BY <1>1, SubSeqProperties

\* A text is in another: all its units, at a distance.
LEMMA HasTextIs ==
    ASSUME NEW s \in Seq(Unit), NEW t \in Seq(Unit)
    PROVE  HasText(s, t) <=>
               \E i \in 0..(Len(s) - Len(t)) : \A j \in 1..Len(t) : s[i + j] = t[j]
<1> SUFFICES ASSUME NEW i \in 0..(Len(s) - Len(t))
             PROVE  SubSeq(s, i + 1, i + Len(t)) = t <=> \A j \in 1..Len(t) : s[i + j] = t[j]
  BY DEF HasText
<1> DEFINE p == SubSeq(s, i + 1, i + Len(t))
<1>1. /\ i + 1 \in Nat \ {0} /\ i + Len(t) \in 0..Len(s) /\ i + 1 <= i + Len(t) + 1
      /\ (i + Len(t)) - (i + 1) + 1 = Len(t)
  OBVIOUS
<1>2. /\ p \in Seq(Unit) /\ Len(p) = Len(t)
      /\ \A j \in 1..Len(t) : p[j] = s[(i + 1) + j - 1]
  BY <1>1, PartIs
<1> HIDE DEF p
<1>3. \A j \in 1..Len(t) : p[j] = s[i + j]
  BY <1>2
<1>4. p = t <=> \A j \in 1..Len(t) : p[j] = t[j]
  BY <1>2, SeqEqual
<1> QED
  BY <1>3, <1>4 DEF p

\* What is up to the first NUL.
LEMMA UpToNulIs ==
    ASSUME NEW s \in Seq(Unit)
    PROVE  \E n \in 0..Len(s) :
               /\ UpToNul(s) = SubSeq(s, 1, n) /\ UpToNul(s) \in Seq(Unit)
               /\ Len(UpToNul(s)) = n
               /\ \A k \in 1..n : UpToNul(s)[k] = s[k] /\ s[k] # 0
               /\ n < Len(s) => s[n + 1] = 0
<1> DEFINE nul == {k \in 1..Len(s) : s[k] = 0}
<1>1. \E n \in 0..Len(s) :
         /\ UpToNul(s) = SubSeq(s, 1, n) /\ \A k \in 1..n : s[k] # 0
         /\ n < Len(s) => s[n + 1] = 0
  <2>1. CASE nul = {}
    <3>1. UpToNul(s) = s /\ SubSeq(s, 1, Len(s)) = s
      BY <2>1, SubSeqFull DEF UpToNul
    <3>2. Len(s) \in 0..Len(s) /\ ~(Len(s) < Len(s)) /\ \A k \in 1..Len(s) : s[k] # 0
      BY <2>1
    <3> QED
      BY <3>1, <3>2
  <2>2. CASE nul # {}
    <3> DEFINE m == Min(nul)
    <3>1. nul \in SUBSET (1..Len(s)) /\ Len(s) \in Nat
      OBVIOUS
    <3>2. m \in nul /\ \A x \in nul : m <= x
      BY <2>2, <3>1, FirstAndLast
    <3>3. UpToNul(s) = SubSeq(s, 1, m - 1)
      BY <2>2 DEF UpToNul, UpTo
    <3> HIDE DEF m
    <3>4. m \in 1..Len(s) /\ s[m] = 0 /\ \A k \in 1..Len(s) : s[k] = 0 => m <= k
      BY <3>2
    <3>5. m - 1 \in 0..Len(s) /\ (m - 1) + 1 = m /\ \A k \in 1..(m - 1) : s[k] # 0
      BY <3>4
    <3> QED
      BY <3>3, <3>4, <3>5
  <2> QED
    BY <2>1, <2>2
<1>2. PICK n \in 0..Len(s) :
         /\ UpToNul(s) = SubSeq(s, 1, n) /\ \A k \in 1..n : s[k] # 0
         /\ n < Len(s) => s[n + 1] = 0
  BY <1>1
<1>3. /\ SubSeq(s, 1, n) \in Seq(Unit) /\ Len(SubSeq(s, 1, n)) = n
      /\ \A k \in 1..n : SubSeq(s, 1, n)[k] = s[k]
  <2>1. /\ SubSeq(s, 1, n) \in Seq(Unit) /\ Len(SubSeq(s, 1, n)) = n - 1 + 1
        /\ \A i \in 1..(n - 1 + 1) : SubSeq(s, 1, n)[i] = s[1 + i - 1]
    BY PartIs
  <2>2. n - 1 + 1 = n /\ \A i \in 1..n : 1 + i - 1 = i
    OBVIOUS
  <2> QED
    BY <2>1, <2>2
<1> QED
  BY <1>2, <1>3

\* The first NUL determines it.
LEMMA UpToNulOf ==
    ASSUME NEW s \in Seq(Unit), NEW n \in 0..Len(s), \A k \in 1..n : s[k] # 0,
           n < Len(s) => s[n + 1] = 0
    PROVE  UpToNul(s) = SubSeq(s, 1, n)
<1>1. PICK m \in 0..Len(s) :
         /\ UpToNul(s) = SubSeq(s, 1, m) /\ \A k \in 1..m : s[k] # 0
         /\ m < Len(s) => s[m + 1] = 0
  BY UpToNulIs
<1>2. m = n
  <2>1. CASE m < n
    <3>1. m + 1 \in 1..n /\ m < Len(s)
      BY <2>1
    <3> QED
      BY <1>1, <3>1
  <2>2. CASE n < m
    <3>1. n + 1 \in 1..m /\ n < Len(s)
      BY <2>2
    <3> QED
      BY <1>1, <3>1
  <2> QED
    BY <2>1, <2>2
<1> QED
  BY <1>1, <1>2

\* Without a NUL nothing is cut off.
LEMMA NoNul ==
    ASSUME NEW s \in Seq(Unit), ~HasNul(s)
    PROVE  UpToNul(s) = s
<1>1. {k \in 1..Len(s) : s[k] = 0} = {}
  BY DEF HasNul
<1> QED
  BY <1>1 DEF UpToNul

\* The bounds of what is left of a text without the blanks around it.
Bounds(s, f, l) ==
    /\ f \in 1..Len(s) /\ l \in 1..Len(s) /\ f <= l
    /\ s[f] \notin Blank /\ s[l] \notin Blank
    /\ \A k \in 1..Len(s) : k < f \/ l < k => s[k] \in Blank

LEMMA TrimIs ==
    ASSUME NEW s \in Seq(Unit)
    PROVE  \/ Trim(s) = <<>> /\ \A k \in 1..Len(s) : s[k] \in Blank
           \/ \E f, l : Bounds(s, f, l) /\ Trim(s) = SubSeq(s, f, l)
<1> DEFINE text == {k \in 1..Len(s) : s[k] \notin Blank}
<1>1. CASE text = {}
  <2>1. Trim(s) = <<>>
    BY <1>1 DEF Trim
  <2> QED
    BY <1>1, <2>1
<1>2. CASE text # {}
  <2> DEFINE f == Min(text)
  <2> DEFINE l == Max(text)
  <2>1. text \in SUBSET (1..Len(s)) /\ Len(s) \in Nat
    OBVIOUS
  <2>2. f \in text /\ l \in text /\ \A x \in text : f <= x /\ x <= l
    BY <1>2, <2>1, FirstAndLast
  <2>3. Trim(s) = SubSeq(s, f, l)
    BY <1>2 DEF Trim
  <2> HIDE DEF f, l
  <2>4. /\ f \in 1..Len(s) /\ l \in 1..Len(s) /\ f <= l
        /\ s[f] \notin Blank /\ s[l] \notin Blank
        /\ \A k \in 1..Len(s) : s[k] \notin Blank => f <= k /\ k <= l
    BY <2>2
  <2>5. Bounds(s, f, l)
    BY <2>4 DEF Bounds
  <2> QED
    BY <2>3, <2>5
<1> QED
  BY <1>1, <1>2

\* A text has one pair of them.
LEMMA TrimOf ==
    ASSUME NEW s \in Seq(Unit), NEW f, NEW l, Bounds(s, f, l)
    PROVE  Trim(s) = SubSeq(s, f, l)
<1>1. f \in 1..Len(s) /\ s[f] \notin Blank
  BY DEF Bounds
<1>2. PICK g, m : Bounds(s, g, m) /\ Trim(s) = SubSeq(s, g, m)
  BY <1>1, TrimIs
<1>3. /\ f \in Nat /\ l \in Nat /\ g \in Nat /\ m \in Nat
      /\ ~(f < g) /\ ~(g < f) /\ ~(l < m) /\ ~(m < l)
  BY <1>2 DEF Bounds
<1>4. f = g /\ l = m
  BY <1>3
<1> QED
  BY <1>2, <1>4

\* What is left of a text is a text, and one without blanks around it.
LEMMA TrimIsText ==
    ASSUME NEW s \in Seq(Unit)
    PROVE  Trim(s) \in Seq(Unit) /\ Trim(Trim(s)) = Trim(s)
<1>1. CASE Trim(s) = <<>>
  <2>1. <<>> \in Seq(Unit) /\ \A k \in 1..Len(<<>>) : FALSE
    OBVIOUS
  <2>2. Trim(<<>>) = <<>>
    BY <2>1, TrimIs DEF Bounds
  <2> QED
    BY <1>1, <2>1, <2>2
<1>2. ASSUME NEW f, NEW l, Bounds(s, f, l), Trim(s) = SubSeq(s, f, l)
      PROVE  Trim(s) \in Seq(Unit) /\ Trim(Trim(s)) = Trim(s)
  <2> DEFINE p == Trim(s)
  <2> DEFINE n == l - f + 1
  <2>1. /\ f \in Nat \ {0} /\ l \in 0..Len(s) /\ f <= l + 1 /\ n \in Nat \ {0}
        /\ f + 1 - 1 = f /\ f + n - 1 = l /\ n = l - f + 1
    BY <1>2 DEF Bounds
  <2>2. p \in Seq(Unit) /\ Len(p) = n /\ \A i \in 1..n : p[i] = s[f + i - 1]
    BY <1>2, <2>1, PartIs
  <2> HIDE DEF p, n
  <2>3. 1 \in 1..n /\ n \in 1..n
    BY <2>1
  <2>4. p[1] \notin Blank /\ p[n] \notin Blank
    BY <1>2, <2>1, <2>2, <2>3 DEF Bounds
  <2>5. \A k \in 1..n : ~(k < 1 \/ n < k)
    BY <2>1
  <2>6. Bounds(p, 1, n)
    BY <2>1, <2>2, <2>3, <2>4, <2>5 DEF Bounds
  <2>7. Trim(p) = SubSeq(p, 1, n)
    BY <2>2, <2>6, TrimOf
  <2> QED
    BY <2>2, <2>7, SubSeqFull DEF p
<1> QED
  BY <1>1, <1>2, TrimIs

\* What is found in the rest is in the text.
LEMMA InTrim ==
    ASSUME NEW s \in Seq(Unit), NEW t \in Seq(Unit), t # <<>>, HasText(Trim(s), t)
    PROVE  HasText(s, t)
<1>1. Trim(s) \in Seq(Unit) /\ Len(t) \in Nat \ {0}
  BY TrimIsText, EmptySeq
<1>2. PICK i \in 0..(Len(Trim(s)) - Len(t)) : \A j \in 1..Len(t) : Trim(s)[i + j] = t[j]
  BY <1>1, HasTextIs
<1>3. Trim(s) # <<>>
  BY <1>1, <1>2
<1>4. PICK f, l : Bounds(s, f, l) /\ Trim(s) = SubSeq(s, f, l)
  BY <1>3, TrimIs
<1>5. f \in Nat \ {0} /\ l \in 0..Len(s) /\ f <= l + 1
  BY <1>4 DEF Bounds
<1>6. Len(Trim(s)) = l - f + 1 /\ \A k \in 1..(l - f + 1) : Trim(s)[k] = s[f + k - 1]
  BY <1>4, <1>5, PartIs
<1>7. (f - 1) + i \in 0..(Len(s) - Len(t))
  BY <1>1, <1>5, <1>6
<1>8. ASSUME NEW j \in 1..Len(t) PROVE s[((f - 1) + i) + j] = t[j]
  <2>1. i + j \in 1..(l - f + 1) /\ f + (i + j) - 1 = ((f - 1) + i) + j
    BY <1>1, <1>5, <1>6
  <2> QED
    BY <1>2, <1>6, <2>1
<1> QED
  BY <1>7, <1>8, HasTextIs

\* Two bytes are a unit.
LEMMA UInt16Is == \A x : x \in UInt16 <=> x \in Int /\ 0 <= x /\ x <= 65535
<1> DEFINE top == 65535
<1>1. UInt16 = 0..top
  BY DEF UInt16
<1>2. top \in Int /\ \A x \in Int : x <= top <=> x <= 65535
  OBVIOUS
<1> HIDE DEF top
<1>3. \A x : x \in 0..top <=> x \in Int /\ 0 <= x /\ x <= top
  BY <1>2
<1> QED
  BY <1>1, <1>2, <1>3

LEMMA UnitOf == \A x, y \in Byte : x + 256 * y \in Unit
<1>1. \A x : x \in Byte => x \in Int /\ 0 <= x /\ x <= 255
  BY DEF Byte
<1>2. \A x : x \in Int /\ 0 <= x /\ x <= 65535 => x \in Unit
  BY UInt16Is DEF Unit
<1>3. \A x, y \in Int :
        0 <= x /\ x <= 255 /\ 0 <= y /\ y <= 255 =>
            x + 256 * y \in Int /\ 0 <= x + 256 * y /\ x + 256 * y <= 65535
  OBVIOUS
<1> QED
  BY <1>1, <1>2, <1>3

\* The units behind the header of a variable.
LEMMA UnitsIs ==
    ASSUME NEW b \in Seq(Byte), Header <= Len(b)
    PROVE  Units(b) \in Seq(Unit) /\ Len(Units(b)) = (Len(b) - Header) \div 2
<1> DEFINE n == (Len(b) - Header) \div 2
<1>1. n \in Nat /\ Header + 2 * n <= Len(b) /\ Header = 6
  BY DEF Header
<1>2. Units(b) = [k \in 1..n |-> b[Header + 2 * k - 1] + 256 * b[Header + 2 * k]]
  BY DEF Units
<1> HIDE DEF n
<1>3. ASSUME NEW k \in 1..n
      PROVE  b[Header + 2 * k - 1] + 256 * b[Header + 2 * k] \in Unit
  <2>1. Header + 2 * k - 1 \in 1..Len(b) /\ Header + 2 * k \in 1..Len(b)
    BY <1>1
  <2>2. b[Header + 2 * k - 1] \in Byte /\ b[Header + 2 * k] \in Byte
    BY <2>1, ElementOfSeq
  <2> QED
    BY <2>2, UnitOf
<1>4. Units(b) \in [1..n -> Unit]
  BY <1>2, <1>3
<1>5. Units(b) \in Seq(Unit) /\ Len(Units(b)) = n
  BY <1>1, <1>4
<1> QED
  BY <1>5 DEF n

\* The units that getBootDesc reads, without the last one if it is the end of the variable;
\* the buffer has room for more.
Str(b) == UpTo(Units(b), (Len(b) - Header - 1) \div 2)
Rest(b) == Len(b) \div 2 - Len(Str(b))

LEMMA StrIs ==
    ASSUME NEW b \in Seq(Byte), Header <= Len(b)
    PROVE  /\ Str(b) \in Seq(Unit) /\ Rest(b) \in Nat \ {0}
           /\ Len(Units(b)) \in {Len(Str(b)), Len(Str(b)) + 1}
           /\ \A k \in 1..Len(Str(b)) : Str(b)[k] = Units(b)[k]
<1> DEFINE n == Len(Units(b))
<1> DEFINE l == (Len(b) - Header - 1) \div 2
<1>1. Len(b) \in Nat /\ Header = 6
  BY DEF Header
<1>2. Units(b) \in Seq(Unit) /\ n = (Len(b) - Header) \div 2
  BY UnitsIs
<1>3. l \in Int /\ n \in Nat /\ l <= n /\ n <= l + 1 /\ n + 3 <= Len(b) \div 2
  BY <1>1, <1>2
<1> HIDE DEF n, l
<1>4. CASE l < 0
  <2>1. SubSeq(Units(b), 1, l) = <<>>
    BY <1>3, <1>4, SubSeqEmpty
  <2>2. Str(b) = <<>> /\ n = 0
    BY <1>3, <1>4, <2>1 DEF Str, UpTo, l
  <2> QED
    BY <1>1, <1>3, <2>2 DEF Rest, n
<1>5. CASE l >= 0
  <2>1. /\ l \in 0..n /\ 1 <= l + 1 /\ l - 1 + 1 = l
        /\ \A k \in 1..l : 1 + k - 1 = k
    BY <1>3, <1>5
  <2>2. /\ SubSeq(Units(b), 1, l) \in Seq(Unit) /\ Len(SubSeq(Units(b), 1, l)) = l - 1 + 1
        /\ \A k \in 1..(l - 1 + 1) : SubSeq(Units(b), 1, l)[k] = Units(b)[1 + k - 1]
    BY <1>2, <2>1, PartIs DEF n
  <2>3. Str(b) \in Seq(Unit) /\ Len(Str(b)) = l /\ \A k \in 1..l : Str(b)[k] = Units(b)[k]
    BY <2>1, <2>2 DEF Str, UpTo, l
  <2> QED
    BY <1>1, <1>3, <2>1, <2>3 DEF Rest, n
<1> QED
  BY <1>3, <1>4, <1>5

\* What is read of a variable: its description, or, if the end of that has not been seen,
\* all of it with zeros behind.
LEMMA DecodeIs ==
    ASSUME NEW b \in Seq(Byte), Header <= Len(b)
    PROVE  /\ HasNul(Str(b)) => Decode(b) = Description(b)
           /\ ~HasNul(Str(b)) => /\ Decode(b) = Trim(Str(b) \o Zeros(Rest(b)))
                                 /\ Description(b) \in {Str(b), Units(b)}
                                 /\ Terminated(b) => Description(b) = Str(b)
<1>0. Header = 6 /\ b # <<>>
  BY DEF Header
<1>1. Decode(b) = IF HasNul(Str(b)) THEN UpToNul(Str(b)) ELSE Trim(Str(b) \o Zeros(Rest(b)))
  BY <1>0 DEF Decode, Str, Rest
<1>2. /\ Units(b) \in Seq(Unit) /\ Str(b) \in Seq(Unit)
      /\ Len(Units(b)) \in {Len(Str(b)), Len(Str(b)) + 1}
      /\ \A k \in 1..Len(Str(b)) : Str(b)[k] = Units(b)[k]
  BY UnitsIs, StrIs
<1>3. Len(Units(b)) \in Nat /\ Len(Str(b)) \in Nat
  BY <1>2
<1>4. ASSUME HasNul(Str(b)) PROVE UpToNul(Str(b)) = Description(b)
  <2>1. PICK n \in 0..Len(Str(b)) :
          /\ UpToNul(Str(b)) = SubSeq(Str(b), 1, n) /\ UpToNul(Str(b)) \in Seq(Unit)
          /\ Len(UpToNul(Str(b))) = n
          /\ \A k \in 1..n : UpToNul(Str(b))[k] = Str(b)[k] /\ Str(b)[k] # 0
          /\ n < Len(Str(b)) => Str(b)[n + 1] = 0
    BY <1>2, UpToNulIs
  <2>2. n < Len(Str(b))
    BY <1>4, <2>1 DEF HasNul
  <2>3. n \in 0..Len(Units(b)) /\ \A k \in 1..n : k \in 1..Len(Str(b))
    BY <1>2, <1>3, <2>1
  <2>4. \A k \in 1..n : Units(b)[k] # 0 /\ Units(b)[k] = Str(b)[k]
    BY <1>2, <2>1, <2>3
  <2>5. n + 1 \in 1..Len(Str(b)) /\ Units(b)[n + 1] = 0
    BY <1>2, <1>3, <2>1, <2>2
  <2>6. UpToNul(Units(b)) = SubSeq(Units(b), 1, n)
    BY <1>2, <2>3, <2>4, <2>5, UpToNulOf
  <2>7. /\ SubSeq(Units(b), 1, n) \in Seq(Unit) /\ Len(SubSeq(Units(b), 1, n)) = n - 1 + 1
        /\ \A k \in 1..(n - 1 + 1) : SubSeq(Units(b), 1, n)[k] = Units(b)[1 + k - 1]
    BY <1>2, <2>3, PartIs
  <2>8. n - 1 + 1 = n /\ \A k \in 1..n : 1 + k - 1 = k
    BY <2>1
  <2>9. /\ UpToNul(Units(b)) \in Seq(Unit) /\ Len(UpToNul(Units(b))) = n
        /\ \A k \in 1..n : UpToNul(Units(b))[k] = Units(b)[k]
    BY <2>6, <2>7, <2>8
  <2>10. UpToNul(Units(b)) = UpToNul(Str(b))
    BY <2>1, <2>4, <2>9, SeqEqual
  <2> QED
    BY <2>10 DEF Description
<1>5. ASSUME ~HasNul(Str(b))
      PROVE  /\ Description(b) \in {Str(b), Units(b)}
             /\ Terminated(b) => Description(b) = Str(b)
  <2>1. \A k \in 1..Len(Str(b)) : Units(b)[k] # 0
    BY <1>2, <1>5 DEF HasNul
  <2>2. CASE ~HasNul(Units(b))
    BY <1>2, <2>2, NoNul DEF Description, Terminated
  <2>3. CASE HasNul(Units(b))
    <3> DEFINE n == Len(Str(b))
    <3>1. Len(Units(b)) = n + 1 /\ Units(b)[n + 1] = 0
      BY <1>2, <1>3, <2>1, <2>3 DEF HasNul
    <3>2. n \in 0..Len(Units(b))
      BY <1>3, <3>1
    <3>3. UpToNul(Units(b)) = SubSeq(Units(b), 1, n)
      BY <1>2, <2>1, <3>1, <3>2, UpToNulOf
    <3>4. /\ SubSeq(Units(b), 1, n) \in Seq(Unit) /\ Len(SubSeq(Units(b), 1, n)) = n - 1 + 1
          /\ \A k \in 1..(n - 1 + 1) : SubSeq(Units(b), 1, n)[k] = Units(b)[1 + k - 1]
      BY <1>2, <3>2, PartIs
    <3>5. n - 1 + 1 = n /\ \A k \in 1..n : 1 + k - 1 = k
      BY <1>3
    <3>6. /\ Description(b) \in Seq(Unit) /\ Len(Description(b)) = n
          /\ \A k \in 1..n : Description(b)[k] = Str(b)[k]
      BY <1>2, <3>3, <3>4, <3>5 DEF Description
    <3>7. Description(b) = Str(b)
      BY <1>2, <3>6, SeqEqual
    <3> QED
      BY <3>7
  <2> QED
    BY <2>2, <2>3
<1> QED
  BY <1>1, <1>4, <1>5

\* Zeros are a text with nothing in it.
LEMMA ZerosAre ==
    ASSUME NEW n \in Nat
    PROVE  /\ Zeros(n) \in Seq(Unit) /\ Zeros(n) \in Seq(Byte) /\ Len(Zeros(n)) = n
           /\ \A k \in 1..n : Zeros(n)[k] = 0
<1>1. Zeros(n) = [i \in 1..n |-> 0]
  BY DEF Zeros
<1>2. 0 \in Byte
  BY DEF Byte
<1> QED
  BY <1>1, <1>2, NulIs

\* A text with zeros behind it.
LEMMA PaddedIs ==
    ASSUME NEW s \in Seq(Unit), NEW n \in Nat
    PROVE  LET p == s \o Zeros(n)
           IN /\ p \in Seq(Unit) /\ Len(p) = Len(s) + n
              /\ \A k \in 1..Len(s) : p[k] = s[k]
              /\ \A k \in 1..Len(p) : k > Len(s) => p[k] = 0
<1> DEFINE p == s \o Zeros(n)
<1>1. Zeros(n) \in Seq(Unit) /\ Len(Zeros(n)) = n /\ \A k \in 1..n : Zeros(n)[k] = 0
  BY ZerosAre
<1>2. /\ p \in Seq(Unit) /\ Len(p) = Len(s) + n
      /\ \A k \in 1..(Len(s) + n) : p[k] = IF k <= Len(s) THEN s[k] ELSE Zeros(n)[k - Len(s)]
  BY <1>1, ConcatProperties
<1> HIDE DEF p
<1>3. Len(s) \in Nat
  OBVIOUS
<1>4. \A k \in 1..Len(s) : k \in 1..(Len(s) + n) /\ k <= Len(s)
  BY <1>3
<1>5. \A k \in 1..Len(p) : k > Len(s) => k - Len(s) \in 1..n /\ ~(k <= Len(s))
  BY <1>2, <1>3
<1>6. \A k \in 1..Len(s) : p[k] = s[k]
  BY <1>2, <1>4
<1>7. \A k \in 1..Len(p) : k > Len(s) => p[k] = 0
  BY <1>1, <1>2, <1>5
<1> QED
  BY <1>2, <1>6, <1>7 DEF p

\* A text without NUL is not found in the zeros.
LEMMA InPadded ==
    ASSUME NEW s \in Seq(Unit), NEW n \in Nat, NEW t \in Seq(Unit), t # <<>>, ~HasNul(t),
           HasText(s \o Zeros(n), t)
    PROVE  HasText(s, t)
<1> DEFINE p == s \o Zeros(n)
<1>1. /\ p \in Seq(Unit) /\ Len(p) = Len(s) + n
      /\ \A k \in 1..Len(s) : p[k] = s[k]
      /\ \A k \in 1..Len(p) : k > Len(s) => p[k] = 0
  BY PaddedIs
<1>2. HasText(p, t)
  OBVIOUS
<1> HIDE DEF p
<1>3. PICK i \in 0..(Len(p) - Len(t)) : \A j \in 1..Len(t) : p[i + j] = t[j]
  BY <1>1, <1>2, HasTextIs
<1>4. Len(t) \in Nat \ {0} /\ Len(s) \in Nat
  BY EmptySeq
<1>5. ASSUME i + Len(t) > Len(s) PROVE FALSE
  <2>1. Len(t) \in 1..Len(t) /\ i + Len(t) \in 1..Len(p)
    BY <1>1, <1>3, <1>4
  <2>2. t[Len(t)] = 0
    BY <1>1, <1>3, <1>5, <2>1
  <2> QED
    BY <2>1, <2>2 DEF HasNul
<1>6. i \in 0..(Len(s) - Len(t)) /\ \A j \in 1..Len(t) : i + j \in 1..Len(s)
  BY <1>3, <1>4, <1>5
<1>7. \A j \in 1..Len(t) : s[i + j] = t[j]
  BY <1>1, <1>3, <1>6
<1> QED
  BY <1>6, <1>7, HasTextIs

\* What is found in the beginning of a text is in the text.
LEMMA InPrefix ==
    ASSUME NEW s \in Seq(Unit), NEW r \in Seq(Unit), NEW t \in Seq(Unit), HasText(s, t),
           Len(s) <= Len(r), \A k \in 1..Len(s) : s[k] = r[k]
    PROVE  HasText(r, t)
<1>1. PICK i \in 0..(Len(s) - Len(t)) : \A j \in 1..Len(t) : s[i + j] = t[j]
  BY HasTextIs
<1>2. /\ i \in 0..(Len(r) - Len(t))
      /\ \A j \in 1..Len(t) : i + j \in 1..Len(s)
  OBVIOUS
<1>3. \A j \in 1..Len(t) : r[i + j] = t[j]
  BY <1>1, <1>2
<1> QED
  BY <1>2, <1>3, HasTextIs

LEMMA EmptyText == <<>> \in Seq(Unit) /\ Trim(<<>>) = <<>> /\ UpToNul(<<>>) = <<>>
<1>1. <<>> \in Seq(Unit) /\ \A k \in 1..Len(<<>>) : FALSE
  OBVIOUS
<1>2. Trim(<<>>) = <<>>
  BY <1>1, TrimIs DEF Bounds
<1>3. UpToNul(<<>>) = <<>>
  BY <1>1, NoNul DEF HasNul
<1> QED
  BY <1>1, <1>2, <1>3

LEMMA NotInEmpty ==
    ASSUME NEW t \in Seq(Unit), t # <<>>
    PROVE  ~HasText(<<>>, t)
<1>1. Len(t) \in Nat /\ Len(t) # 0
  BY EmptySeq
<1>2. Len(<<>>) = 0 /\ 0..(0 - Len(t)) = {}
  BY <1>1
<1> QED
  BY <1>2 DEF HasText

\* The zeros behind a text keep the blanks in front of them, but nothing else is between
\* the text and the first NUL.
LEMMA TrimPadded ==
    ASSUME NEW s \in Seq(Unit), NEW n \in Nat \ {0}, ~HasNul(s)
    PROVE  Trim(UpToNul(Trim(s \o Zeros(n)))) \in {Trim(s), <<>>}
<1> DEFINE p == s \o Zeros(n)
<1> DEFINE q == Trim(p)
<1>1. /\ p \in Seq(Unit) /\ Len(p) = Len(s) + n
      /\ \A k \in 1..Len(s) : p[k] = s[k]
      /\ \A k \in 1..Len(p) : k > Len(s) => p[k] = 0
  BY PaddedIs
<1> HIDE DEF p
<1>2. CASE q = <<>>
  BY <1>2, EmptyText DEF p
<1>3. ASSUME NEW f, NEW l, Bounds(p, f, l), q = SubSeq(p, f, l)
      PROVE  Trim(UpToNul(q)) \in {Trim(s), <<>>}
  <2> HIDE DEF q
  <2>1. Len(s) \in Nat /\ Len(p) \in 1..Len(p) /\ Len(p) > Len(s)
    BY <1>1
  <2>2. p[Len(p)] = 0
    BY <1>1, <2>1
  <2>3. /\ f \in 1..Len(p) /\ l \in 1..Len(p) /\ f <= l /\ p[f] \notin Blank
        /\ \A k \in 1..Len(p) : k < f \/ l < k => p[k] \in Blank
    BY <1>3 DEF Bounds
  <2>4. ~(l < Len(p))
    BY <2>1, <2>2, <2>3, NulIs
  <2>5. l = Len(p) /\ l = Len(s) + n
    BY <1>1, <2>1, <2>3, <2>4
  <2>6. f \in Nat \ {0} /\ l \in 0..Len(p) /\ f <= l + 1
    BY <2>1, <2>3
  <2>7. /\ q \in Seq(Unit) /\ Len(q) = l - f + 1
        /\ \A i \in 1..(l - f + 1) : q[i] = p[f + i - 1]
    BY <1>1, <1>3, <2>6, PartIs
  <2>8. CASE f > Len(s)
    <3>1. 1 \in 1..(l - f + 1) /\ f + 1 - 1 = f
      BY <2>3, <2>6
    <3>2. q[1] = 0
      BY <1>1, <2>3, <2>7, <2>8, <3>1
    <3>3. 0 \in 0..Len(q) /\ 0 + 1 = 1 /\ \A k \in 1..0 : FALSE
      BY <2>7, <3>1
    <3>4. UpToNul(q) = SubSeq(q, 1, 0)
      BY <2>7, <3>2, <3>3, UpToNulOf
    <3>5. SubSeq(q, 1, 0) = <<>>
      BY SubSeqEmpty
    <3> QED
      BY <3>4, <3>5, EmptyText
  <2>9. CASE f <= Len(s)
    <3> DEFINE m == Len(s) - f + 1
    <3> DEFINE r == UpToNul(q)
    <3>1. /\ m \in 1..Len(s) /\ m \in 0..Len(q) /\ m < Len(q) /\ m + 1 \in 1..(l - f + 1)
          /\ f + (m + 1) - 1 = Len(s) + 1 /\ Len(s) + 1 \in 1..Len(p) /\ f + m - 1 = Len(s)
      BY <2>1, <2>3, <2>5, <2>7, <2>9
    <3> HIDE DEF m
    <3>2. q[m + 1] = 0
      <4>1. q[m + 1] = p[Len(s) + 1]
        BY <2>7, <3>1
      <4>2. Len(s) + 1 > Len(s)
        BY <2>1
      <4> QED
        BY <1>1, <3>1, <4>1, <4>2
    <3>3. ASSUME NEW k \in 1..m
          PROVE  q[k] = s[f + k - 1] /\ f + k - 1 \in 1..Len(s) /\ q[k] # 0
      <4>1. k \in 1..(l - f + 1) /\ f + k - 1 \in 1..Len(s)
        BY <2>3, <2>6, <3>1
      <4>2. q[k] = s[f + k - 1]
        BY <1>1, <2>7, <4>1
      <4> QED
        BY <4>1, <4>2 DEF HasNul
    <3>4. r = SubSeq(q, 1, m)
      BY <2>7, <3>1, <3>2, <3>3, UpToNulOf
    <3>5. r \in Seq(Unit) /\ Len(r) = m /\ \A k \in 1..m : r[k] = s[f + k - 1]
      <4>1. 1 <= m + 1 /\ m - 1 + 1 = m /\ \A k \in 1..m : 1 + k - 1 = k
        BY <3>1
      <4>2. /\ SubSeq(q, 1, m) \in Seq(Unit) /\ Len(SubSeq(q, 1, m)) = m - 1 + 1
            /\ \A k \in 1..(m - 1 + 1) : SubSeq(q, 1, m)[k] = q[1 + k - 1]
        BY <2>7, <3>1, <4>1, PartIs
      <4> QED
        BY <3>3, <3>4, <4>1, <4>2
    <3> HIDE DEF r
    <3>6. f \in 1..Len(s) /\ s[f] \notin Blank
      <4>1. f \in 1..Len(s)
        BY <2>6, <2>9
      <4> QED
        BY <1>1, <2>3, <4>1
    <3>7. PICK g, h : Bounds(s, g, h) /\ Trim(s) = SubSeq(s, g, h)
      BY <3>6, TrimIs
    <3>8. /\ g \in 1..Len(s) /\ h \in 1..Len(s) /\ g <= h /\ s[g] \notin Blank
          /\ s[h] \notin Blank
          /\ \A k \in 1..Len(s) : k < g \/ h < k => s[k] \in Blank
      BY <3>7 DEF Bounds
    <3>9. g = f
      <4>1. ~(f < g)
        BY <3>6, <3>8
      <4>2. ~(g < f)
        <5>1. g \in 1..Len(p) /\ p[g] = s[g]
          BY <1>1, <2>1, <3>8
        <5> QED
          BY <2>3, <3>8, <5>1
      <4> QED
        BY <2>6, <3>8, <4>1, <4>2
    <3> DEFINE e == h - f + 1
    <3>10. /\ e \in 1..m /\ 1 \in 1..m /\ 1 <= e /\ f + e - 1 = h /\ f + 1 - 1 = f
           /\ h \in 0..Len(s) /\ f <= h + 1 /\ e = h - f + 1
      BY <2>1, <2>6, <3>1, <3>8, <3>9 DEF m
    <3> HIDE DEF e
    <3>11. ASSUME NEW k \in 1..m, k < 1 \/ e < k PROVE r[k] \in Blank
      <4>1. f + k - 1 \in 1..Len(s) /\ h < f + k - 1
        BY <2>6, <3>3, <3>8, <3>10, <3>11
      <4> QED
        BY <3>5, <3>8, <4>1
    <3>12. Bounds(r, 1, e)
      <4>1. r[1] \notin Blank /\ r[e] \notin Blank
        BY <3>5, <3>6, <3>8, <3>10
      <4> QED
        BY <3>5, <3>10, <3>11, <4>1 DEF Bounds
    <3>13. Trim(r) = SubSeq(r, 1, e)
      BY <3>5, <3>12, TrimOf
    <3>14. /\ Trim(s) \in Seq(Unit) /\ Len(Trim(s)) = e
           /\ \A k \in 1..e : Trim(s)[k] = s[f + k - 1]
      BY <2>6, <3>7, <3>9, <3>10, PartIs
    <3>15. /\ Trim(r) \in Seq(Unit) /\ Len(Trim(r)) = e
           /\ \A k \in 1..e : Trim(r)[k] = r[k]
      <4>1. 1 <= e + 1 /\ e - 1 + 1 = e /\ \A k \in 1..e : 1 + k - 1 = k
        BY <3>10
      <4>2. e \in 0..Len(r)
        BY <3>1, <3>5, <3>10
      <4>3. /\ SubSeq(r, 1, e) \in Seq(Unit) /\ Len(SubSeq(r, 1, e)) = e - 1 + 1
            /\ \A k \in 1..(e - 1 + 1) : SubSeq(r, 1, e)[k] = r[1 + k - 1]
        BY <3>5, <4>1, <4>2, PartIs
      <4> QED
        BY <3>13, <4>1, <4>3
    <3>16. \A k \in 1..e : k \in 1..m
      BY <3>1, <3>10
    <3>17. \A k \in 1..e : Trim(r)[k] = Trim(s)[k]
      BY <3>5, <3>14, <3>15, <3>16
    <3> QED
      BY <3>14, <3>15, <3>17, SeqEqual DEF r
  <2> QED
    BY <2>1, <2>6, <2>8, <2>9
<1>4. CASE \E f, l : Bounds(p, f, l) /\ q = SubSeq(p, f, l)
  BY <1>3, <1>4 DEF p
<1> QED
  BY <1>1, <1>2, <1>4, TrimIs

\* What is found in what is read of a variable is in its description.
LEMMA FoundIsThere ==
    ASSUME NEW b \in Seq(Byte), Header <= Len(b), NEW t \in Seq(Unit), t # <<>>, ~HasNul(t),
           HasText(Trim(Decode(b)), t)
    PROVE  HasText(Description(b), t)
<1>1. /\ Units(b) \in Seq(Unit) /\ Str(b) \in Seq(Unit) /\ Rest(b) \in Nat
      /\ Len(Units(b)) \in {Len(Str(b)), Len(Str(b)) + 1}
      /\ \A k \in 1..Len(Str(b)) : Str(b)[k] = Units(b)[k]
  BY UnitsIs, StrIs
<1>2. CASE HasNul(Str(b))
  <2>1. Decode(b) = Description(b)
    BY <1>2, DecodeIs
  <2>2. Description(b) \in Seq(Unit)
    BY <1>1, UpToNulIs DEF Description
  <2> QED
    BY <2>1, <2>2, InTrim
<1>3. CASE ~HasNul(Str(b))
  <2> DEFINE p == Str(b) \o Zeros(Rest(b))
  <2>1. Decode(b) = Trim(p) /\ Description(b) \in {Str(b), Units(b)}
    BY <1>3, DecodeIs
  <2>2. p \in Seq(Unit)
    BY <1>1, PaddedIs
  <2>3. Trim(p) \in Seq(Unit)
    BY <2>2, TrimIsText
  <2>4. HasText(p, t)
    BY <2>1, <2>2, <2>3, InTrim
  <2>5. HasText(Str(b), t)
    BY <1>1, <2>4, InPadded
  <2>6. Len(Str(b)) <= Len(Units(b))
    <3>1. Len(Str(b)) \in Nat
      BY <1>1
    <3> QED
      BY <1>1, <3>1
  <2>7. HasText(Units(b), t)
    BY <1>1, <2>5, <2>6, InPrefix
  <2> QED
    BY <2>1, <2>5, <2>7
<1> QED
  BY <1>2, <1>3

\* What is read of a variable whose description has an end is that, or nothing.
LEMMA ReadIsText ==
    ASSUME NEW b \in Seq(Byte), Header <= Len(b),
           HasNul(Str(b)) \/ Description(b) = Str(b)
    PROVE  Trim(UpToNul(Trim(Decode(b)))) \in {Trim(Description(b)), <<>>}
<1>1. Units(b) \in Seq(Unit) /\ Str(b) \in Seq(Unit) /\ Rest(b) \in Nat \ {0}
  BY UnitsIs, StrIs
<1>2. CASE HasNul(Str(b))
  <2> DEFINE d == Description(b)
  <2>1. Decode(b) = d
    BY <1>2, DecodeIs
  <2>2. d \in Seq(Unit) /\ ~HasNul(d)
    BY <1>1, UpToNulIs DEF Description, HasNul
  <2> HIDE DEF d
  <2>3. Trim(d) \in Seq(Unit) /\ Trim(Trim(d)) = Trim(d)
    BY <2>2, TrimIsText
  <2>4. ~HasNul(Trim(d))
    <3>1. CASE Trim(d) = <<>>
      BY <3>1 DEF HasNul
    <3>2. ASSUME NEW f, NEW l, Bounds(d, f, l), Trim(d) = SubSeq(d, f, l)
          PROVE  ~HasNul(Trim(d))
      <4>1. f \in Nat \ {0} /\ l \in 0..Len(d) /\ f <= l + 1
        BY <3>2 DEF Bounds
      <4>2. Len(Trim(d)) = l - f + 1 /\ \A i \in 1..(l - f + 1) : Trim(d)[i] = d[f + i - 1]
        BY <2>2, <3>2, <4>1, PartIs
      <4>3. \A i \in 1..(l - f + 1) : f + i - 1 \in 1..Len(d)
        BY <4>1
      <4> QED
        BY <2>2, <4>2, <4>3 DEF HasNul
    <3> QED
      BY <2>2, <3>1, <3>2, TrimIs
  <2>5. UpToNul(Trim(d)) = Trim(d)
    BY <2>3, <2>4, NoNul
  <2> QED
    BY <2>1, <2>3, <2>5 DEF d
<1>3. CASE ~HasNul(Str(b))
  <2> DEFINE p == Str(b) \o Zeros(Rest(b))
  <2>1. Decode(b) = Trim(p) /\ Description(b) = Str(b)
    BY <1>3, DecodeIs
  <2>2. p \in Seq(Unit)
    BY <1>1, PaddedIs
  <2>3. Trim(Trim(p)) = Trim(p)
    BY <2>2, TrimIsText
  <2>4. Trim(UpToNul(Trim(p))) \in {Trim(Str(b)), <<>>}
    BY <1>1, <1>3, TrimPadded
  <2> QED
    BY <2>1, <2>3, <2>4
<1> QED
  BY <1>2, <1>3

\* A read that fails leaves zeros, which are no text.
LEMMA ZerosRead ==
    ASSUME NEW n \in Nat, ~Panics(Zeros(n))
    PROVE  /\ Trim(UpToNul(Trim(Decode(Zeros(n))))) = <<>>
           /\ \A t \in Seq(Unit) : t # <<>> /\ ~HasNul(t) => ~HasText(Trim(Decode(Zeros(n))), t)
<1> DEFINE b == Zeros(n)
<1>1. /\ b \in Seq(Byte) /\ Len(b) = n /\ \A k \in 1..n : b[k] = 0
  BY ZerosAre
<1>2. CASE n = 0
  <2>1. b = <<>>
    BY <1>1, <1>2, EmptySeq
  <2>2. Decode(b) = <<>>
    BY <2>1 DEF Decode
  <2>3. \A t \in Seq(Unit) : t # <<>> => ~HasText(<<>>, t)
    BY NotInEmpty
  <2> QED
    BY <2>2, <2>3, EmptyText
<1>3. CASE n # 0
  <2>1. Header <= Len(b)
    <3>1. ~(Len(b) \in 1..(Header - 1)) /\ Header = 6
      BY DEF Panics, Header
    <3> QED
      BY <1>1, <1>3, <3>1
  <2> DEFINE u == Units(b)
  <2> DEFINE m == (Len(b) - Header) \div 2
  <2>2. u \in Seq(Unit) /\ Len(u) = m
    BY <1>1, <2>1, UnitsIs
  <2>3. m \in Nat /\ Header + 2 * m <= n /\ Header = 6
    BY <1>1, <2>1 DEF Header
  <2>4. u = [k \in 1..m |-> b[Header + 2 * k - 1] + 256 * b[Header + 2 * k]]
    BY DEF Units
  <2> HIDE DEF b, m, u
  <2>5. ASSUME NEW k \in 1..m PROVE u[k] = 0
    <3>1. Header + 2 * k - 1 \in 1..n /\ Header + 2 * k \in 1..n
      BY <2>3
    <3>2. b[Header + 2 * k - 1] = 0 /\ b[Header + 2 * k] = 0
      BY <1>1, <3>1
    <3> QED
      BY <2>4, <3>2
  <2>6. Description(b) = <<>>
    <3>1. PICK l \in 0..Len(u) : UpToNul(u) = SubSeq(u, 1, l) /\ \A k \in 1..l : u[k] # 0
      BY <2>2, UpToNulIs
    <3>2. l = 0
      <4>1. l # 0 => 1 \in 1..l /\ 1 \in 1..m
        BY <2>2, <2>3, <3>1
      <4> QED
        BY <2>5, <3>1, <4>1
    <3> QED
      BY <3>1, <3>2, SubSeqEmpty DEF Description, u
  <2>7. HasNul(Str(b)) \/ Description(b) = Str(b)
    <3> SUFFICES ASSUME ~HasNul(Str(b)) PROVE Str(b) = <<>>
      BY <2>6
    <3>1. /\ Str(b) \in Seq(Unit) /\ \A k \in 1..Len(Str(b)) : Str(b)[k] = u[k]
          /\ Len(u) \in {Len(Str(b)), Len(Str(b)) + 1}
      BY <1>1, <2>1, StrIs DEF u
    <3>2. Len(Str(b)) # 0 => 1 \in 1..Len(Str(b)) /\ 1 \in 1..m
      BY <2>2, <2>3, <3>1
    <3>3. Len(Str(b)) = 0
      BY <2>5, <3>1, <3>2 DEF HasNul
    <3> QED
      BY <3>1, <3>3, EmptySeq
  <2>8. Trim(UpToNul(Trim(Decode(b)))) = <<>>
    <3>1. Trim(UpToNul(Trim(Decode(b)))) \in {Trim(Description(b)), <<>>}
      BY <1>1, <2>1, <2>7, ReadIsText
    <3> QED
      BY <2>6, <3>1, EmptyText
  <2>9. ASSUME NEW t \in Seq(Unit), t # <<>>, ~HasNul(t), HasText(Trim(Decode(b)), t)
        PROVE  FALSE
    <3>1. HasText(<<>>, t)
      BY <1>1, <2>1, <2>6, <2>9, FoundIsThere
    <3> QED
      BY <2>9, <3>1, NotInEmpty
  <2> QED
    BY <2>8, <2>9 DEF b
<1> QED
  BY <1>2, <1>3
--------------------------------------------------------------------------------
\* What BootEntries has noted of an entry: nothing, or what the entry has for a text.
Heard(t, e) == t # <<>> => e \in DOMAIN boot /\ IsTextOf(t, e)

\* What the handler has read so far.
ReadPart(k) ==
    /\ k.search \in Text \cup {<<>>}
    /\ k.pc = "new" => k = NewCall
    /\ k.kind # "list" => k.listed = <<>>
    /\ Between(k) /\ k.kind = "list" => Len(k.listed) = k.i - 1
    /\ \A n \in 1..Len(k.listed) : k.read[n] < 10 => Heard(k.listed[n], k.read[n])
    /\ k.target > 0 /\ k.search # <<>> /\ k.read[k.target] < 10 =>
           Describes(k.read[k.target], k.search)

\* The types, in two parts: what is not the calls' own, and what is.
MachineTyped ==
    /\ order \in Seq(Entry) /\ first \in Seq(Entry)
    /\ DOMAIN boot \subseteq Entry /\ \A e \in DOMAIN boot : boot[e] \in Content
    /\ deleted \subseteq DOMAIN boot
    /\ machine \in {"up", "restarting", "down"} /\ alive \in BOOLEAN
    /\ moved \subseteq Entry /\ added \subseteq Entry /\ raced \subseteq added \cup deleted

Reader(k) == k \in CallState /\ k.target <= Len(k.read) /\ ReadPart(k)
Readers == calls \in [Call -> CallState] /\ \A c \in Call : Reader(calls[c])

RInv == MachineTyped /\ Readers

LEMMA RInvTyped == RInv => TypeOK
BY DEF RInv, MachineTyped, Readers, Reader, TypeOK

\* No variable that is there changes or goes away, so what was read of it stays true.
LEMMA ReadKept ==
    ASSUME \A v \in DOMAIN boot : v \in DOMAIN boot' /\ boot'[v] = boot[v]
    PROVE  \A k : Reader(k) => Reader(k)'
<1>1. \A t, e : Heard(t, e) => Heard(t, e)'
  BY DEF Heard, IsTextOf
<1>2. \A e, t : Describes(e, t) => Describes(e, t)'
  BY DEF Describes
<1>3. \A k : ReadPart(k) => ReadPart(k)'
  BY <1>1, <1>2 DEF ReadPart, Between
<1> QED
  BY <1>3 DEF Reader

\* One call's step; the others have read what they have.
LEMMA ReadersStep ==
    ASSUME RInv, NEW c \in Call, NEW s, Becomes(c, s), Reader(s), UNCHANGED boot
    PROVE  Readers'
<1>1. \A k : Reader(k) => Reader(k)'
  BY ReadKept
<1>2. calls' = [calls EXCEPT ![c] = s] /\ calls \in [Call -> CallState] /\ s \in CallState
  BY DEF Becomes, RInv, Readers, Reader
<1>3. calls' \in [Call -> CallState] /\ \A d \in Call : calls'[d] \in {calls[d], s}
  BY <1>2
<1>4. ASSUME NEW d \in Call PROVE Reader(calls[d])'
  <2>1. PICK k : k = calls'[d] /\ (k = calls[d] \/ k = s)
    BY <1>3
  <2>2. Reader(k)
    BY <2>1 DEF RInv, Readers
  <2> QED
    BY <1>1, <2>1, <2>2
<1> QED
  BY <1>3, <1>4 DEF Readers

LEMMA ReadOneCall ==
    ASSUME RInv, NEW c \in Call, NEW s, Becomes(c, s), Reader(s), UNCHANGED Locals
    PROVE  RInv'
<1>1. Readers'
  BY ReadersStep DEF Locals
<1> QED
  BY <1>1 DEF RInv, MachineTyped, Locals

\* A call that has read nothing, whatever else it knows.
LEMMA FreshReader ==
    ASSUME NEW s \in CallState, s.search \in Text \cup {<<>>}, s.target = 0, s.listed = <<>>,
           s.i = 1, s.pc = "new" => s = NewCall
    PROVE  Reader(s)
<1>1. Len(<<>>) = 0 /\ 1 - 1 = 0 /\ \A n \in 1..0 : FALSE
  OBVIOUS
<1>2. Len(s.read) \in Nat
  BY DEF CallState
<1> QED
  BY <1>1, <1>2 DEF Reader, ReadPart

LEMMA NewIsFresh ==
    /\ NewCall \in CallState /\ NewCall.pc = "new" /\ NewCall.search = <<>>
    /\ NewCall.target = 0 /\ NewCall.listed = <<>> /\ NewCall.i = 1
<1>1. <<>> \in Seq(Entry) /\ <<>> \in Seq(Unit) /\ <<>> \in Seq(Seq(Unit))
  OBVIOUS
<1> QED
  BY <1>1 DEF NewCall, CallState

LEMMA DoneIsFresh == Reader([NewCall EXCEPT !.pc = "done"])
<1> DEFINE s == [NewCall EXCEPT !.pc = "done"]
<1>1. /\ s \in CallState /\ s.pc = "done" /\ s.search = <<>> /\ s.target = 0
      /\ s.listed = <<>> /\ s.i = 1
  BY NewIsFresh DEF CallState
<1> HIDE DEF s
<1>2. Reader(s)
  BY <1>1, FreshReader
<1> QED
  BY <1>2 DEF s

LEMMA ReadAnswered ==
    ASSUME RInv, NEW c \in Call, Answers(c), UNCHANGED Locals
    PROVE  RInv'
BY DoneIsFresh, ReadOneCall DEF Answers

LEMMA TextIsUnits == \A t \in Text : t \in Seq(Unit) /\ ~HasNul(t)
<1> SUFFICES ASSUME NEW t \in Text PROVE t \in Seq(Unit) /\ ~HasNul(t)
  OBVIOUS
<1>1. t \in Seq(Unit \ {0}) /\ Unit \ {0} \subseteq Unit
  BY TextAssumption
<1>2. \A i \in 1..Len(t) : t[i] \in Unit \ {0}
  BY <1>1, ElementOfSeq
<1> QED
  BY <1>1, <1>2, SeqMonotonic DEF HasNul

LEMMA ReadFirstStep ==
    ASSUME RInv, NEW c \in Call, GetOrder(c) \/ GetEntries(c) \/ PlainOrder(c)
    PROVE  RInv'
<1>1. UNCHANGED Locals /\ calls[c] = NewCall /\ order \in Seq(Entry)
  BY DEF GetOrder, GetEntries, PlainOrder, At, RInv, Readers, Reader, ReadPart, MachineTyped
<1>2. CASE GetOrder(c)
  <2>1. PICK u \in Text : Becomes(c, [NewCall EXCEPT !.pc = "size", !.kind = "order",
                                                     !.search = u, !.read = order])
    BY <1>1, <1>2 DEF GetOrder
  <2> DEFINE s == [NewCall EXCEPT !.pc = "size", !.kind = "order", !.search = u,
                                  !.read = order]
  <2>2. u \in Seq(Unit)
    BY TextIsUnits
  <2>3. /\ s \in CallState /\ s.pc = "size" /\ s.search = u /\ s.target = 0
        /\ s.listed = <<>> /\ s.i = 1
    BY <1>1, <2>2, NewIsFresh DEF CallState
  <2>4. Becomes(c, s)
    BY <2>1
  <2> HIDE DEF s
  <2>5. Reader(s)
    BY <2>3, FreshReader
  <2> QED
    BY <1>1, <2>4, <2>5, ReadOneCall
<1>3. CASE GetEntries(c)
  <2> DEFINE s == [NewCall EXCEPT !.pc = "size", !.kind = "list", !.read = order]
  <2>1. /\ s \in CallState /\ s.pc = "size" /\ s.search = <<>> /\ s.target = 0
        /\ s.listed = <<>> /\ s.i = 1
    BY <1>1, NewIsFresh DEF CallState
  <2>2. Becomes(c, s)
    BY <1>1, <1>3 DEF GetEntries
  <2> HIDE DEF s
  <2>3. Reader(s)
    BY <2>1, FreshReader
  <2> QED
    BY <1>1, <2>2, <2>3, ReadOneCall
<1>4. CASE PlainOrder(c)
  <2> DEFINE s == [NewCall EXCEPT !.pc = "restart"]
  <2>1. /\ s \in CallState /\ s.pc = "restart" /\ s.search = <<>> /\ s.target = 0
        /\ s.listed = <<>> /\ s.i = 1
    BY NewIsFresh DEF CallState
  <2>2. Becomes(c, s)
    BY <1>1, <1>4 DEF PlainOrder
  <2> HIDE DEF s
  <2>3. Reader(s)
    BY <2>1, FreshReader
  <2> QED
    BY <1>1, <2>2, <2>3, ReadOneCall
<1> QED
  BY <1>2, <1>3, <1>4

\* A text that is a description, or has nothing in it, as far as the number is a low one.
Faithful(desc, e) ==
    e < 10 => Heard(desc, e) /\ \A t \in Text : t # <<>> /\ HasText(desc, t) => Describes(e, t)

LEMMA LookFaithful ==
    ASSUME RInv, NEW c \in Call, Between(calls[c]), calls[c].i <= Len(calls[c].read),
           NEW desc \in Seq(Unit), Faithful(desc, calls[c].read[calls[c].i]), Look(c, desc)
    PROVE  \E s : Becomes(c, s) /\ Reader(s)
<1> DEFINE k == calls[c]
<1> DEFINE e == k.read[k.i]
<1> DEFINE hit == k.kind = "order" /\ HasText(desc, k.search)
<1> DEFINE next == k.i + 1
<1> DEFINE target == IF hit THEN k.i ELSE k.target
<1> DEFINE listed == IF k.kind = "list" THEN Append(k.listed, desc) ELSE k.listed
<1> DEFINE s == [k EXCEPT !.pc = "size", !.i = next, !.target = target, !.listed = listed]
<1>1. Becomes(c, s)
  BY DEF Look
<1>2. Reader(k) /\ Between(k) /\ k.i <= Len(k.read) /\ Faithful(desc, e)
  BY DEF RInv, Readers
<1> HIDE DEF k
<1>3. /\ k \in CallState /\ k.i \in Nat \ {0} /\ k.target \in Nat /\ k.target <= Len(k.read)
      /\ k.listed \in Seq(Seq(Unit)) /\ ReadPart(k)
  BY <1>2 DEF Reader, CallState
<1>4. next \in Nat \ {0} /\ next - 1 = k.i /\ target \in Nat /\ target <= Len(k.read)
  <2>1. next \in Nat \ {0} /\ next - 1 = k.i
    BY <1>3
  <2>2. target \in {k.i, k.target}
    OBVIOUS
  <2> HIDE DEF target
  <2>3. target \in Nat /\ target <= Len(k.read)
    BY <1>2, <1>3, <2>2
  <2> QED
    BY <2>1, <2>3
<1>5. /\ listed \in Seq(Seq(Unit))
      /\ k.kind # "list" => listed = k.listed
      /\ k.kind = "list" => /\ Len(listed) = Len(k.listed) + 1
                            /\ listed[Len(k.listed) + 1] = desc
                            /\ \A n \in 1..Len(k.listed) : listed[n] = k.listed[n]
  BY <1>3, AppendProperties
<1>6. target # k.target => target = k.i /\ HasText(desc, k.search)
  OBVIOUS
<1> HIDE DEF next, target, listed
<1>7. /\ s \in CallState /\ s.pc = "size" /\ s.kind = k.kind /\ s.search = k.search
      /\ s.read = k.read /\ s.i = next /\ s.target = target /\ s.listed = listed
  BY <1>3, <1>4, <1>5 DEF CallState
<1> HIDE DEF s
<1>8. k.kind = "list" => Len(listed) = next - 1 /\ Len(k.listed) = k.i - 1
  BY <1>2, <1>3, <1>4, <1>5 DEF ReadPart
<1>9. ASSUME NEW n \in 1..Len(listed), k.read[n] < 10 PROVE Heard(listed[n], k.read[n])
  <2>1. CASE k.kind # "list"
    BY <1>3, <1>5, <1>9, <2>1 DEF ReadPart
  <2>2. CASE k.kind = "list" /\ n \in 1..Len(k.listed)
    <3>1. listed[n] = k.listed[n]
      BY <1>5, <2>2
    <3> QED
      BY <1>3, <1>9, <2>2, <3>1 DEF ReadPart
  <2>3. CASE k.kind = "list" /\ n \notin 1..Len(k.listed)
    <3>1. n = k.i /\ n = Len(k.listed) + 1
      <4>1. Len(listed) = k.i /\ Len(k.listed) = k.i - 1
        BY <1>4, <1>8, <2>3
      <4> QED
        BY <1>3, <1>9, <2>3, <4>1
    <3>2. listed[n] = desc
      BY <1>5, <2>3, <3>1
    <3> QED
      BY <1>2, <1>9, <3>1, <3>2 DEF Faithful
  <2> QED
    BY <2>1, <2>2, <2>3
<1>10. ASSUME target > 0, k.search # <<>>, k.read[target] < 10
       PROVE  Describes(k.read[target], k.search)
  <2>1. CASE target = k.target
    BY <1>3, <1>10, <2>1 DEF ReadPart
  <2>2. CASE target # k.target
    <3>1. k.search \in Text /\ target = k.i /\ HasText(desc, k.search)
      BY <1>3, <1>6, <1>10, <2>2 DEF ReadPart
    <3> QED
      BY <1>2, <1>10, <3>1 DEF Faithful
  <2> QED
    BY <2>1, <2>2
<1>11. ReadPart(s)
  <2>1. s.search \in Text \cup {<<>>} /\ s.pc # "new" /\ (s.kind # "list" => s.listed = <<>>)
    BY <1>3, <1>5, <1>7 DEF ReadPart
  <2> QED
    BY <1>7, <1>8, <1>9, <1>10, <2>1 DEF ReadPart
<1>12. Reader(s)
  BY <1>4, <1>7, <1>11 DEF Reader
<1> QED
  BY <1>1, <1>12

\* Below 10 the name of the variable is the same in decimal and in hexadecimal.
LEMMA LowIsItself == \A e \in Entry : e < 10 => VariableOf(e) = e
<1>1. \A e \in Entry : e \in Nat
  <2>1. Entry \subseteq UInt16
    BY PowerAssumption
  <2>2. \A e \in UInt16 : e \in Nat
    BY UInt16Is
  <2> QED
    BY <2>1, <2>2
<1>2. ASSUME NEW e \in Nat, e < 10 PROVE VariableOf(e) = e
  <2>1. e \div 1000 = 0 /\ e \div 100 = 0 /\ e \div 10 = 0 /\ e \div 1 = e
    BY <1>2
  <2>2. 0 % 10 = 0 /\ e % 10 = e
    BY <1>2
  <2> QED
    BY <1>2, <2>1, <2>2 DEF VariableOf, Digit
<1> QED
  BY <1>1, <1>2

LEMMA DecodeText ==
    ASSUME NEW b \in Seq(Byte), ~Panics(b)
    PROVE  /\ Trim(Decode(b)) \in Seq(Unit)
           /\ Header <= Len(b) \/ Trim(Decode(b)) = <<>>
<1>1. CASE b = <<>>
  BY <1>1, EmptyText DEF Decode
<1>2. CASE b # <<>>
  <2>1. Len(b) \in Nat \ {0}
    BY <1>2, EmptySeq
  <2>2. Header <= Len(b)
    <3>1. \A n \in Nat \ {0} : n \in 1..(Header - 1) \/ Header <= n
      BY DEF Header
    <3> QED
      BY <2>1, <3>1 DEF Panics
  <2>3. Units(b) \in Seq(Unit) /\ Str(b) \in Seq(Unit) /\ Rest(b) \in Nat
    BY <2>2, UnitsIs, StrIs
  <2>4. Description(b) \in Seq(Unit) /\ Str(b) \o Zeros(Rest(b)) \in Seq(Unit)
    BY <2>3, UpToNulIs, PaddedIs DEF Description
  <2>5. Decode(b) \in Seq(Unit)
    BY <2>2, <2>4, DecodeIs, TrimIsText
  <2> QED
    BY <2>2, <2>5, TrimIsText
<1> QED
  BY <1>1, <1>2

\* Nothing is said of an entry whose description is taken to be "".
LEMMA NothingIsFaithful == \A e : Faithful(<<>>, e)
<1>1. \A t \in Text : t # <<>> => ~HasText(<<>>, t)
  BY TextIsUnits, NotInEmpty
<1> QED
  BY <1>1 DEF Faithful, Heard

LEMMA ZerosAreFaithful ==
    ASSUME NEW n \in Nat, ~Panics(Zeros(n)), NEW e, e \in DOMAIN boot
    PROVE  Faithful(Trim(Decode(Zeros(n))), e)
<1> DEFINE d == Trim(Decode(Zeros(n)))
<1>1. Trim(UpToNul(d)) = <<>> /\ \A t \in Text : t # <<>> => ~HasText(d, t)
  BY ZerosRead, TextIsUnits
<1> HIDE DEF d
<1>2. Faithful(d, e)
  BY <1>1 DEF Faithful, Heard, IsTextOf
<1> QED
  BY <1>2 DEF d

LEMMA VariableIsFaithful ==
    ASSUME NEW e, e \in DOMAIN boot, boot[e] \in Seq(Byte), ~Panics(boot[e])
    PROVE  Faithful(Trim(Decode(boot[e])), e)
<1> DEFINE b == boot[e]
<1> DEFINE d == Trim(Decode(b))
<1>1. CASE d = <<>>
  BY <1>1, NothingIsFaithful
<1>2. CASE d # <<>>
  <2>1. b \in Seq(Byte) /\ Header <= Len(b)
    BY <1>2, DecodeText
  <2>2. ASSUME NEW t \in Text, t # <<>>, HasText(d, t) PROVE Describes(e, t)
    <3>1. HasText(Description(b), t)
      BY <2>1, <2>2, TextIsUnits, FoundIsThere
    <3> QED
      BY <3>1 DEF Describes
  <2>3. Terminated(b) => HasNul(Str(b)) \/ Description(b) = Str(b)
    BY <2>1, DecodeIs
  <2>4. Terminated(b) => Trim(UpToNul(d)) \in {Trim(Description(b)), <<>>}
    BY <2>1, <2>3, ReadIsText
  <2>5. Heard(d, e)
    BY <2>4 DEF Heard, IsTextOf
  <2> QED
    BY <2>2, <2>5 DEF Faithful
<1> QED
  BY <1>1, <1>2

LEMMA ReadReadStep ==
    ASSUME PInv, RInv, NEW c \in Call, GetSize(c) \/ GetVariable(c)
    PROVE  RInv'
<1> DEFINE k == calls[c]
<1> DEFINE e == k.read[k.i]
<1> DEFINE v == Variable(c)
<1>1. /\ CallPart(k) /\ Reader(k) /\ k \in CallState /\ Between(k) /\ k.i <= Len(k.read)
      /\ v = VariableOf(e)
  BY DEF PInv, CallsPart, RInv, Readers, GetSize, GetVariable, Looking, At, Between, Variable
<1>2. k.i \in 1..Len(k.read) /\ k.read \in Seq(Entry)
  BY <1>1 DEF CallState
<1>3. e \in Entry /\ (e < 10 => v = e)
  <2>1. e \in Entry
    BY <1>2, ElementOfSeq
  <2> QED
    BY <1>1, <2>1, LowIsItself
<1>4. \A w \in DOMAIN boot : boot[w] \in Seq(Byte) /\ Len(boot[w]) \in Nat
  BY ContentAssumption DEF RInv, MachineTyped
<1>5. CASE GetSize(c) /\ There(v)
           /\ Becomes(c, [calls[c] EXCEPT !.pc = "get", !.size = Len(boot[v])])
  <2> DEFINE n == Len(boot[v])
  <2> DEFINE s == [k EXCEPT !.pc = "get", !.size = n]
  <2>1. n \in Nat
    BY <1>4, <1>5 DEF There
  <2>2. Becomes(c, s) /\ UNCHANGED Locals
    BY <1>5 DEF GetSize
  <2> HIDE DEF n, k
  <2>3. /\ s \in CallState /\ s.pc = "get" /\ s.kind = k.kind /\ s.search = k.search
        /\ s.read = k.read /\ s.i = k.i /\ s.target = k.target /\ s.listed = k.listed
    BY <1>1, <2>1 DEF CallState
  <2> HIDE DEF s
  <2>4. Reader(s)
    BY <1>1, <2>3 DEF Reader, ReadPart, Between
  <2> QED
    BY <2>2, <2>4, ReadOneCall
<1>6. CASE GetSize(c) /\ Look(c, <<>>)
  <2>1. UNCHANGED Locals
    BY <1>6 DEF GetSize
  <2>2. \E s : Becomes(c, s) /\ Reader(s)
    BY <1>1, <1>6, NothingIsFaithful, EmptyText, LookFaithful
  <2> QED
    BY <2>1, <2>2, ReadOneCall
<1>7. CASE GetVariable(c)
  <2>1. PICK b \in Got(c) :
            IF Panics(b) THEN alive' = FALSE /\ UNCHANGED calls
            ELSE Look(c, Trim(Decode(b))) /\ UNCHANGED alive
    BY <1>7 DEF GetVariable
  <2>2. UNCHANGED <<order, boot, deleted, machine, first, moved, added, raced>>
    BY <1>7 DEF GetVariable
  <2>3. CASE Panics(b)
    <3>1. UNCHANGED calls /\ alive' = FALSE
      BY <2>1, <2>3
    <3>2. \A j : Reader(j) => Reader(j)'
      BY <2>2, ReadKept
    <3>3. Readers'
      BY <3>1, <3>2 DEF RInv, Readers
    <3> QED
      BY <2>2, <3>1, <3>3 DEF RInv, MachineTyped
  <2>4. CASE ~Panics(b)
    <3>1. Look(c, Trim(Decode(b))) /\ UNCHANGED Locals
      BY <2>1, <2>2, <2>4 DEF Locals
    <3>2. v \in DOMAIN boot /\ k.size = Len(boot[v])
      BY <1>1, <1>7 DEF CallPart, GetVariable, Looking, At
    <3>3. boot[v] \in Seq(Byte) /\ k.size \in Nat
      BY <1>4, <3>2
    <3>4. b \in {Zeros(k.size), boot[v]}
      <4>1. UpTo(boot[v], k.size) = boot[v]
        BY <3>2, <3>3, SubSeqFull DEF UpTo
      <4> QED
        BY <2>1, <4>1 DEF Got
    <3> HIDE DEF k, v
    <3>5. b \in Seq(Byte)
      BY <3>3, <3>4, ZerosAre
    <3>6. Faithful(Trim(Decode(b)), v)
      BY <2>4, <3>2, <3>3, <3>4, ZerosAreFaithful, VariableIsFaithful
    <3>7. Faithful(Trim(Decode(b)), e)
      BY <1>3, <3>6 DEF Faithful
    <3>8. Trim(Decode(b)) \in Seq(Unit)
      BY <2>4, <3>5, DecodeText
    <3>9. \E s : Becomes(c, s) /\ Reader(s)
      BY <1>1, <3>1, <3>7, <3>8, LookFaithful DEF k
    <3> QED
      BY <3>1, <3>9, ReadOneCall
  <2> QED
    BY <2>3, <2>4
<1>8. GetSize(c) =>
        \/ There(v) /\ Becomes(c, [calls[c] EXCEPT !.pc = "get", !.size = Len(boot[v])])
        \/ Look(c, <<>>)
  BY DEF GetSize
<1> QED
  BY <1>5, <1>6, <1>7, <1>8

LEMMA ReadSetStep ==
    ASSUME PInv, RInv, NEW c \in Call, SetOrder(c)
    PROVE  RInv'
<1> DEFINE k == calls[c]
<1> DEFINE s == [k EXCEPT !.pc = "restart"]
<1>1. /\ CallPart(k) /\ Reader(k) /\ k \in CallState /\ Between(k) /\ k.target > 0
      /\ Becomes(c, s) /\ UNCHANGED boot
      /\ order' = MoveToFront(k.read, k.target) /\ moved' = moved \cup {k.read[k.target]}
      /\ UNCHANGED <<boot, deleted, machine, alive, first, added, raced>>
  BY DEF PInv, CallsPart, RInv, Readers, SetOrder, Looked, At, Between
<1> HIDE DEF k
<1>2. k.read \in Seq(Entry) /\ k.target \in 1..Len(k.read) /\ Distinct(k.read)
  BY <1>1 DEF CallPart, Listing, CallState
<1>3. order' \in Seq(Entry) /\ k.read[k.target] \in Entry
  BY <1>1, <1>2, Moved, ElementOfSeq
<1>4. /\ s \in CallState /\ s.pc = "restart" /\ s.kind = k.kind /\ s.search = k.search
      /\ s.read = k.read /\ s.target = k.target /\ s.listed = k.listed
  BY <1>1 DEF CallState
<1> HIDE DEF s
<1>5. Reader(s)
  BY <1>1, <1>4 DEF Reader, ReadPart, Between
<1>6. Readers'
  BY <1>1, <1>5, ReadersStep
<1> QED
  BY <1>1, <1>3, <1>6 DEF RInv, MachineTyped

LEMMA ReadRestartStep ==
    ASSUME RInv, NEW c \in Call, Reboot(c) \/ RunShutdown(c)
    PROVE  RInv'
<1>1. /\ UNCHANGED <<order, boot, deleted, alive, first, moved, added, raced>>
      /\ machine' \in {"down", "restarting"}
  BY DEF Reboot, RunShutdown
<1>2. Readers'
  <2>1. CASE UNCHANGED calls
    <3>1. \A j : Reader(j) => Reader(j)'
      BY <1>1, ReadKept
    <3> QED
      BY <2>1, <3>1 DEF RInv, Readers
  <2>2. CASE Answers(c)
    BY <1>1, <2>2, DoneIsFresh, ReadersStep DEF Answers
  <2> QED
    BY <2>1, <2>2 DEF Reboot, RunShutdown
<1> QED
  BY <1>1, <1>2 DEF RInv, MachineTyped

LEMMA ReadOtherStep ==
    ASSUME PInv, RInv, NEW e \in Entry, AddEntry(e) \/ DeleteEntry(e)
    PROVE  RInv'
<1>1. UNCHANGED <<calls, machine, alive, first, moved>> /\ raced' \subseteq raced \cup {e}
  BY DEF AddEntry, DeleteEntry, Racing
<1>2. /\ \A v \in DOMAIN boot : v \in DOMAIN boot' /\ boot'[v] = boot[v]
      /\ DOMAIN boot' \subseteq Entry /\ \A v \in DOMAIN boot' : boot'[v] \in Content
      /\ deleted' \subseteq DOMAIN boot' /\ added' \subseteq Entry
      /\ raced' \subseteq added' \cup deleted'
  <2>1. CASE AddEntry(e)
    <3>1. PICK b \in Content :
            boot' = [v \in DOMAIN boot \cup {e} |-> IF v = e THEN b ELSE boot[v]]
      BY <2>1 DEF AddEntry
    <3>2. e \notin DOMAIN boot /\ added' = added \cup {e} /\ deleted' = deleted
      BY <2>1 DEF AddEntry
    <3>3. /\ DOMAIN boot' = DOMAIN boot \cup {e} /\ boot'[e] = b
          /\ \A v \in DOMAIN boot : boot'[v] = boot[v]
      BY <3>1, <3>2
    <3> QED
      BY <1>1, <3>2, <3>3 DEF RInv, MachineTyped
  <2>2. CASE DeleteEntry(e)
    <3>1. UNCHANGED <<boot, added>> /\ e \in DOMAIN boot /\ deleted' = deleted \cup {e}
      BY <2>2 DEF DeleteEntry, There
    <3> QED
      BY <1>1, <3>1 DEF RInv, MachineTyped
  <2> QED
    BY <2>1, <2>2
<1>3. order' \in Seq(Entry)
  <2>1. order \in Seq(Entry) /\ Distinct(order) /\ Entries(order) \subseteq Known
        /\ DOMAIN boot = Known
    BY DEF PInv, Listing
  <2>2. CASE AddEntry(e)
    <3>1. e \notin Entries(order) /\ order' \in {<<e>> \o order, Append(order, e)}
      BY <2>1, <2>2 DEF AddEntry
    <3> QED
      BY <2>1, <3>1, Put
  <2>3. CASE DeleteEntry(e)
    <3>1. CASE e \notin Entries(order)
      BY <2>1, <2>3, <3>1 DEF DeleteEntry
    <3>2. CASE e \in Entries(order)
      <4>1. PICK p \in 1..Len(order) : order' = Without(order, p)
        BY <2>3, <3>2 DEF DeleteEntry, Places
      <4> QED
        BY <2>1, <4>1, Taken
    <3> QED
      BY <3>1, <3>2
  <2> QED
    BY <2>2, <2>3
<1>4. \A j : Reader(j) => Reader(j)'
  BY <1>2, ReadKept
<1>5. Readers'
  BY <1>1, <1>4 DEF RInv, Readers
<1> QED
  BY <1>1, <1>2, <1>3, <1>5 DEF RInv, MachineTyped

LEMMA RStep == PInv /\ RInv /\ [Next]_vars => RInv'
<1> SUFFICES ASSUME PInv, RInv, [Next]_vars PROVE RInv'
  OBVIOUS
<1>1. CASE UNCHANGED vars \/ GoDown
  <2>1. /\ UNCHANGED <<order, boot, deleted, calls, alive, first, moved, added, raced>>
        /\ machine' \in {machine, "down"}
    BY <1>1 DEF vars, GoDown
  <2>2. \A j : Reader(j) => Reader(j)'
    BY <2>1, ReadKept
  <2>3. Readers'
    BY <2>1, <2>2 DEF RInv, Readers
  <2> QED
    BY <2>1, <2>3 DEF RInv, MachineTyped
<1>2. ASSUME NEW c \in Call, Handler(c) PROVE RInv'
  <2>1. CASE GetOrder(c) \/ GetEntries(c) \/ PlainOrder(c)
    BY <2>1, ReadFirstStep
  <2>2. CASE OtherOrder(c) \/ ListEntries(c) \/ Fails(c)
    BY <2>2, ReadAnswered DEF OtherOrder, ListEntries, Fails
  <2>3. CASE GetSize(c) \/ GetVariable(c)
    BY <2>3, ReadReadStep
  <2>4. CASE SetOrder(c)
    BY <2>4, ReadSetStep
  <2>5. CASE Reboot(c) \/ RunShutdown(c)
    BY <2>5, ReadRestartStep
  <2> QED
    BY <1>2, <2>1, <2>2, <2>3, <2>4, <2>5 DEF Handler
<1>3. ASSUME NEW e \in Entry, AddEntry(e) \/ DeleteEntry(e) PROVE RInv'
  BY <1>3, ReadOtherStep
<1> QED
  BY <1>1, <1>2, <1>3 DEF Next

LEMMA RInit == Init => RInv
<1> SUFFICES ASSUME Init PROVE RInv
  OBVIOUS
<1>1. order \in Seq(Entry) /\ first = order
  <2>1. PICK n \in 0..MaxFirst : order \in [1..n -> Entry]
    BY DEF Init
  <2>2. n \in Nat
    BY FirstIsBounded
  <2> QED
    BY <2>1, <2>2 DEF Init
<1>2. MachineTyped
  BY <1>1, EntriesOf DEF Init, MachineTyped
<1>3. Reader(NewCall)
  BY NewIsFresh, FreshReader
<1>4. Readers
  BY <1>3, NewIsFresh DEF Init, Readers
<1> QED
  BY <1>2, <1>4 DEF RInv

\* What the calls have read is what was there, and every variable has its type.
THEOREM RInvariant == Spec => []RInv
<1>1. Init => RInv
  BY RInit
<1>2. PInv /\ RInv /\ [Next]_vars => RInv'
  BY RStep
<1> QED
  BY <1>1, <1>2, PInvariant, PTL DEF Spec

\* The types of all variables of PowerCtl, the texts included.
THEOREM TypeCorrect == Spec => []TypeOK
BY RInvariant, RInvTyped, PTL

\* For any variables the firmware may hold and any text: what is read of an entry with a
\* number below 10 is its own description or nothing, and an entry that is chosen for a
\* text has it.
THEOREM LowNumbersRead == Spec => []LowNumbersAreRead
<1>1. RInv => LowNumbersAreRead
  <2> SUFFICES ASSUME RInv, NEW c \in Call
               PROVE  /\ calls[c].target > 0 /\ calls[c].search # <<>> /\ Chosen(c) < 10 =>
                              Describes(Chosen(c), calls[c].search)
                      /\ \A i \in 1..Len(calls[c].listed) :
                              calls[c].read[i] < 10 =>
                                  IsTextOf(calls[c].listed[i], calls[c].read[i])
    BY DEF LowNumbersAreRead
  <2>1. ReadPart(calls[c])
    BY DEF RInv, Readers, Reader
  <2>2. \A t, e : Heard(t, e) => IsTextOf(t, e)
    BY DEF Heard, IsTextOf
  <2> QED
    BY <2>1, <2>2 DEF ReadPart, Chosen
<1> QED
  BY <1>1, RInvariant, PTL
================================================================================
