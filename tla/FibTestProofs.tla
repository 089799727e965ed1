----------------------------- MODULE FibTestProofs -----------------------------
(****************************************************************************)
(* Theorems about FibTest, for every set of producers and consumers and     *)
(* every length of the buffer: the mutex lets one thread at a time into the *)
(* buffer, and the buffer is a bounded first-in first-out queue.            *)
(****************************************************************************)
EXTENDS FibTest, SchedulerProofs

-----------------------------------------------------------------------------
(* Where a thread is in its program.                                        *)

add == bounded_buffer_add \o << <<"advance">> >>
take == bounded_buffer_take
Path(t) == IF t \in Producers THEN add ELSE take

(* The instructions of the library that are not about a semaphore's value   *)
(* or its waiting threads' next look at it.                                 *)
Neutral == {<<op>> : op \in ThreadOps} \cup {<<"append", s>> : s \in Semaphores}

(* A thread is at the k-th instruction of its program, perhaps with library *)
(* code in front of it; one in its own code is behind the last.             *)
Place(c, P, k) == \E pre \in Seq(Neutral) : c = pre \o After(P, k)

(* The two programs, instruction by instruction. *)
LEMMA TheTwoPrograms ==
    /\ add \in Seq(Instruction) /\ Len(add) = 19
    /\ add[1] = <<"lock">> /\ add[2] = <<"while", "full">>
    /\ add[3] = <<"dec", "full">> /\ add[4] = <<"unlock">>
    /\ add[5] = <<"lock">> /\ add[6] = <<"while", "buff_protect">>
    /\ add[7] = <<"dec", "buff_protect">> /\ add[8] = <<"unlock">>
    /\ add[9] = <<"put">> /\ add[10] = <<"more">>
    /\ add[11] = <<"lock">> /\ add[12] = <<"inc", "empty">>
    /\ add[13] = <<"wake", "empty">> /\ add[14] = <<"unlock">>
    /\ add[15] = <<"lock">> /\ add[16] = <<"inc", "buff_protect">>
    /\ add[17] = <<"wake", "buff_protect">> /\ add[18] = <<"unlock">>
    /\ add[19] = <<"advance">>
    /\ take \in Seq(Instruction) /\ Len(take) = 19
    /\ take[1] = <<"lock">> /\ take[2] = <<"while", "empty">>
    /\ take[3] = <<"dec", "empty">> /\ take[4] = <<"unlock">>
    /\ take[5] = <<"lock">> /\ take[6] = <<"while", "buff_protect">>
    /\ take[7] = <<"dec", "buff_protect">> /\ take[8] = <<"unlock">>
    /\ take[9] = <<"get">> /\ take[10] = <<"less">>
    /\ take[11] = <<"lock">> /\ take[12] = <<"inc", "full">>
    /\ take[13] = <<"wake", "full">> /\ take[14] = <<"unlock">>
    /\ take[15] = <<"first">>
    /\ take[16] = <<"lock">> /\ take[17] = <<"inc", "buff_protect">>
    /\ take[18] = <<"wake", "buff_protect">> /\ take[19] = <<"unlock">>
<1>1. /\ <<"put">> \in Instruction /\ <<"more">> \in Instruction
      /\ <<"get">> \in Instruction /\ <<"less">> \in Instruction
      /\ <<"first">> \in Instruction /\ <<"advance">> \in Instruction
      /\ <<"lock">> \in Instruction /\ <<"unlock">> \in Instruction
      /\ \A s \in {"full", "empty", "buff_protect"}, op \in {"while", "dec", "inc", "wake"} :
            <<op, s>> \in Instruction
  BY BufferAssumption, FibAssumption DEF Instruction, ThreadOps, SemaphoreOps
<1> USE <1>1
<1>2. QED
  BY DEF add, take, bounded_buffer_add, bounded_buffer_take, semaphore_wait,
         semaphore_signal

(* The first instruction of two programs in a row is that of the first.     *)
LEMMA ConcatHeadTail ==
    ASSUME NEW S, NEW a \in Seq(S), NEW b \in Seq(S), a # <<>>
    PROVE  Head(a \o b) = Head(a) /\ Tail(a \o b) = Tail(a) \o b /\ a \o b # <<>>
<1> DEFINE c == a \o b
           d == Tail(a) \o b
<1>1. /\ c \in Seq(S) /\ Len(c) = Len(a) + Len(b)
      /\ \A j \in 1 .. Len(a) + Len(b) : c[j] = IF j <= Len(a) THEN a[j] ELSE b[j - Len(a)]
  BY ConcatProperties
<1>2. Len(a) \in Nat \ {0} /\ Len(b) \in Nat
  BY EmptySeq, LenProperties
<1>3. /\ Tail(a) \in Seq(S) /\ Len(Tail(a)) = Len(a) - 1
      /\ \A j \in 1 .. Len(Tail(a)) : Tail(a)[j] = a[j + 1]
  BY HeadTailProperties
<1>4. /\ d \in Seq(S) /\ Len(d) = Len(Tail(a)) + Len(b)
      /\ \A j \in 1 .. Len(Tail(a)) + Len(b) :
            d[j] = IF j <= Len(Tail(a)) THEN Tail(a)[j] ELSE b[j - Len(Tail(a))]
  BY <1>3, ConcatProperties
<1> HIDE DEF c, d
<1>5. c # <<>> /\ Head(c) = c[1] /\ Head(a) = a[1]
  BY <1>1, <1>2, EmptySeq
<1>6. /\ Tail(c) \in Seq(S) /\ Len(Tail(c)) = Len(c) - 1
      /\ \A j \in 1 .. Len(Tail(c)) : Tail(c)[j] = c[j + 1]
  BY <1>1, <1>5, HeadTailProperties
<1>7. ASSUME NEW j \in 1 .. Len(Tail(c)) PROVE Tail(c)[j] = d[j]
  <2>1. /\ Tail(c)[j] = c[j + 1] /\ j + 1 \in 1 .. Len(a) + Len(b)
        /\ j \in 1 .. Len(Tail(a)) + Len(b)
    BY <1>1, <1>2, <1>3, <1>6
  <2>2. CASE j + 1 <= Len(a)
    <3>1. j \in 1 .. Len(Tail(a)) /\ c[j + 1] = a[j + 1] /\ d[j] = Tail(a)[j]
      BY <1>1, <1>2, <1>3, <1>4, <2>1, <2>2
    <3>2. QED
      BY <1>3, <2>1, <3>1
  <2>3. CASE ~(j + 1 <= Len(a))
    <3>1. ~(j <= Len(Tail(a))) /\ (j + 1) - Len(a) = j - Len(Tail(a))
      BY <1>2, <1>3, <2>3
    <3>2. c[j + 1] = b[(j + 1) - Len(a)] /\ d[j] = b[j - Len(Tail(a))]
      BY <1>1, <1>4, <2>1, <2>3, <3>1
    <3>3. QED
      BY <2>1, <3>1, <3>2
  <2>4. QED
    BY <2>2, <2>3
<1>8. Tail(c) = d
  BY <1>1, <1>2, <1>3, <1>4, <1>6, <1>7, SeqEqual
<1>9. c[1] = a[1]
  BY <1>1, <1>2
<1>10. QED
  BY <1>5, <1>8, <1>9 DEF c, d

(* What is ahead of a thread at a place, but for the library's own code.    *)
LEMMA AheadOfPlace ==
    ASSUME NEW P \in Seq(Instruction), NEW k \in 1 .. Len(P) + 1, NEW c, Place(c, P, k)
    PROVE  /\ c \in Seq(Instruction) /\ After(P, k) \in Seq(Instruction)
           /\ Range(c) \ Neutral = {P[j] : j \in k .. Len(P)} \ Neutral
<1>1. PICK pre \in Seq(Neutral) : c = pre \o After(P, k)
  BY DEF Place
<1>2. Neutral \subseteq Instruction
  BY DEF Neutral, Instruction, SemaphoreOps
<1>3. pre \in Seq(Instruction) /\ Range(pre) \subseteq Neutral
  BY <1>2, SeqMonotonic, RangeOfSeq
<1>4. After(P, k) \in Seq(Instruction) /\ Range(After(P, k)) = {P[j] : j \in k .. Len(P)}
  <2>1. CASE k \in 1 .. Len(P)
    BY <2>1, AfterStep
  <2>2. CASE k = Len(P) + 1
    <3>1. After(P, k) = <<>> /\ Len(P) \in Nat
      BY <2>2, AfterEnd, LenProperties
    <3>2. \A j : j \notin k .. Len(P)
      BY <2>2, <3>1
    <3>3. Range(After(P, k)) = {}
      BY <3>1 DEF Range
    <3>4. After(P, k) \in Seq(Instruction)
      BY <3>1, EmptySeq
    <3>5. QED
      BY <3>2, <3>3, <3>4
  <2>3. QED
    BY <2>1, <2>2, LenProperties
<1>5. c \in Seq(Instruction) /\ Range(c) = Range(pre) \cup Range(After(P, k))
  BY <1>1, <1>3, <1>4, ConcatProperties, RangeConcatenation
<1>6. QED
  BY <1>3, <1>4, <1>5

(* Executing an instruction leads from one place to another, and one that   *)
(* is not library code is the program's.                                    *)
LEMMA PlaceStep ==
    ASSUME NEW P \in Seq(Instruction), NEW k \in 1 .. Len(P) + 1, NEW c, Place(c, P, k),
           c # <<>>
    PROVE  /\ \E m \in 1 .. Len(P) + 1 : Place(Tail(c), P, m)
           /\ Head(c) \notin Neutral => /\ k \in 1 .. Len(P) /\ Head(c) = P[k]
                                        /\ c = After(P, k) /\ Tail(c) = After(P, k + 1)
<1>1. PICK pre \in Seq(Neutral) : c = pre \o After(P, k)
  BY DEF Place
<1>2. Neutral \subseteq Instruction
  BY DEF Neutral, Instruction, SemaphoreOps
<1>3. pre \in Seq(Instruction) /\ After(P, k) \in Seq(Instruction)
  BY <1>2, SeqMonotonic, AheadOfPlace
<1>4. CASE pre # <<>>
  <2>1. Head(c) = Head(pre) /\ Tail(c) = Tail(pre) \o After(P, k)
    BY <1>1, <1>3, <1>4, ConcatHeadTail
  <2>2. Head(pre) \in Neutral /\ Tail(pre) \in Seq(Neutral)
    BY <1>4, HeadTailProperties
  <2>3. QED
    BY <2>1, <2>2 DEF Place
<1>5. CASE pre = <<>>
  <2>1. c = After(P, k)
    BY <1>1, <1>3, <1>5, ConcatEmptySeq
  <2>2. k \in 1 .. Len(P)
    <3>1. k = Len(P) + 1 => c = <<>>
      BY <2>1, AfterEnd
    <3>2. QED
      BY <3>1, LenProperties
  <2>3. Head(c) = P[k] /\ Tail(c) = After(P, k + 1)
    BY <2>1, <2>2, AfterStep
  <2>4. k + 1 \in 1 .. Len(P) + 1
    BY <2>2, LenProperties
  <2>5. Place(Tail(c), P, k + 1)
    <3>1. After(P, k + 1) \in Seq(Instruction)
      BY <2>1, <2>2, <2>3, AfterStep, HeadTailProperties
    <3>2. <<>> \o After(P, k + 1) = After(P, k + 1) /\ <<>> \in Seq(Neutral)
      BY <3>1, ConcatEmptySeq, EmptySeq
    <3>3. QED
      BY <2>3, <3>2 DEF Place
  <2>6. QED
    BY <2>1, <2>2, <2>3, <2>4, <2>5
<1>6. QED
  BY <1>4, <1>5

(* The same when the instruction is the program's. *)
LEMMA ProgramStep ==
    ASSUME NEW P \in Seq(Instruction), NEW k \in 1 .. Len(P) + 1, NEW c, Place(c, P, k),
           c # <<>>, Head(c) \notin Neutral
    PROVE  /\ k \in 1 .. Len(P) /\ Head(c) = P[k]
           /\ c = After(P, k) /\ Tail(c) = After(P, k + 1)
BY PlaceStep

(* Library code put in front does not change the place. *)
LEMMA PlaceBehind ==
    ASSUME NEW P \in Seq(Instruction), NEW k \in 1 .. Len(P) + 1, NEW c, Place(c, P, k),
           NEW d \in Seq(Neutral)
    PROVE  Place(d \o c, P, k)
<1>1. PICK pre \in Seq(Neutral) : c = pre \o After(P, k)
  BY DEF Place
<1>2. Neutral \subseteq Instruction
  BY DEF Neutral, Instruction, SemaphoreOps
<1>3. /\ pre \in Seq(Instruction) /\ d \in Seq(Instruction)
      /\ After(P, k) \in Seq(Instruction)
  BY <1>2, SeqMonotonic, AheadOfPlace
<1>4. d \o c = (d \o pre) \o After(P, k)
  <2> DEFINE a == After(P, k)
  <2>1. a \in Seq(Instruction) /\ c = pre \o a
    BY <1>1, <1>3
  <2> HIDE DEF a
  <2>2. (d \o pre) \o a = d \o (pre \o a)
    BY <1>3, <2>1, ConcatAssociative
  <2>3. QED
    BY <2>1, <2>2 DEF a
<1>5. d \o pre \in Seq(Neutral)
  BY ConcatProperties
<1>6. QED
  BY <1>4, <1>5 DEF Place

(* A thread in its own code is behind its program, as is one that yields or *)
(* finishes; a call of the program starts it.                               *)
LEMMA PlaceEnds ==
    ASSUME NEW P \in Seq(Instruction)
    PROVE  /\ Place(<<>>, P, Len(P) + 1) /\ Place(P, P, 1)
           /\ \A d \in Seq(Neutral) : Place(d, P, Len(P) + 1)
<1>1. After(P, Len(P) + 1) = <<>> /\ After(P, 1) = P
  BY AfterEnd
<1>2. <<>> \in Seq(Neutral) /\ <<>> \o P = P
  BY EmptySeq, ConcatEmptySeq
<1>3. \A d \in Seq(Neutral) : d \o <<>> = d
  BY ConcatEmptySeq
<1>4. QED
  BY <1>1, <1>2, <1>3 DEF Place

(* An instruction that a program has once, at its n-th place, or not at all. *)
OnceAt(P, x, n) == \A j \in 1 .. Len(P) : P[j] = x <=> j = n
Never(P, x) == x \notin Range(P)

(* None of these is library code. *)
LEMMA NotNeutral ==
    /\ \A op \in {"put", "more", "get", "less", "first", "advance"} : <<op>> \notin Neutral
    /\ \A op \in {"while", "dec", "inc", "wake"} : \A s : <<op, s>> \notin Neutral
BY DEF Neutral, ThreadOps

(* Where an add has the instructions that the properties are about. *)
LEMMA WhereInAdd ==
    /\ OnceAt(add, <<"dec", "full">>, 3)
    /\ OnceAt(add, <<"dec", "buff_protect">>, 7)
    /\ OnceAt(add, <<"put">>, 9)
    /\ OnceAt(add, <<"more">>, 10)
    /\ OnceAt(add, <<"inc", "empty">>, 12)
    /\ OnceAt(add, <<"inc", "buff_protect">>, 16)
    /\ OnceAt(add, <<"advance">>, 19)
    /\ Never(add, <<"get">>)
    /\ Never(add, <<"less">>)
    /\ Never(add, <<"first">>)
    /\ Never(add, <<"dec", "empty">>)
    /\ Never(add, <<"inc", "full">>)
<1>1. \A j \in 1 .. 19 :
         \/ j = 1 \/ j = 2 \/ j = 3 \/ j = 4 \/ j = 5 \/ j = 6 \/ j = 7
         \/ j = 8 \/ j = 9 \/ j = 10 \/ j = 11 \/ j = 12 \/ j = 13
         \/ j = 14 \/ j = 15 \/ j = 16 \/ j = 17 \/ j = 18 \/ j = 19
  OBVIOUS
<1>2. Len(add) = 19 /\ Range(add) = {add[j] : j \in 1 .. Len(add)}
  BY TheTwoPrograms, RangeEquality
<1>3. \A j \in 1 .. 19 :
         /\ add[j] = <<"dec", "full">> <=> j = 3
         /\ add[j] = <<"dec", "buff_protect">> <=> j = 7
         /\ add[j] = <<"put">> <=> j = 9
         /\ add[j] = <<"more">> <=> j = 10
         /\ add[j] = <<"inc", "empty">> <=> j = 12
         /\ add[j] = <<"inc", "buff_protect">> <=> j = 16
         /\ add[j] = <<"advance">> <=> j = 19
         /\ add[j] # <<"get">>
         /\ add[j] # <<"less">>
         /\ add[j] # <<"first">>
         /\ add[j] # <<"dec", "empty">>
         /\ add[j] # <<"inc", "full">>
  BY <1>1, TheTwoPrograms
<1>4. QED
  BY <1>2, <1>3 DEF OnceAt, Never

(* Where a take has the instructions that the properties are about. *)
LEMMA WhereInTake ==
    /\ OnceAt(take, <<"dec", "empty">>, 3)
    /\ OnceAt(take, <<"dec", "buff_protect">>, 7)
    /\ OnceAt(take, <<"get">>, 9)
    /\ OnceAt(take, <<"less">>, 10)
    /\ OnceAt(take, <<"inc", "full">>, 12)
    /\ OnceAt(take, <<"first">>, 15)
    /\ OnceAt(take, <<"inc", "buff_protect">>, 17)
    /\ Never(take, <<"put">>)
    /\ Never(take, <<"more">>)
    /\ Never(take, <<"advance">>)
    /\ Never(take, <<"dec", "full">>)
    /\ Never(take, <<"inc", "empty">>)
<1>1. \A j \in 1 .. 19 :
         \/ j = 1 \/ j = 2 \/ j = 3 \/ j = 4 \/ j = 5 \/ j = 6 \/ j = 7
         \/ j = 8 \/ j = 9 \/ j = 10 \/ j = 11 \/ j = 12 \/ j = 13
         \/ j = 14 \/ j = 15 \/ j = 16 \/ j = 17 \/ j = 18 \/ j = 19
  OBVIOUS
<1>2. Len(take) = 19 /\ Range(take) = {take[j] : j \in 1 .. Len(take)}
  BY TheTwoPrograms, RangeEquality
<1>3. \A j \in 1 .. 19 :
         /\ take[j] = <<"dec", "empty">> <=> j = 3
         /\ take[j] = <<"dec", "buff_protect">> <=> j = 7
         /\ take[j] = <<"get">> <=> j = 9
         /\ take[j] = <<"less">> <=> j = 10
         /\ take[j] = <<"inc", "full">> <=> j = 12
         /\ take[j] = <<"first">> <=> j = 15
         /\ take[j] = <<"inc", "buff_protect">> <=> j = 17
         /\ take[j] # <<"put">>
         /\ take[j] # <<"more">>
         /\ take[j] # <<"advance">>
         /\ take[j] # <<"dec", "full">>
         /\ take[j] # <<"inc", "empty">>
  BY <1>1, TheTwoPrograms
<1>4. QED
  BY <1>2, <1>3 DEF OnceAt, Never

(* An instruction that a program has at one place is ahead up to there.     *)
LEMMA AheadAt ==
    ASSUME NEW P \in Seq(Instruction), Len(P) = 19, NEW k \in 1 .. 20, NEW c,
           Place(c, P, k), NEW x, x \notin Neutral
    PROVE  /\ \A n \in 1 .. 19 : OnceAt(P, x, n) => (x \in Range(c) <=> k <= n)
           /\ Never(P, x) => x \notin Range(c)
<1>1. k \in 1 .. Len(P) + 1
  OBVIOUS
<1>2. Range(c) \ Neutral = {P[j] : j \in k .. Len(P)} \ Neutral
  BY <1>1, AheadOfPlace
<1>3. x \in Range(c) <=> \E j \in k .. 19 : x = P[j]
  BY <1>2
<1>4. \A j \in k .. 19 : j \in 1 .. 19
  OBVIOUS
<1>5. ASSUME NEW n \in 1 .. 19, OnceAt(P, x, n) PROVE x \in Range(c) <=> k <= n
  <2>1. k <= n <=> n \in k .. 19
    OBVIOUS
  <2>2. QED
    BY <1>3, <1>4, <1>5, <2>1 DEF OnceAt
<1>6. ASSUME Never(P, x) PROVE x \notin Range(c)
  BY <1>3, <1>4, <1>6, RangeEquality DEF Never
<1>7. QED
  BY <1>5, <1>6

(* What a place in an add says is ahead. *)
LEMMA AheadInAdd ==
    ASSUME NEW k \in 1 .. 20, NEW c, Place(c, add, k)
    PROVE  /\ <<"dec", "full">> \in Range(c) <=> k <= 3
           /\ <<"dec", "buff_protect">> \in Range(c) <=> k <= 7
           /\ <<"put">> \in Range(c) <=> k <= 9
           /\ <<"more">> \in Range(c) <=> k <= 10
           /\ <<"inc", "empty">> \in Range(c) <=> k <= 12
           /\ <<"inc", "buff_protect">> \in Range(c) <=> k <= 16
           /\ <<"advance">> \in Range(c) <=> k <= 19
           /\ <<"get">> \notin Range(c)
           /\ <<"less">> \notin Range(c)
           /\ <<"first">> \notin Range(c)
           /\ <<"dec", "empty">> \notin Range(c)
           /\ <<"inc", "full">> \notin Range(c)
<1>1. add \in Seq(Instruction) /\ Len(add) = 19
  BY TheTwoPrograms
<1>2. ASSUME NEW x, x \notin Neutral
      PROVE  /\ \A n \in 1 .. 19 : OnceAt(add, x, n) => (x \in Range(c) <=> k <= n)
             /\ Never(add, x) => x \notin Range(c)
  BY <1>1, <1>2, AheadAt
<1>3. QED
  BY <1>2, NotNeutral, WhereInAdd

(* What a place in a take says is ahead. *)
LEMMA AheadInTake ==
    ASSUME NEW k \in 1 .. 20, NEW c, Place(c, take, k)
    PROVE  /\ <<"dec", "empty">> \in Range(c) <=> k <= 3
           /\ <<"dec", "buff_protect">> \in Range(c) <=> k <= 7
           /\ <<"get">> \in Range(c) <=> k <= 9
           /\ <<"less">> \in Range(c) <=> k <= 10
           /\ <<"inc", "full">> \in Range(c) <=> k <= 12
           /\ <<"first">> \in Range(c) <=> k <= 15
           /\ <<"inc", "buff_protect">> \in Range(c) <=> k <= 17
           /\ <<"put">> \notin Range(c)
           /\ <<"more">> \notin Range(c)
           /\ <<"advance">> \notin Range(c)
           /\ <<"dec", "full">> \notin Range(c)
           /\ <<"inc", "empty">> \notin Range(c)
<1>1. take \in Seq(Instruction) /\ Len(take) = 19
  BY TheTwoPrograms
<1>2. ASSUME NEW x, x \notin Neutral
      PROVE  /\ \A n \in 1 .. 19 : OnceAt(take, x, n) => (x \in Range(c) <=> k <= n)
             /\ Never(take, x) => x \notin Range(c)
  BY <1>1, <1>2, AheadAt
<1>3. QED
  BY <1>2, NotNeutral, WhereInTake

-----------------------------------------------------------------------------
(* The invariant. *)

FibShapes == \A t \in Thread : \E k \in 1 .. 20 : Place(code[t], Path(t), k)

Element == [id : Thread \cup {NoThread}, arg : Int]
FibTypeOK ==
    /\ buffer \in [0 .. Length - 1 -> Element]
    /\ first \in 0 .. Length - 1
    /\ count \in Nat
    /\ elem \in [Thread -> Element]
    /\ i \in [Producers -> Int]

(* The mutex is free or one thread has it. *)
Section == {t \in Thread : InSection(t)}
MutexInv == value["buff_protect"] + Cardinality(Section) = 1

(* Every slot is free, promised to a producer, occupied, or emptied and not *)
(* yet given back; every element stored is on offer, not yet announced, or  *)
(* promised to a consumer.                                                  *)
Reserved == {p \in Producers : ~ToDo(p, <<"dec", "full">>) /\ ToDo(p, <<"more">>)}
Returning == {c \in Consumers : ~ToDo(c, <<"less">>) /\ ToDo(c, <<"inc", "full">>)}
Announcing == {p \in Producers : ~ToDo(p, <<"more">>) /\ ToDo(p, <<"inc", "empty">>)}
Claiming == {c \in Consumers : ~ToDo(c, <<"dec", "empty">>) /\ ToDo(c, <<"less">>)}
CreditInv ==
    /\ value["full"] + Cardinality(Reserved) + count + Cardinality(Returning) = Length
    /\ value["empty"] + Cardinality(Announcing) + Cardinality(Claiming) = count

(* What a producer is putting, and where it has put it.                     *)
ElementsInv ==
    \A p \in Producers : ToDo(p, <<"more">>) =>
        /\ elem[p] = [id |-> p, arg |-> i[p]]
        /\ ~ToDo(p, <<"put">>) => buffer[(first + count) % Length] = elem[p]

FibInv ==
    /\ SemInv /\ FibShapes /\ FibTypeOK
    /\ MutexInv /\ CreditInv /\ ElementsInv

(* The instructions these definitions look at. *)
Tracked ==
    {<<"put">>, <<"more">>, <<"get">>, <<"less">>, <<"first">>, <<"advance">>,
     <<"dec", "full">>, <<"dec", "empty">>, <<"dec", "buff_protect">>,
     <<"inc", "full">>, <<"inc", "empty">>, <<"inc", "buff_protect">>}

(* The order of the instructions, in a producer and in a consumer.          *)
LEMMA OrderInAdd ==
    ASSUME FibShapes, NEW p \in Producers
    PROVE  /\ ToDo(p, <<"dec", "full">>) => ToDo(p, <<"dec", "buff_protect">>)
           /\ ToDo(p, <<"dec", "buff_protect">>) => ToDo(p, <<"put">>)
           /\ ToDo(p, <<"put">>) => ToDo(p, <<"more">>)
           /\ ToDo(p, <<"more">>) => ToDo(p, <<"inc", "empty">>)
           /\ ToDo(p, <<"inc", "empty">>) => ToDo(p, <<"inc", "buff_protect">>)
           /\ ToDo(p, <<"inc", "buff_protect">>) => ToDo(p, <<"advance">>)
           /\ ~ToDo(p, <<"get">>) /\ ~ToDo(p, <<"less">>) /\ ~ToDo(p, <<"first">>)
           /\ ~ToDo(p, <<"dec", "empty">>) /\ ~ToDo(p, <<"inc", "full">>)
<1>1. p \in Thread /\ Path(p) = add
  BY FibAssumption DEF Path
<1>2. PICK k \in 1 .. 20 : Place(code[p], add, k)
  BY <1>1 DEF FibShapes
<1>3. QED
  BY <1>2, AheadInAdd DEF ToDo

(* What a consumer still has to do, in the order of bounded_buffer_take. *)
LEMMA OrderInTake ==
    ASSUME FibShapes, NEW c \in Consumers
    PROVE  /\ ToDo(c, <<"dec", "empty">>) => ToDo(c, <<"dec", "buff_protect">>)
           /\ ToDo(c, <<"dec", "buff_protect">>) => ToDo(c, <<"get">>)
           /\ ToDo(c, <<"get">>) => ToDo(c, <<"less">>)
           /\ ToDo(c, <<"less">>) => ToDo(c, <<"inc", "full">>)
           /\ ToDo(c, <<"inc", "full">>) => ToDo(c, <<"first">>)
           /\ ToDo(c, <<"first">>) => ToDo(c, <<"inc", "buff_protect">>)
           /\ ~ToDo(c, <<"put">>) /\ ~ToDo(c, <<"more">>) /\ ~ToDo(c, <<"advance">>)
           /\ ~ToDo(c, <<"dec", "full">>) /\ ~ToDo(c, <<"inc", "empty">>)
<1>1. c \in Thread /\ Path(c) = take
  BY FibAssumption DEF Path
<1>2. PICK k \in 1 .. 20 : Place(code[c], take, k)
  BY <1>1 DEF FibShapes
<1>3. QED
  BY <1>2, AheadInTake DEF ToDo

(* An instruction executed leaves all the others ahead, in every thread.    *)
LEMMA OthersStayAhead ==
    ASSUME SemInv, NEW op, Executing(op), Done
    PROVE  /\ current \in Thread /\ status = "running"
           /\ code[current] # <<>> /\ Head(code[current])[1] = op
           /\ code'[current] = Tail(code[current])
           /\ \A t \in Thread \ {current} : code'[t] = code[t]
           /\ \A t \in Thread : \A x : x # Head(code[current]) \/ t # current
                 => (ToDo(t, x)' <=> ToDo(t, x))
<1>1. /\ current \in Thread /\ code[current] # <<>> /\ code[current] \in Seq(Instruction)
      /\ status = "running" /\ Head(code[current])[1] = op
      /\ code' = [code EXCEPT ![current] = Tail(code[current])]
  BY DEF Executing, Done, SemInv, SemTypeOK, ThreadTypeOK
<1>2. /\ code'[current] = Tail(code[current])
      /\ \A t \in Thread \ {current} : code'[t] = code[t]
  BY <1>1 DEF SemInv, SemTypeOK
<1>3. Range(code[current]) = {Head(code[current])} \cup Range(code'[current])
  BY <1>1, <1>2, TailMembers
<1>4. QED
  BY <1>1, <1>2, <1>3 DEF ToDo

(* It leads every thread to a place of its program. *)
LEMMA DoneKeepsShapes ==
    ASSUME SemInv, FibShapes, NEW op, Executing(op), Done
    PROVE  FibShapes'
<1>1. /\ current \in Thread /\ code[current] # <<>>
      /\ code'[current] = Tail(code[current])
      /\ \A t \in Thread \ {current} : code'[t] = code[t]
  BY OthersStayAhead
<1>2. \E k \in 1 .. 20 : Place(code'[current], Path(current), k)
  <2> DEFINE P == Path(current)
  <2>1. P \in Seq(Instruction) /\ Len(P) = 19
    BY TheTwoPrograms DEF Path
  <2>2. PICK k \in 1 .. 20 : Place(code[current], P, k)
    BY <1>1 DEF FibShapes
  <2> HIDE DEF P
  <2>3. k \in 1 .. Len(P) + 1
    BY <2>1
  <2>4. \E m \in 1 .. Len(P) + 1 : Place(Tail(code[current]), P, m)
    BY <1>1, <2>1, <2>2, <2>3, PlaceStep
  <2>5. QED
    BY <1>1, <2>1, <2>4 DEF P
<1>3. QED
  BY <1>1, <1>2 DEF FibShapes, Path

(* An instruction that the program has once is executed there. *)
LEMMA ExecutedOnce ==
    ASSUME SemInv, FibShapes, NEW op, Executing(op), Done,
           NEW x, x = Head(code[current]), x \notin Neutral
    PROVE  /\ ~Never(Path(current), x)
           /\ \A n \in 1 .. 19 : OnceAt(Path(current), x, n)
                => /\ Place(code[current], Path(current), n)
                   /\ Place(code'[current], Path(current), n + 1)
<1> DEFINE P == Path(current)
<1>1. /\ current \in Thread /\ code[current] # <<>>
      /\ code'[current] = Tail(code[current])
  BY OthersStayAhead
<1>2. P \in Seq(Instruction) /\ Len(P) = 19
  BY TheTwoPrograms DEF Path
<1>3. PICK k \in 1 .. 20 : Place(code[current], P, k)
  BY <1>1 DEF FibShapes
<1> HIDE DEF P
<1>4. k \in 1 .. Len(P) + 1
  BY <1>2
<1>5. /\ k \in 1 .. Len(P) /\ x = P[k]
      /\ code[current] = After(P, k) /\ code'[current] = After(P, k + 1)
  <2> DEFINE c == code[current]
  <2>1. Place(c, P, k) /\ c # <<>> /\ Head(c) = x /\ code'[current] = Tail(c)
    BY <1>1, <1>3
  <2> HIDE DEF c
  <2>2. /\ k \in 1 .. Len(P) /\ Head(c) = P[k]
        /\ c = After(P, k) /\ Tail(c) = After(P, k + 1)
    BY <1>2, <1>4, <2>1, ProgramStep
  <2>3. QED
    BY <2>1, <2>2 DEF c
<1>6. ~Never(P, x)
  BY <1>2, <1>5, RangeEquality DEF Never
<1>7. ASSUME NEW n \in 1 .. 19, OnceAt(P, x, n) PROVE n = k
  BY <1>5, <1>7 DEF OnceAt
<1>8. Place(code'[current], P, k + 1)
  <2>1. code'[current] \in Seq(Instruction)
    BY <1>1, HeadTailProperties DEF SemInv, SemTypeOK
  <2>2. <<>> \o code'[current] = code'[current] /\ <<>> \in Seq(Neutral)
    BY <2>1, ConcatEmptySeq, EmptySeq
  <2>3. QED
    BY <1>5, <2>2 DEF Place
<1>9. QED
  BY <1>3, <1>6, <1>7, <1>8 DEF P

(* The places between which each instruction of an add leads, ...           *)
LEMMA ExecutedInAdd ==
    ASSUME SemInv, FibShapes, NEW op, Executing(op), Done, current \in Producers,
           NEW x, x = Head(code[current]), x \in Tracked
    PROVE  /\ x \notin {<<"get">>, <<"less">>, <<"first">>, <<"dec", "empty">>,
                        <<"inc", "full">>}
           /\ \A n \in 1 .. 19 : OnceAt(add, x, n)
                => Place(code[current], add, n) /\ Place(code'[current], add, n + 1)
<1>1. Path(current) = add /\ x \notin Neutral
  BY NotNeutral DEF Path, Tracked
<1>2. /\ ~Never(add, x)
      /\ \A n \in 1 .. 19 : OnceAt(add, x, n)
           => Place(code[current], add, n) /\ Place(code'[current], add, n + 1)
  BY <1>1, ExecutedOnce
<1>3. QED
  BY <1>2, WhereInAdd

(* ... and each of a take.                                                  *)
LEMMA ExecutedInTake ==
    ASSUME SemInv, FibShapes, NEW op, Executing(op), Done, current \notin Producers,
           NEW x, x = Head(code[current]), x \in Tracked
    PROVE  /\ x \notin {<<"put">>, <<"more">>, <<"advance">>, <<"dec", "full">>,
                        <<"inc", "empty">>}
           /\ \A n \in 1 .. 19 : OnceAt(take, x, n)
                => Place(code[current], take, n) /\ Place(code'[current], take, n + 1)
<1>1. Path(current) = take /\ x \notin Neutral
  BY NotNeutral DEF Path, Tracked
<1>2. /\ ~Never(take, x)
      /\ \A n \in 1 .. 19 : OnceAt(take, x, n)
           => Place(code[current], take, n) /\ Place(code'[current], take, n + 1)
  BY <1>1, ExecutedOnce
<1>3. QED
  BY <1>2, WhereInTake

(* Which of the sets a thread is in, by its place. *)
SetsByPlace ==
    \A t \in Thread, k \in 1 .. 20 : Place(code[t], Path(t), k) =>
        /\ t \in Producers =>
             /\ t \in Section <=> 8 <= k /\ k <= 16
             /\ t \in Reserved <=> 4 <= k /\ k <= 10
             /\ t \in Announcing <=> 11 <= k /\ k <= 12
             /\ t \notin Claiming /\ t \notin Returning
        /\ t \notin Producers =>
             /\ t \in Consumers
             /\ t \in Section <=> 8 <= k /\ k <= 17
             /\ t \in Claiming <=> 4 <= k /\ k <= 10
             /\ t \in Returning <=> 11 <= k /\ k <= 12
             /\ t \notin Reserved /\ t \notin Announcing

(* The place a thread has reached decides the sets it is in. *)
LEMMA PlacesSayWhichSets == SetsByPlace
<1>1. ASSUME NEW t \in Thread, NEW k \in 1 .. 20, Place(code[t], Path(t), k),
             t \in Producers
      PROVE  /\ t \in Section <=> 8 <= k /\ k <= 16
             /\ t \in Reserved <=> 4 <= k /\ k <= 10
             /\ t \in Announcing <=> 11 <= k /\ k <= 12
             /\ t \notin Claiming /\ t \notin Returning
  <2>1. Place(code[t], add, k) /\ t \notin Consumers
    BY <1>1, FibAssumption DEF Path
  <2>2. /\ ToDo(t, <<"dec", "full">>) <=> k <= 3
        /\ ToDo(t, <<"dec", "buff_protect">>) <=> k <= 7
        /\ ToDo(t, <<"more">>) <=> k <= 10
        /\ ToDo(t, <<"inc", "empty">>) <=> k <= 12
        /\ ToDo(t, <<"inc", "buff_protect">>) <=> k <= 16
    BY <2>1, AheadInAdd DEF ToDo
  <2>3. QED
    BY <1>1, <2>1, <2>2 DEF Section, InSection, Reserved, Announcing, Claiming, Returning
<1>2. ASSUME NEW t \in Thread, NEW k \in 1 .. 20, Place(code[t], Path(t), k),
             t \notin Producers
      PROVE  /\ t \in Consumers
             /\ t \in Section <=> 8 <= k /\ k <= 17
             /\ t \in Claiming <=> 4 <= k /\ k <= 10
             /\ t \in Returning <=> 11 <= k /\ k <= 12
             /\ t \notin Reserved /\ t \notin Announcing
  <2>1. Place(code[t], take, k) /\ t \in Consumers
    BY <1>2, FibAssumption DEF Path
  <2>2. /\ ToDo(t, <<"dec", "empty">>) <=> k <= 3
        /\ ToDo(t, <<"dec", "buff_protect">>) <=> k <= 7
        /\ ToDo(t, <<"less">>) <=> k <= 10
        /\ ToDo(t, <<"inc", "full">>) <=> k <= 12
        /\ ToDo(t, <<"inc", "buff_protect">>) <=> k <= 17
    BY <2>1, AheadInTake DEF ToDo
  <2>3. QED
    BY <1>2, <2>1, <2>2 DEF Section, InSection, Reserved, Announcing, Claiming, Returning
<1>3. QED
  BY <1>1, <1>2 DEF SetsByPlace

(* A thread in its own code, or that has just called, is in none of them.   *)
InNoSet(t) == /\ t \notin Section /\ t \notin Reserved /\ t \notin Announcing
              /\ t \notin Claiming /\ t \notin Returning

(* No set changes when every thread has the same instructions ahead, or is  *)
(* in none before and after.                                                *)
SameAhead(t) == \A x \in Tracked : ToDo(t, x)' <=> ToDo(t, x)

(* Nobody enters or leaves a set while what is ahead stays ahead. *)
LEMMA SetsUnchanged ==
    ASSUME \A t \in Thread : SameAhead(t) \/ (InNoSet(t) /\ InNoSet(t)')
    PROVE  /\ Section' = Section /\ Reserved' = Reserved /\ Announcing' = Announcing
           /\ Claiming' = Claiming /\ Returning' = Returning
<1>1. ASSUME NEW t \in Thread
      PROVE  /\ t \in Section' <=> t \in Section
             /\ t \in Reserved' <=> t \in Reserved
             /\ t \in Announcing' <=> t \in Announcing
             /\ t \in Claiming' <=> t \in Claiming
             /\ t \in Returning' <=> t \in Returning
  <2>1. CASE SameAhead(t)
    <3>1. /\ ToDo(t, <<"more">>)' <=> ToDo(t, <<"more">>)
          /\ ToDo(t, <<"less">>)' <=> ToDo(t, <<"less">>)
          /\ \A s \in {"full", "empty", "buff_protect"} :
                /\ ToDo(t, <<"dec", s>>)' <=> ToDo(t, <<"dec", s>>)
                /\ ToDo(t, <<"inc", s>>)' <=> ToDo(t, <<"inc", s>>)
      BY <2>1 DEF SameAhead, Tracked
    <3>2. QED
      BY <3>1 DEF Section, InSection, Reserved, Announcing, Claiming, Returning
  <2>2. CASE InNoSet(t) /\ InNoSet(t)'
    BY <2>2 DEF InNoSet
  <2>3. QED
    BY <1>1, <2>1, <2>2
<1>2. /\ Section \subseteq Thread /\ Section' \subseteq Thread
      /\ Reserved \subseteq Thread /\ Reserved' \subseteq Thread
      /\ Announcing \subseteq Thread /\ Announcing' \subseteq Thread
      /\ Claiming \subseteq Thread /\ Claiming' \subseteq Thread
      /\ Returning \subseteq Thread /\ Returning' \subseteq Thread
  BY FibAssumption DEF Section, Reserved, Announcing, Claiming, Returning
<1>3. QED
  BY <1>1, <1>2

(* The same after a step. *)
LEMMA PlacesSayWhichSetsNext == SetsByPlace'
BY PlacesSayWhichSets, PTL

(* What each of the instructions about a semaphore's value or about count   *)
(* does to the sets.                                                        *)
SameSets ==
    /\ Section' = Section /\ Reserved' = Reserved /\ Announcing' = Announcing
    /\ Claiming' = Claiming /\ Returning' = Returning

SetsAfter(x) ==
    /\ x = <<"dec", "full">> =>
          /\ current \in Producers /\ current \notin Reserved
          /\ Reserved' = Reserved \cup {current}
          /\ UNCHANGED <<Section, Announcing, Claiming, Returning>>
    /\ x = <<"dec", "empty">> =>
          /\ current \in Consumers /\ current \notin Claiming
          /\ Claiming' = Claiming \cup {current}
          /\ UNCHANGED <<Section, Reserved, Announcing, Returning>>
    /\ x = <<"dec", "buff_protect">> =>
          /\ current \notin Section /\ Section' = Section \cup {current}
          /\ UNCHANGED <<Reserved, Announcing, Claiming, Returning>>
    /\ x = <<"more">> =>
          /\ current \in Producers /\ current \in Reserved
          /\ current \notin Announcing /\ current \in Section
          /\ Reserved' = Reserved \ {current}
          /\ Announcing' = Announcing \cup {current}
          /\ UNCHANGED <<Section, Claiming, Returning>>
    /\ x = <<"less">> =>
          /\ current \in Consumers /\ current \in Claiming
          /\ current \notin Returning /\ current \in Section
          /\ Claiming' = Claiming \ {current}
          /\ Returning' = Returning \cup {current}
          /\ UNCHANGED <<Section, Reserved, Announcing>>
    /\ x = <<"inc", "empty">> =>
          /\ current \in Announcing /\ Announcing' = Announcing \ {current}
          /\ UNCHANGED <<Section, Reserved, Claiming, Returning>>
    /\ x = <<"inc", "full">> =>
          /\ current \in Returning /\ Returning' = Returning \ {current}
          /\ UNCHANGED <<Section, Reserved, Announcing, Claiming>>
    /\ x = <<"inc", "buff_protect">> =>
          /\ current \in Section /\ Section' = Section \ {current}
          /\ UNCHANGED <<Reserved, Announcing, Claiming, Returning>>
    /\ x = <<"put">> =>
          /\ current \in Producers /\ current \in Section /\ current \in Reserved
          /\ SameSets
    /\ x = <<"get">> =>
          /\ current \in Consumers /\ current \in Section /\ current \in Claiming
          /\ SameSets
    /\ x = <<"first">> =>
          current \in Consumers /\ current \in Section /\ SameSets
    /\ x = <<"advance">> =>
          current \in Producers /\ SameSets

(* A set in which only one thread's membership may change. *)
OnlyMoves(A, B, t) ==
    /\ t \in B => B = A \cup {t}
    /\ t \notin B => B = A \ {t}
    /\ (t \in A <=> t \in B) => B = A

(* The other threads stay in their sets. *)
LEMMA OthersKeepSets ==
    ASSUME SemInv, NEW op, Executing(op), Done
    PROVE  /\ OnlyMoves(Section, Section', current)
           /\ OnlyMoves(Reserved, Reserved', current)
           /\ OnlyMoves(Announcing, Announcing', current)
           /\ OnlyMoves(Claiming, Claiming', current)
           /\ OnlyMoves(Returning, Returning', current)
<1>1. ASSUME NEW t \in Thread \ {current}
      PROVE  /\ t \in Section' <=> t \in Section
             /\ t \in Reserved' <=> t \in Reserved
             /\ t \in Announcing' <=> t \in Announcing
             /\ t \in Claiming' <=> t \in Claiming
             /\ t \in Returning' <=> t \in Returning
  <2>1. code'[t] = code[t]
    BY OthersStayAhead
  <2>2. \A x : ToDo(t, x)' <=> ToDo(t, x)
    BY <2>1 DEF ToDo
  <2>3. QED
    BY <2>2 DEF Section, InSection, Reserved, Announcing, Claiming, Returning
<1>2. /\ Section \subseteq Thread /\ Section' \subseteq Thread
      /\ Reserved \subseteq Thread /\ Reserved' \subseteq Thread
      /\ Announcing \subseteq Thread /\ Announcing' \subseteq Thread
      /\ Claiming \subseteq Thread /\ Claiming' \subseteq Thread
      /\ Returning \subseteq Thread /\ Returning' \subseteq Thread
  BY FibAssumption DEF Section, Reserved, Announcing, Claiming, Returning
<1>3. ASSUME NEW A \in SUBSET Thread, NEW B \in SUBSET Thread,
             \A t \in Thread \ {current} : t \in B <=> t \in A
      PROVE  OnlyMoves(A, B, current)
  BY <1>3 DEF OnlyMoves
<1>4. QED
  BY <1>1, <1>2, <1>3

(* Executing a tracked instruction moves the current thread alone. *)
LEMMA ExecutedMovesSets ==
    ASSUME SemInv, FibShapes, NEW op, Executing(op), Done,
           NEW x, x = Head(code[current]), x \in Tracked
    PROVE  SetsAfter(x)
<1>1. current \in Thread
  BY OthersStayAhead
<1>2. /\ OnlyMoves(Section, Section', current)
      /\ OnlyMoves(Reserved, Reserved', current)
      /\ OnlyMoves(Announcing, Announcing', current)
      /\ OnlyMoves(Claiming, Claiming', current)
      /\ OnlyMoves(Returning, Returning', current)
  BY OthersKeepSets
<1>3. current \notin Producers => current \in Consumers
  BY <1>1, FibAssumption
<1>4. CASE current \in Producers
  <2>1. x \notin {<<"get">>, <<"less">>, <<"first">>, <<"dec", "empty">>, <<"inc", "full">>}
    BY <1>4, ExecutedInAdd
  <2>2. ASSUME NEW n \in 1 .. 19, OnceAt(add, x, n)
        PROVE  /\ current \in Section <=> 8 <= n /\ n <= 16
               /\ current \in Section' <=> 8 <= n + 1 /\ n + 1 <= 16
               /\ current \in Reserved <=> 4 <= n /\ n <= 10
               /\ current \in Reserved' <=> 4 <= n + 1 /\ n + 1 <= 10
               /\ current \in Announcing <=> 11 <= n /\ n <= 12
               /\ current \in Announcing' <=> 11 <= n + 1 /\ n + 1 <= 12
               /\ current \notin Claiming /\ current \notin Claiming'
               /\ current \notin Returning /\ current \notin Returning'
    <3>1. /\ Place(code[current], Path(current), n)
          /\ Place(code'[current], Path(current), n + 1)
      BY <1>4, <2>2, ExecutedInAdd DEF Path
    <3>2. n \in 1 .. 20 /\ n + 1 \in 1 .. 20
      OBVIOUS
    <3>3. QED
      BY <1>1, <1>4, <3>1, <3>2, PlacesSayWhichSets, PlacesSayWhichSetsNext DEF SetsByPlace
  <2>3. ASSUME x = <<"dec", "full">> PROVE SetsAfter(x)
    <3>1. OnceAt(add, x, 3)
      BY <2>3, WhereInAdd
    <3>2. QED
      BY <1>1, <1>2, <1>3, <1>4, <2>3, <2>2, <3>1 DEF SetsAfter, SameSets, OnlyMoves
  <2>4. ASSUME x = <<"dec", "buff_protect">> PROVE SetsAfter(x)
    <3>1. OnceAt(add, x, 7)
      BY <2>4, WhereInAdd
    <3>2. QED
      BY <1>1, <1>2, <1>3, <1>4, <2>4, <2>2, <3>1 DEF SetsAfter, SameSets, OnlyMoves
  <2>5. ASSUME x = <<"put">> PROVE SetsAfter(x)
    <3>1. OnceAt(add, x, 9)
      BY <2>5, WhereInAdd
    <3>2. QED
      BY <1>1, <1>2, <1>3, <1>4, <2>5, <2>2, <3>1 DEF SetsAfter, SameSets, OnlyMoves
  <2>6. ASSUME x = <<"more">> PROVE SetsAfter(x)
    <3>1. OnceAt(add, x, 10)
      BY <2>6, WhereInAdd
    <3>2. QED
      BY <1>1, <1>2, <1>3, <1>4, <2>6, <2>2, <3>1 DEF SetsAfter, SameSets, OnlyMoves
  <2>7. ASSUME x = <<"inc", "empty">> PROVE SetsAfter(x)
    <3>1. OnceAt(add, x, 12)
      BY <2>7, WhereInAdd
    <3>2. QED
      BY <1>1, <1>2, <1>3, <1>4, <2>7, <2>2, <3>1 DEF SetsAfter, SameSets, OnlyMoves
  <2>8. ASSUME x = <<"inc", "buff_protect">> PROVE SetsAfter(x)
    <3>1. OnceAt(add, x, 16)
      BY <2>8, WhereInAdd
    <3>2. QED
      BY <1>1, <1>2, <1>3, <1>4, <2>8, <2>2, <3>1 DEF SetsAfter, SameSets, OnlyMoves
  <2>9. ASSUME x = <<"advance">> PROVE SetsAfter(x)
    <3>1. OnceAt(add, x, 19)
      BY <2>9, WhereInAdd
    <3>2. QED
      BY <1>1, <1>2, <1>3, <1>4, <2>9, <2>2, <3>1 DEF SetsAfter, SameSets, OnlyMoves
  <2>10. QED
    BY <2>1, <2>3, <2>4, <2>5, <2>6, <2>7, <2>8, <2>9 DEF Tracked
<1>5. CASE current \notin Producers
  <2>1. x \notin {<<"put">>, <<"more">>, <<"advance">>, <<"dec", "full">>, <<"inc", "empty">>}
    BY <1>5, ExecutedInTake
  <2>2. ASSUME NEW n \in 1 .. 19, OnceAt(take, x, n)
        PROVE  /\ current \in Section <=> 8 <= n /\ n <= 17
               /\ current \in Section' <=> 8 <= n + 1 /\ n + 1 <= 17
               /\ current \in Claiming <=> 4 <= n /\ n <= 10
               /\ current \in Claiming' <=> 4 <= n + 1 /\ n + 1 <= 10
               /\ current \in Returning <=> 11 <= n /\ n <= 12
               /\ current \in Returning' <=> 11 <= n + 1 /\ n + 1 <= 12
               /\ current \notin Reserved /\ current \notin Reserved'
               /\ current \notin Announcing /\ current \notin Announcing'
    <3>1. /\ Place(code[current], Path(current), n)
          /\ Place(code'[current], Path(current), n + 1)
      BY <1>5, <2>2, ExecutedInTake DEF Path
    <3>2. n \in 1 .. 20 /\ n + 1 \in 1 .. 20
      OBVIOUS
    <3>3. QED
      BY <1>1, <1>5, <3>1, <3>2, PlacesSayWhichSets, PlacesSayWhichSetsNext DEF SetsByPlace
  <2>3. ASSUME x = <<"dec", "empty">> PROVE SetsAfter(x)
    <3>1. OnceAt(take, x, 3)
      BY <2>3, WhereInTake
    <3>2. QED
      BY <1>1, <1>2, <1>3, <1>5, <2>3, <2>2, <3>1 DEF SetsAfter, SameSets, OnlyMoves
  <2>4. ASSUME x = <<"dec", "buff_protect">> PROVE SetsAfter(x)
    <3>1. OnceAt(take, x, 7)
      BY <2>4, WhereInTake
    <3>2. QED
      BY <1>1, <1>2, <1>3, <1>5, <2>4, <2>2, <3>1 DEF SetsAfter, SameSets, OnlyMoves
  <2>5. ASSUME x = <<"get">> PROVE SetsAfter(x)
    <3>1. OnceAt(take, x, 9)
      BY <2>5, WhereInTake
    <3>2. QED
      BY <1>1, <1>2, <1>3, <1>5, <2>5, <2>2, <3>1 DEF SetsAfter, SameSets, OnlyMoves
  <2>6. ASSUME x = <<"less">> PROVE SetsAfter(x)
    <3>1. OnceAt(take, x, 10)
      BY <2>6, WhereInTake
    <3>2. QED
      BY <1>1, <1>2, <1>3, <1>5, <2>6, <2>2, <3>1 DEF SetsAfter, SameSets, OnlyMoves
  <2>7. ASSUME x = <<"inc", "full">> PROVE SetsAfter(x)
    <3>1. OnceAt(take, x, 12)
      BY <2>7, WhereInTake
    <3>2. QED
      BY <1>1, <1>2, <1>3, <1>5, <2>7, <2>2, <3>1 DEF SetsAfter, SameSets, OnlyMoves
  <2>8. ASSUME x = <<"first">> PROVE SetsAfter(x)
    <3>1. OnceAt(take, x, 15)
      BY <2>8, WhereInTake
    <3>2. QED
      BY <1>1, <1>2, <1>3, <1>5, <2>8, <2>2, <3>1 DEF SetsAfter, SameSets, OnlyMoves
  <2>9. ASSUME x = <<"inc", "buff_protect">> PROVE SetsAfter(x)
    <3>1. OnceAt(take, x, 17)
      BY <2>9, WhereInTake
    <3>2. QED
      BY <1>1, <1>2, <1>3, <1>5, <2>9, <2>2, <3>1 DEF SetsAfter, SameSets, OnlyMoves
  <2>10. QED
    BY <2>1, <2>3, <2>4, <2>5, <2>6, <2>7, <2>8, <2>9 DEF Tracked
<1>6. QED
  BY <1>4, <1>5

-----------------------------------------------------------------------------
(* Steps that execute no tracked instruction. *)

(* Library code put in front of what a thread has left. *)
LEMMA FrontKeepsShapes ==
    ASSUME SemInv, FibShapes, NEW d \in Seq(Neutral), current \in Thread,
           code' = [code EXCEPT ![current] = d \o @]
    PROVE  FibShapes' /\ \A t \in Thread : SameAhead(t)
<1> DEFINE c == code[current]
           P == Path(current)
<1>1. /\ c \in Seq(Instruction) /\ code'[current] = d \o c
      /\ \A t \in Thread \ {current} : code'[t] = code[t]
  BY DEF SemInv, SemTypeOK
<1>2. P \in Seq(Instruction) /\ Len(P) = 19
  BY TheTwoPrograms DEF Path
<1>3. PICK k \in 1 .. 20 : Place(c, P, k)
  BY DEF FibShapes
<1> HIDE DEF c, P
<1>4. Place(d \o c, P, k)
  <2>1. k \in 1 .. Len(P) + 1
    BY <1>2
  <2>2. QED
    BY <1>2, <1>3, <2>1, PlaceBehind
<1>5. FibShapes'
  <2>1. Place(code'[current], Path(current), k)
    BY <1>1, <1>4 DEF P
  <2>2. QED
    BY <1>1, <2>1 DEF FibShapes, Path
<1>6. ASSUME NEW t \in Thread PROVE SameAhead(t)
  <2>1. CASE t = current
    <3>1. Neutral \subseteq Instruction
      BY DEF Neutral, Instruction, SemaphoreOps
    <3>2. d \in Seq(Instruction) /\ Range(d) \subseteq Neutral
      BY <3>1, SeqMonotonic, RangeOfSeq
    <3>3. Range(d \o c) = Range(d) \cup Range(c)
      BY <1>1, <3>2, RangeConcatenation
    <3>4. \A x \in Tracked : x \notin Neutral
      BY NotNeutral DEF Tracked
    <3>5. \A x \in Tracked : x \in Range(code'[current]) <=> x \in Range(c)
      BY <1>1, <3>2, <3>3, <3>4
    <3>6. QED
      BY <2>1, <3>5 DEF SameAhead, ToDo, c
  <2>2. CASE t # current
    BY <1>1, <2>2 DEF SameAhead, ToDo
  <2>3. QED
    BY <2>1, <2>2
<1>7. QED
  BY <1>5, <1>6

(* Nothing the invariant looks at has changed. *)
LEMMA QuietKeepsInv ==
    ASSUME FibInv, UNCHANGED <<value, bufferVars, i>>,
           \A t \in Thread : \/ SameAhead(t)
                             \/ t \notin Producers /\ InNoSet(t) /\ InNoSet(t)'
    PROVE  FibTypeOK' /\ MutexInv' /\ CreditInv' /\ ElementsInv'
<1>1. SameSets
  BY SetsUnchanged DEF SameSets
<1>2. MutexInv' /\ CreditInv'
  BY <1>1 DEF FibInv, MutexInv, CreditInv, SameSets, bufferVars
<1>3. FibTypeOK'
  BY DEF FibInv, FibTypeOK, bufferVars
<1>4. ASSUME NEW p \in Producers
      PROVE  /\ ToDo(p, <<"more">>)' <=> ToDo(p, <<"more">>)
             /\ ToDo(p, <<"put">>)' <=> ToDo(p, <<"put">>)
  BY FibAssumption DEF SameAhead, Tracked
<1>5. ElementsInv'
  BY <1>4 DEF FibInv, ElementsInv, bufferVars
<1>6. QED
  BY <1>2, <1>3, <1>5

(* Nor does a step that executes an instruction that is not tracked, or     *)
(* none.                                                                    *)
QuietStep == SemInv' /\ FibShapes' /\ \A t \in Thread : SameAhead(t)

(* Executing any other instruction moves nobody. *)
LEMMA UntrackedIsQuiet ==
    ASSUME SemInv, FibShapes, NEW op, Executing(op), Done,
           Head(code[current]) \notin Tracked
    PROVE  FibShapes' /\ \A t \in Thread : SameAhead(t)
<1>1. FibShapes'
  BY DoneKeepsShapes
<1>2. \A t \in Thread : SameAhead(t)
  BY OthersStayAhead DEF SameAhead
<1>3. QED
  BY <1>1, <1>2

(* Neither does a step that leaves the code as it is. *)
LEMMA IdleIsQuiet ==
    ASSUME FibShapes, code' = code
    PROVE  FibShapes' /\ \A t \in Thread : SameAhead(t)
BY DEF FibShapes, Path, SameAhead, ToDo

(* A quiet step keeps the invariant. *)
LEMMA QuietStepKeepsInv ==
    ASSUME FibInv, QuietStep, UNCHANGED <<value, bufferVars, i>>
    PROVE  FibInv'
<1>1. FibTypeOK' /\ MutexInv' /\ CreditInv' /\ ElementsInv'
  BY QuietKeepsInv DEF QuietStep
<1>2. QED
  BY <1>1 DEF QuietStep, FibInv

(* The instruction at the head, for an operation with and without operand.  *)
LEMMA HeadExecuted ==
    ASSUME SemInv, NEW op, Executing(op), Done
    PROVE  /\ op \in SemaphoreOps => /\ Operand \in Semaphores
                                     /\ Head(code[current]) = <<op, Operand>>
           /\ op \notin SemaphoreOps => Head(code[current]) = <<op>>
<1>1. Head(code[current]) \in Instruction /\ Head(code[current])[1] = op
  BY InstructionStep DEF Executing
<1>2. QED
  BY <1>1, OperandOfInstruction DEF Operand

-----------------------------------------------------------------------------
(* The steps of the thread library and of the timer. *)

(* yield, finish and the way into a blocked wait are library code. *)
LEMMA LibraryIsNeutral ==
    /\ yield \in Seq(Neutral) /\ finish \in Seq(Neutral)
    /\ << <<"schedule">> >> \in Seq(Neutral)
    /\ \A s \in Semaphores :
          << <<"append", s>> >> \o block \o << <<"lock">> >> \in Seq(Neutral)
<1>1. /\ \A op \in ThreadOps : <<op>> \in Neutral
      /\ \A s \in Semaphores : <<"append", s>> \in Neutral
  BY DEF Neutral
<1>2. QED
  BY <1>1 DEF yield, finish, block, ThreadOps

(* The library's own steps are quiet. *)
LEMMA RunIsQuiet ==
    ASSUME FibInv, Run, UNCHANGED semaphoreVars
    PROVE  QuietStep
<1>1. SemInv /\ FibShapes
  BY DEF FibInv
<1>2. CASE StartUp
  <2>1. SemInv'
    BY <1>1, <1>2, StartUpKeepsInv
  <2>2. code' = code
    BY <1>2 DEF StartUp, Create, StartTimer, SetSchedulerContext, FirstSchedule
  <2>3. QED
    BY <1>1, <2>1, <2>2, IdleIsQuiet DEF QuietStep
<1>3. CASE LibraryStep
  <2>1. SemInv'
    BY <1>1, <1>3, LibraryKeepsInv
  <2>2. PICK op \in ThreadOps : Executing(op) /\ Done
    BY <1>3 DEF LibraryStep, Schedule, Lock, Unlock, Block, Finish, SetState, ThreadOps
  <2>3. Head(code[current]) = <<op>>
    BY <1>1, <2>2, HeadExecuted DEF ThreadOps, SemaphoreOps
  <2>4. Head(code[current]) \notin Tracked
    BY <2>3 DEF ThreadOps, Tracked
  <2>5. QED
    BY <1>1, <2>1, <2>2, <2>4, UntrackedIsQuiet DEF QuietStep
<1>4. ASSUME NEW program \in {yield, finish}, Call(program) PROVE QuietStep
  <2>1. WellFormed(program)
    BY <1>4, ProgramsWellFormed
  <2>2. program # <<>> /\ Head(program)[1] \in {"lock", "finish"}
    BY <1>4 DEF yield, finish
  <2>3. SemInv'
    BY <1>1, <1>4, <2>1, <2>2, CallKeepsInv DEF Critical, SemaphoreOps
  <2>4. program \in Seq(Neutral) /\ program \o <<>> = program
    BY <1>4, LibraryIsNeutral, ConcatEmptySeq
  <2>5. /\ current \in Thread /\ code[current] = <<>>
        /\ code' = [code EXCEPT ![current] = program]
    BY <1>1, <1>4 DEF Call, SemInv, SemTypeOK, ThreadTypeOK
  <2>6. code' = [code EXCEPT ![current] = program \o @]
    BY <1>1, <2>4, <2>5
  <2>7. QED
    BY <1>1, <2>3, <2>4, <2>5, <2>6, FrontKeepsShapes DEF QuietStep
<1>5. QED
  BY <1>2, <1>3, <1>4 DEF Run

(* So is the timer, whenever it preempts. *)
LEMMA InterruptIsQuiet ==
    ASSUME FibInv, Interrupt, UNCHANGED semaphoreVars
    PROVE  QuietStep
<1>1. SemInv /\ FibShapes
  BY DEF FibInv
<1>2. SemInv'
  BY <1>1, InterruptKeepsInv
<1>3. CASE Tick
  <2>1. current \in Thread /\ code' = [code EXCEPT ![current] = << <<"schedule">> >> \o @]
    BY <1>1, <1>3 DEF Tick, SemInv, SemTypeOK, ThreadTypeOK
  <2>2. QED
    BY <1>1, <1>2, <2>1, LibraryIsNeutral, FrontKeepsShapes DEF QuietStep
<1>4. CASE TickWhileStarting
  <2>1. code' = code
    BY <1>4 DEF TickWhileStarting
  <2>2. QED
    BY <1>1, <1>2, <2>1, IdleIsQuiet DEF QuietStep
<1>5. QED
  BY <1>3, <1>4 DEF Interrupt

-----------------------------------------------------------------------------
(* The steps of the semaphores. *)

(* One more, or one fewer. *)
LEMMA CountedSets ==
    ASSUME NEW A \in SUBSET Thread, NEW x \in Thread
    PROVE  /\ Cardinality(A) \in Nat
           /\ x \notin A => Cardinality(A \cup {x}) = Cardinality(A) + 1
           /\ x \in A => Cardinality(A \ {x}) = Cardinality(A) - 1
<1>1. IsFiniteSet(A)
  BY SThreadAssumption, FS_Subset
<1>2. Cardinality(A) \in Nat
  BY <1>1, FS_CardinalityType
<1>3. x \notin A => Cardinality(A \cup {x}) = Cardinality(A) + 1
  BY <1>1, FS_AddElement
<1>4. x \in A => Cardinality(A \ {x}) = Cardinality(A) - 1
  BY <1>1, FS_RemoveElement
<1>5. QED
  BY <1>2, <1>3, <1>4

(* The sets hold threads. *)
LEMMA SetsAreOfThreads ==
    /\ Section \in SUBSET Thread /\ Reserved \in SUBSET Thread
    /\ Announcing \in SUBSET Thread /\ Claiming \in SUBSET Thread
    /\ Returning \in SUBSET Thread
BY FibAssumption DEF Section, Reserved, Announcing, Claiming, Returning

(* The values and the numbers of threads are numbers. *)
LEMMA CountsAreNumbers ==
    ASSUME FibInv
    PROVE  /\ value["full"] \in Nat /\ value["empty"] \in Nat
           /\ value["buff_protect"] \in Nat /\ count \in Nat
           /\ Cardinality(Section) \in Nat /\ Cardinality(Reserved) \in Nat
           /\ Cardinality(Announcing) \in Nat /\ Cardinality(Claiming) \in Nat
           /\ Cardinality(Returning) \in Nat
<1>1. PICK x \in Thread : TRUE
  BY SThreadAssumption
<1>2. \A A \in SUBSET Thread : Cardinality(A) \in Nat
  BY <1>1, CountedSets
<1>3. value["full"] \in Nat /\ value["empty"] \in Nat /\ value["buff_protect"] \in Nat
  BY BufferAssumption DEF FibInv, SemInv, SemTypeOK
<1>4. QED
  BY <1>2, <1>3, SetsAreOfThreads DEF FibInv, FibTypeOK

(* A tracked instruction other than put and advance leaves what the         *)
(* elements are said to be.                                                 *)
LEMMA ElementsKept ==
    ASSUME FibInv, NEW op, Executing(op), Done,
           Head(code[current]) \notin {<<"put">>, <<"more">>},
           UNCHANGED <<buffer, first, count, elem, i>>
    PROVE  ElementsInv'
<1>1. SemInv
  BY DEF FibInv
<1>2. ASSUME NEW p \in Producers
      PROVE  /\ ToDo(p, <<"more">>)' <=> ToDo(p, <<"more">>)
             /\ ToDo(p, <<"put">>)' <=> ToDo(p, <<"put">>)
  BY <1>1, FibAssumption, OthersStayAhead
<1>3. QED
  BY <1>2 DEF FibInv, ElementsInv

(* Taking a slot, an element or the mutex. *)
LEMMA DecrementKeepsFib ==
    ASSUME FibInv, Decrement, UNCHANGED <<bufferVars, i>>
    PROVE  FibInv'
<1>1. SemInv /\ FibShapes /\ Executing("dec") /\ Done
  BY DEF FibInv, Decrement
<1> DEFINE s == Operand
<1>2. /\ s \in {"full", "empty", "buff_protect"} /\ Head(code[current]) = <<"dec", s>>
      /\ current \in Thread
  BY <1>1, HeadExecuted, OthersStayAhead, BufferAssumption DEF SemaphoreOps
<1>3. SemInv' /\ FibShapes'
  BY <1>1, SemaphoreKeepsInv, DoneKeepsShapes DEF SemaphoreStep
<1>4. /\ value'[s] = value[s] - 1 /\ \A r \in Semaphores \ {s} : value'[r] = value[r]
      /\ count' = count
  BY <1>1, <1>2, BufferAssumption DEF Decrement, bufferVars, SemInv, SemTypeOK
<1> HIDE DEF s
<1>5. SetsAfter(<<"dec", s>>)
  BY <1>1, <1>2, ExecutedMovesSets DEF Tracked
<1>6. FibTypeOK'
  BY DEF FibInv, FibTypeOK, bufferVars
<1>7. ElementsInv'
  <2>1. <<"dec", s>> \notin {<<"put">>, <<"more">>}
    OBVIOUS
  <2>2. QED
    BY <1>1, <1>2, <2>1, ElementsKept DEF bufferVars
<1>8. /\ \A A \in SUBSET Thread : current \notin A =>
            Cardinality(A \cup {current}) = Cardinality(A) + 1
      /\ MutexInv /\ CreditInv
  BY <1>2, CountedSets DEF FibInv
<1>9. MutexInv' /\ CreditInv'
  <2>1. CASE s = "full"
    <3>1. /\ Cardinality(Reserved)' = Cardinality(Reserved) + 1
          /\ UNCHANGED <<Section, Announcing, Claiming, Returning>>
      BY <1>5, <1>8, <2>1, SetsAreOfThreads DEF SetsAfter
    <3>2. /\ value'["full"] = value["full"] - 1 /\ value'["empty"] = value["empty"]
          /\ value'["buff_protect"] = value["buff_protect"]
      BY <1>4, <2>1, BufferAssumption
    <3>3. QED
      BY <1>4, <1>8, <3>1, <3>2, CountsAreNumbers DEF MutexInv, CreditInv
  <2>2. CASE s = "empty"
    <3>1. /\ Cardinality(Claiming)' = Cardinality(Claiming) + 1
          /\ UNCHANGED <<Section, Reserved, Announcing, Returning>>
      BY <1>5, <1>8, <2>2, SetsAreOfThreads DEF SetsAfter
    <3>2. /\ value'["empty"] = value["empty"] - 1 /\ value'["full"] = value["full"]
          /\ value'["buff_protect"] = value["buff_protect"]
      BY <1>4, <2>2, BufferAssumption
    <3>3. QED
      BY <1>4, <1>8, <3>1, <3>2, CountsAreNumbers DEF MutexInv, CreditInv
  <2>3. CASE s = "buff_protect"
    <3>1. /\ Cardinality(Section)' = Cardinality(Section) + 1
          /\ UNCHANGED <<Reserved, Announcing, Claiming, Returning>>
      BY <1>5, <1>8, <2>3, SetsAreOfThreads DEF SetsAfter
    <3>2. /\ value'["buff_protect"] = value["buff_protect"] - 1
          /\ value'["full"] = value["full"] /\ value'["empty"] = value["empty"]
      BY <1>4, <2>3, BufferAssumption
    <3>3. QED
      BY <1>4, <1>8, <3>1, <3>2, CountsAreNumbers DEF MutexInv, CreditInv
  <2>4. QED
    BY <1>2, <2>1, <2>2, <2>3 DEF s
<1>10. QED
  BY <1>3, <1>6, <1>7, <1>9 DEF FibInv

(* Giving one back. *)
LEMMA IncrementKeepsFib ==
    ASSUME FibInv, Increment, UNCHANGED <<bufferVars, i>>
    PROVE  FibInv'
<1>1. SemInv /\ FibShapes /\ Executing("inc") /\ Done
  BY DEF FibInv, Increment
<1> DEFINE s == Operand
<1>2. /\ s \in {"full", "empty", "buff_protect"} /\ Head(code[current]) = <<"inc", s>>
      /\ current \in Thread
  BY <1>1, HeadExecuted, OthersStayAhead, BufferAssumption DEF SemaphoreOps
<1>3. SemInv' /\ FibShapes'
  BY <1>1, SemaphoreKeepsInv, DoneKeepsShapes DEF SemaphoreStep
<1>4. /\ value'[s] = value[s] + 1 /\ \A r \in Semaphores \ {s} : value'[r] = value[r]
      /\ count' = count
  BY <1>1, <1>2, BufferAssumption DEF Increment, bufferVars, SemInv, SemTypeOK
<1> HIDE DEF s
<1>5. SetsAfter(<<"inc", s>>)
  BY <1>1, <1>2, ExecutedMovesSets DEF Tracked
<1>6. FibTypeOK'
  BY DEF FibInv, FibTypeOK, bufferVars
<1>7. ElementsInv'
  <2>1. <<"inc", s>> \notin {<<"put">>, <<"more">>}
    OBVIOUS
  <2>2. QED
    BY <1>1, <1>2, <2>1, ElementsKept DEF bufferVars
<1>8. /\ \A A \in SUBSET Thread : current \in A =>
            Cardinality(A \ {current}) = Cardinality(A) - 1
      /\ MutexInv /\ CreditInv
  BY <1>2, CountedSets DEF FibInv
<1>9. MutexInv' /\ CreditInv'
  <2>1. CASE s = "full"
    <3>1. /\ Cardinality(Returning)' = Cardinality(Returning) - 1
          /\ UNCHANGED <<Section, Reserved, Announcing, Claiming>>
      BY <1>5, <1>8, <2>1, SetsAreOfThreads DEF SetsAfter
    <3>2. /\ value'["full"] = value["full"] + 1 /\ value'["empty"] = value["empty"]
          /\ value'["buff_protect"] = value["buff_protect"]
      BY <1>4, <2>1, BufferAssumption
    <3>3. QED
      BY <1>4, <1>8, <3>1, <3>2, CountsAreNumbers DEF MutexInv, CreditInv
  <2>2. CASE s = "empty"
    <3>1. /\ Cardinality(Announcing)' = Cardinality(Announcing) - 1
          /\ UNCHANGED <<Section, Reserved, Claiming, Returning>>
      BY <1>5, <1>8, <2>2, SetsAreOfThreads DEF SetsAfter
    <3>2. /\ value'["empty"] = value["empty"] + 1 /\ value'["full"] = value["full"]
          /\ value'["buff_protect"] = value["buff_protect"]
      BY <1>4, <2>2, BufferAssumption
    <3>3. QED
      BY <1>4, <1>8, <3>1, <3>2, CountsAreNumbers DEF MutexInv, CreditInv
  <2>3. CASE s = "buff_protect"
    <3>1. /\ Cardinality(Section)' = Cardinality(Section) - 1
          /\ UNCHANGED <<Reserved, Announcing, Claiming, Returning>>
      BY <1>5, <1>8, <2>3, SetsAreOfThreads DEF SetsAfter
    <3>2. /\ value'["buff_protect"] = value["buff_protect"] + 1
          /\ value'["full"] = value["full"] /\ value'["empty"] = value["empty"]
      BY <1>4, <2>3, BufferAssumption
    <3>3. QED
      BY <1>4, <1>8, <3>1, <3>2, CountsAreNumbers DEF MutexInv, CreditInv
  <2>4. QED
    BY <1>2, <2>1, <2>2, <2>3 DEF s
<1>10. QED
  BY <1>3, <1>6, <1>7, <1>9 DEF FibInv

(* Looking at a value, queueing up and waking change no value. *)
LEMMA WaitingIsQuiet ==
    ASSUME FibInv, While \/ semp_append \/ Wake
    PROVE  QuietStep /\ value' = value
<1>1. SemInv /\ SemInv' /\ FibShapes
  BY SemaphoreKeepsInv DEF FibInv, SemaphoreStep
<1>2. CASE While
  <2>1. Executing("while") /\ value' = value
    BY <1>2 DEF While
  <2> DEFINE s == Operand
             d == << <<"append", s>> >> \o block \o << <<"lock">> >>
  <2>2. current \in Thread /\ s \in Semaphores /\ Head(code[current]) = <<"while", s>>
    <3>1. current \in Thread /\ code[current] # <<>> /\ code[current] \in Seq(Instruction)
      BY <1>1, <2>1 DEF Executing, SemInv, SemTypeOK, ThreadTypeOK
    <3>2. Head(code[current]) \in Instruction /\ Head(code[current])[1] = "while"
      BY <2>1, <3>1, HeadTailProperties DEF Executing
    <3>3. QED
      BY <3>1, <3>2, OperandOfInstruction DEF Operand, SemaphoreOps
  <2>3. CASE value[s] = 0
    <3>1. code' = [code EXCEPT ![current] = d \o @]
      BY <1>2, <2>3 DEF While
    <3>2. d \in Seq(Neutral)
      BY <2>2, LibraryIsNeutral
    <3> HIDE DEF d
    <3>3. QED
      BY <1>1, <2>1, <2>2, <3>1, <3>2, FrontKeepsShapes DEF QuietStep
  <2>4. CASE value[s] # 0
    <3>1. Done
      BY <1>2, <2>4 DEF While, Done
    <3>2. Head(code[current]) \notin Tracked
      BY <2>2 DEF Tracked
    <3>3. QED
      BY <1>1, <2>1, <3>1, <3>2, UntrackedIsQuiet DEF QuietStep
  <2>5. QED
    BY <2>3, <2>4
<1>3. ASSUME NEW op \in {"append", "wake"}, Executing(op), Done
      PROVE  QuietStep
  <2>1. Head(code[current]) = <<op, Operand>>
    BY <1>1, <1>3, HeadExecuted DEF SemaphoreOps
  <2>2. Head(code[current]) \notin Tracked
    BY <2>1 DEF Tracked
  <2>3. QED
    BY <1>1, <1>3, <2>2, UntrackedIsQuiet DEF QuietStep
<1>4. CASE semp_append \/ Wake
  BY <1>3, <1>4 DEF semp_append, Wake
<1>5. QED
  BY <1>2, <1>4

-----------------------------------------------------------------------------
(* The statements of the buffer and of fibtest. *)

(* A statement of the threads' own code touches nothing of the library's.   *)
LEMMA StatementKeepsSem ==
    ASSUME SemInv, NEW op, Statement(op),
           op \in {"put", "more", "get", "less", "first", "advance"}
    PROVE  /\ SemInv' /\ Head(code[current]) = <<op>> /\ value' = value
           /\ current \in Thread
<1>1. Executing(op) /\ Done /\ UNCHANGED <<status, current, state, ready, blocked,
                                           lock, value, waiters>>
  BY DEF Statement
<1>2. op \notin Cover /\ op # "while"
  BY DEF Cover, Critical, SemaphoreOps
<1>3. Programs' /\ OperationsAreAtomic' /\ DecrementsPositive'
  BY <1>1, <1>2, InstructionKeepsAtomic
<1>4. current \in Thread /\ code' \in [Thread -> Seq(Instruction)]
  BY <1>1, InstructionStep
<1>5. SemTypeOK' /\ StartTypeOK'
  BY <1>1, <1>4 DEF SemInv, SemTypeOK, ThreadTypeOK, StartTypeOK
<1>6. Head(code[current]) = <<op>>
  BY <1>1, HeadExecuted DEF SemaphoreOps
<1>7. QED
  BY <1>1, <1>3, <1>4, <1>5, <1>6 DEF SemInv

(* At most one thread has the mutex. *)
LEMMA MutexIsExclusive ==
    ASSUME FibInv, NEW t \in Section, NEW u \in Section
    PROVE  t = u
<1> SUFFICES ASSUME t # u PROVE FALSE
  OBVIOUS
<1>1. t \in Thread /\ u \in Thread
  BY SetsAreOfThreads
<1>2. /\ Cardinality(Section \ {t}) = Cardinality(Section) - 1
      /\ Section \ {t} \in SUBSET Thread
  BY <1>1, CountedSets, SetsAreOfThreads
<1>3. u \in Section \ {t}
  OBVIOUS
<1>4. Cardinality((Section \ {t}) \ {u}) = Cardinality(Section \ {t}) - 1
  BY <1>1, <1>2, <1>3, CountedSets
<1>5. Cardinality((Section \ {t}) \ {u}) \in Nat
  BY <1>1, <1>2, CountedSets
<1>6. Cardinality(Section) <= 1
  BY CountsAreNumbers DEF FibInv, MutexInv
<1>7. QED
  BY <1>2, <1>4, <1>5, <1>6, CountsAreNumbers

(* A producer that has put its element and not counted it has the mutex.    *)
LEMMA PutIsInSection ==
    ASSUME FibInv, NEW p \in Producers, ToDo(p, <<"more">>), ~ToDo(p, <<"put">>)
    PROVE  p \in Section
<1>1. p \in Thread /\ FibShapes
  BY FibAssumption DEF FibInv
<1>2. QED
  BY <1>1, OrderInAdd DEF Section, InSection

(* The index of a slot is one. *)
LEMMA SlotType ==
    ASSUME NEW x \in Int
    PROVE  x % Length \in 0 .. Length - 1
BY BufferAssumption

(* The element is stored in the slot behind the last. *)
LEMMA PutKeepsFib ==
    ASSUME FibInv, PutElement, UNCHANGED i
    PROVE  FibInv'
<1>1. /\ Statement("put") /\ Executing("put") /\ Done /\ SemInv /\ FibShapes
      /\ buffer' = [buffer EXCEPT ![(first + count) % Length] = elem[current]]
      /\ UNCHANGED <<first, count, elem, i>>
  BY DEF PutElement, Statement, FibInv
<1>2. SemInv' /\ FibShapes' /\ Head(code[current]) = <<"put">> /\ value' = value
      /\ current \in Thread
  BY <1>1, StatementKeepsSem, DoneKeepsShapes
<1>3. current \in Producers /\ current \in Section /\ SameSets
  BY <1>1, <1>2, ExecutedMovesSets DEF Tracked, SetsAfter
<1>4. MutexInv' /\ CreditInv'
  BY <1>1, <1>2, <1>3 DEF FibInv, MutexInv, CreditInv, SameSets
<1>5. (first + count) % Length \in 0 .. Length - 1
  BY SlotType, BufferAssumption DEF FibInv, FibTypeOK
<1>6. FibTypeOK'
  BY <1>1, <1>2, <1>5 DEF FibInv, FibTypeOK
<1>7. ASSUME NEW p \in Producers, ToDo(p, <<"more">>)'
      PROVE  /\ elem[p] = [id |-> p, arg |-> i[p]]
             /\ ~ToDo(p, <<"put">>)' => buffer'[(first + count) % Length] = elem[p]
  <2>1. ToDo(p, <<"more">>)
    BY <1>1, <1>2, <1>7, FibAssumption, OthersStayAhead
  <2>2. elem[p] = [id |-> p, arg |-> i[p]]
    BY <2>1 DEF FibInv, ElementsInv
  <2>3. CASE p = current
    BY <1>1, <1>5, <2>2, <2>3 DEF FibInv, FibTypeOK
  <2>4. CASE p # current
    <3>1. ToDo(p, <<"put">>)' <=> ToDo(p, <<"put">>)
      BY <1>1, <2>4, FibAssumption, OthersStayAhead
    <3>2. ToDo(p, <<"put">>)
      BY <1>3, <2>1, <2>4, PutIsInSection, MutexIsExclusive
    <3>3. QED
      BY <2>2, <3>1, <3>2
  <2>5. QED
    BY <2>3, <2>4
<1>8. ElementsInv'
  BY <1>1, <1>7 DEF ElementsInv
<1>9. QED
  BY <1>2, <1>4, <1>6, <1>8 DEF FibInv

(* The element is counted. *)
LEMMA MoreKeepsFib ==
    ASSUME FibInv, CountUp, UNCHANGED i
    PROVE  FibInv'
<1>1. /\ Statement("more") /\ Executing("more") /\ Done /\ SemInv /\ FibShapes
      /\ count' = count + 1 /\ UNCHANGED <<buffer, first, elem, i>>
  BY DEF CountUp, Statement, FibInv
<1>2. SemInv' /\ FibShapes' /\ Head(code[current]) = <<"more">> /\ value' = value
      /\ current \in Thread
  BY <1>1, StatementKeepsSem, DoneKeepsShapes
<1>3. /\ current \in Producers /\ current \in Reserved /\ current \notin Announcing
      /\ current \in Section /\ Reserved' = Reserved \ {current}
      /\ Announcing' = Announcing \cup {current}
      /\ UNCHANGED <<Section, Claiming, Returning>>
  BY <1>1, <1>2, ExecutedMovesSets DEF Tracked, SetsAfter
<1>4. /\ Cardinality(Reserved)' = Cardinality(Reserved) - 1
      /\ Cardinality(Announcing)' = Cardinality(Announcing) + 1
  BY <1>2, <1>3, CountedSets, SetsAreOfThreads
<1>5. MutexInv' /\ CreditInv'
  BY <1>1, <1>2, <1>3, <1>4, CountsAreNumbers DEF FibInv, MutexInv, CreditInv
<1>6. FibTypeOK'
  BY <1>1 DEF FibInv, FibTypeOK
<1>7. ASSUME NEW p \in Producers, ToDo(p, <<"more">>)'
      PROVE  elem[p] = [id |-> p, arg |-> i[p]] /\ ToDo(p, <<"put">>)'
  <2>1. p # current
    <3> SUFFICES ASSUME p = current PROVE FALSE
      OBVIOUS
    <3>1. p \in Producers /\ p \in Thread /\ p \in Reserved /\ p \notin Reserved'
      BY <1>2, <1>3
    <3>2. ~ToDo(p, <<"dec", "full">>)
      BY <3>1 DEF Reserved
    <3>3. ~ToDo(p, <<"dec", "full">>)'
      BY <1>1, <1>2, <3>1, <3>2, OthersStayAhead
    <3>4. QED
      BY <1>7, <3>1, <3>3 DEF Reserved
  <2>2. ToDo(p, <<"more">>) /\ (ToDo(p, <<"put">>)' <=> ToDo(p, <<"put">>))
    BY <1>1, <1>7, <2>1, FibAssumption, OthersStayAhead
  <2>3. ToDo(p, <<"put">>)
    BY <1>3, <2>1, <2>2, PutIsInSection, MutexIsExclusive
  <2>4. QED
    BY <2>2, <2>3 DEF FibInv, ElementsInv
<1>8. ElementsInv'
  BY <1>1, <1>7 DEF ElementsInv
<1>9. QED
  BY <1>2, <1>5, <1>6, <1>8 DEF FibInv

(* While another thread has the mutex, no producer is between putting its   *)
(* element and counting it.                                                 *)
LEMMA NothingHalfPut ==
    ASSUME FibInv, NEW c \in Section, c \notin Producers, NEW p \in Producers,
           ToDo(p, <<"more">>)
    PROVE  ToDo(p, <<"put">>)
BY PutIsInSection, MutexIsExclusive

(* The first element is read and its slot cleared. *)
LEMMA GetKeepsFib ==
    ASSUME FibInv, GetElement, UNCHANGED i
    PROVE  FibInv'
<1>1. /\ Statement("get") /\ Executing("get") /\ Done /\ SemInv /\ FibShapes
      /\ elem' = [elem EXCEPT ![current] = buffer[first]]
      /\ buffer' = [buffer EXCEPT ![first] = emptySlot]
      /\ UNCHANGED <<first, count, i>>
  BY DEF GetElement, Statement, FibInv
<1>2. SemInv' /\ FibShapes' /\ Head(code[current]) = <<"get">> /\ value' = value
      /\ current \in Thread
  BY <1>1, StatementKeepsSem, DoneKeepsShapes
<1>3. current \in Consumers /\ current \in Section /\ SameSets
  BY <1>1, <1>2, ExecutedMovesSets DEF Tracked, SetsAfter
<1>4. MutexInv' /\ CreditInv'
  BY <1>1, <1>2, <1>3 DEF FibInv, MutexInv, CreditInv, SameSets
<1>5. FibTypeOK'
  BY <1>1, <1>2 DEF FibInv, FibTypeOK, Element, emptySlot
<1>6. ASSUME NEW p \in Producers, ToDo(p, <<"more">>)'
      PROVE  elem'[p] = [id |-> p, arg |-> i[p]] /\ ToDo(p, <<"put">>)'
  <2>1. p \in Thread /\ p # current /\ current \notin Producers
    BY <1>3, FibAssumption
  <2>2. ToDo(p, <<"more">>) /\ (ToDo(p, <<"put">>)' <=> ToDo(p, <<"put">>))
    BY <1>1, <1>2, <1>6, <2>1, OthersStayAhead
  <2>3. elem'[p] = elem[p]
    BY <1>1, <2>1 DEF FibInv, FibTypeOK
  <2>4. QED
    BY <1>3, <2>1, <2>2, <2>3, NothingHalfPut DEF FibInv, ElementsInv
<1>7. ElementsInv'
  BY <1>1, <1>6 DEF ElementsInv
<1>8. QED
  BY <1>2, <1>4, <1>5, <1>7 DEF FibInv

(* The element read is no longer counted. *)
LEMMA LessKeepsFib ==
    ASSUME FibInv, CountDown, UNCHANGED i
    PROVE  FibInv'
<1>1. /\ Statement("less") /\ Executing("less") /\ Done /\ SemInv /\ FibShapes
      /\ count' = count - 1 /\ UNCHANGED <<buffer, first, elem, i>>
  BY DEF CountDown, Statement, FibInv
<1>2. SemInv' /\ FibShapes' /\ Head(code[current]) = <<"less">> /\ value' = value
      /\ current \in Thread
  BY <1>1, StatementKeepsSem, DoneKeepsShapes
<1>3. /\ current \in Consumers /\ current \in Claiming /\ current \notin Returning
      /\ current \in Section /\ Claiming' = Claiming \ {current}
      /\ Returning' = Returning \cup {current}
      /\ UNCHANGED <<Section, Reserved, Announcing>>
  BY <1>1, <1>2, ExecutedMovesSets DEF Tracked, SetsAfter
<1>4. /\ Cardinality(Claiming)' = Cardinality(Claiming) - 1
      /\ Cardinality(Returning)' = Cardinality(Returning) + 1
      /\ Cardinality(Claiming)' \in Nat
  BY <1>2, <1>3, CountedSets, SetsAreOfThreads
<1>5. MutexInv' /\ CreditInv'
  BY <1>1, <1>2, <1>3, <1>4, CountsAreNumbers DEF FibInv, MutexInv, CreditInv
<1>6. FibTypeOK'
  <2>1. count' \in Nat
    BY <1>1, <1>4, CountsAreNumbers DEF FibInv, CreditInv
  <2>2. QED
    BY <1>1, <2>1 DEF FibInv, FibTypeOK
<1>7. ASSUME NEW p \in Producers, ToDo(p, <<"more">>)'
      PROVE  elem[p] = [id |-> p, arg |-> i[p]] /\ ToDo(p, <<"put">>)'
  <2>1. ToDo(p, <<"more">>) /\ (ToDo(p, <<"put">>)' <=> ToDo(p, <<"put">>))
    BY <1>1, <1>2, <1>7, FibAssumption, OthersStayAhead
  <2>2. current \notin Producers
    BY <1>3, FibAssumption
  <2>3. QED
    BY <1>3, <2>1, <2>2, NothingHalfPut DEF FibInv, ElementsInv
<1>8. ElementsInv'
  BY <1>1, <1>7 DEF ElementsInv
<1>9. QED
  BY <1>2, <1>5, <1>6, <1>8 DEF FibInv

(* The front moves on to the next slot. *)
LEMMA FirstKeepsFib ==
    ASSUME FibInv, AdvanceFirst, UNCHANGED i
    PROVE  FibInv'
<1>1. /\ Statement("first") /\ Executing("first") /\ Done /\ SemInv /\ FibShapes
      /\ first' = (first + 1) % Length /\ UNCHANGED <<buffer, count, elem, i>>
  BY DEF AdvanceFirst, Statement, FibInv
<1>2. SemInv' /\ FibShapes' /\ Head(code[current]) = <<"first">> /\ value' = value
      /\ current \in Thread
  BY <1>1, StatementKeepsSem, DoneKeepsShapes
<1>3. current \in Consumers /\ current \in Section /\ SameSets
  BY <1>1, <1>2, ExecutedMovesSets DEF Tracked, SetsAfter
<1>4. MutexInv' /\ CreditInv'
  BY <1>1, <1>2, <1>3 DEF FibInv, MutexInv, CreditInv, SameSets
<1>5. FibTypeOK'
  <2>1. first' \in 0 .. Length - 1
    BY <1>1, SlotType, BufferAssumption DEF FibInv, FibTypeOK
  <2>2. QED
    BY <1>1, <2>1 DEF FibInv, FibTypeOK
<1>6. ASSUME NEW p \in Producers, ToDo(p, <<"more">>)'
      PROVE  elem[p] = [id |-> p, arg |-> i[p]] /\ ToDo(p, <<"put">>)'
  <2>1. ToDo(p, <<"more">>) /\ (ToDo(p, <<"put">>)' <=> ToDo(p, <<"put">>))
    BY <1>1, <1>2, <1>6, FibAssumption, OthersStayAhead
  <2>2. current \notin Producers
    BY <1>3, FibAssumption
  <2>3. QED
    BY <1>3, <2>1, <2>2, NothingHalfPut DEF FibInv, ElementsInv
<1>7. ElementsInv'
  BY <1>1, <1>6 DEF ElementsInv
<1>8. QED
  BY <1>2, <1>4, <1>5, <1>7 DEF FibInv

(* What well-formedness asks of an instruction and the one before it.       *)
Follows(x, y) ==
    /\ y[1] \in Critical => x[1] \in Cover
    /\ y[1] = "dec" => x = <<"while", y[2]>>

(* The pairs of instructions that occur in the two programs.                *)
LEMMA FollowingPairs ==
    /\ \A x : \A op \in {"lock", "unlock", "put", "more", "get", "less", "first", "advance"} :
          Follows(x, <<op>>)
    /\ \A s : /\ Follows(<<"lock">>, <<"while", s>>)
             /\ Follows(<<"while", s>>, <<"dec", s>>)
             /\ Follows(<<"lock">>, <<"inc", s>>)
             /\ Follows(<<"inc", s>>, <<"wake", s>>)
<1>1. ASSUME NEW x,
             NEW op \in {"lock", "unlock", "put", "more", "get", "less", "first", "advance"}
      PROVE  Follows(x, <<op>>)
  <2>1. <<op>>[1] = op /\ op \notin Critical /\ op # "dec"
    BY DEF Critical, SemaphoreOps
  <2>2. QED
    BY <2>1 DEF Follows
<1>2. ASSUME NEW s
      PROVE  /\ Follows(<<"lock">>, <<"while", s>>)
             /\ Follows(<<"while", s>>, <<"dec", s>>)
             /\ Follows(<<"lock">>, <<"inc", s>>)
             /\ Follows(<<"inc", s>>, <<"wake", s>>)
  BY DEF Follows, Cover, Critical, SemaphoreOps
<1>3. QED
  BY <1>1, <1>2

(* The two programs are well formed, and start with the lock. *)
LEMMA FibProgramsWellFormed ==
    /\ WellFormed(add) /\ add # <<>> /\ Head(add) = <<"lock">>
    /\ WellFormed(take) /\ take # <<>> /\ Head(take) = <<"lock">>
<1>1. \A k \in 2 .. 19 :
         \/ k = 2 \/ k = 3 \/ k = 4 \/ k = 5 \/ k = 6 \/ k = 7 \/ k = 8
         \/ k = 9 \/ k = 10 \/ k = 11 \/ k = 12 \/ k = 13 \/ k = 14
         \/ k = 15 \/ k = 16 \/ k = 17 \/ k = 18 \/ k = 19
  OBVIOUS
<1> DEFINE Pairs(P) ==
              /\ Follows(P[1], P[2]) /\ Follows(P[2], P[3]) /\ Follows(P[3], P[4])
              /\ Follows(P[4], P[5]) /\ Follows(P[5], P[6]) /\ Follows(P[6], P[7])
              /\ Follows(P[7], P[8]) /\ Follows(P[8], P[9]) /\ Follows(P[9], P[10])
              /\ Follows(P[10], P[11]) /\ Follows(P[11], P[12]) /\ Follows(P[12], P[13])
              /\ Follows(P[13], P[14]) /\ Follows(P[14], P[15]) /\ Follows(P[15], P[16])
              /\ Follows(P[16], P[17]) /\ Follows(P[17], P[18]) /\ Follows(P[18], P[19])
<1>2. Pairs(add)
  BY FollowingPairs, TheTwoPrograms
<1>3. Pairs(take)
  BY FollowingPairs, TheTwoPrograms
<1>4. ASSUME NEW P, Pairs(P), NEW k \in 2 .. 19
      PROVE  Follows(P[k - 1], P[k])
  <2>1. /\ 2 - 1 = 1 /\ 3 - 1 = 2 /\ 4 - 1 = 3 /\ 5 - 1 = 4 /\ 6 - 1 = 5
        /\ 7 - 1 = 6 /\ 8 - 1 = 7 /\ 9 - 1 = 8 /\ 10 - 1 = 9 /\ 11 - 1 = 10
        /\ 12 - 1 = 11 /\ 13 - 1 = 12 /\ 14 - 1 = 13 /\ 15 - 1 = 14
        /\ 16 - 1 = 15 /\ 17 - 1 = 16 /\ 18 - 1 = 17 /\ 19 - 1 = 18
    OBVIOUS
  <2>2. QED
    BY <1>1, <1>4, <2>1
<1>5. /\ add \in Seq(Instruction) /\ Len(add) = 19 /\ add[1] = <<"lock">>
      /\ take \in Seq(Instruction) /\ Len(take) = 19 /\ take[1] = <<"lock">>
  BY TheTwoPrograms
<1>6. add # <<>> /\ Head(add) = add[1] /\ take # <<>> /\ Head(take) = take[1]
  BY <1>5, EmptySeq, HeadTailProperties
<1>7. /\ \A k \in 2 .. 19 : Follows(add[k - 1], add[k])
      /\ \A k \in 2 .. 19 : Follows(take[k - 1], take[k])
  BY <1>2, <1>3, <1>4
<1>8. WellFormed(add) /\ WellFormed(take)
  BY <1>5, <1>7 DEF WellFormed, Follows
<1>9. QED
  BY <1>5, <1>6, <1>8

(* A thread calls its program from its own code. *)
LEMMA CallOfProgram ==
    ASSUME FibInv, NEW P \in {add, take}, Call(P), current \in Thread, P = Path(current),
           UNCHANGED semaphoreVars
    PROVE  /\ SemInv' /\ FibShapes' /\ value' = value
           /\ InNoSet(current) /\ InNoSet(current)'
           /\ Place(code'[current], Path(current), 1)
           /\ \A t \in Thread \ {current} : SameAhead(t)
<1>1. SemInv /\ value' = value
  BY DEF FibInv, semaphoreVars
<1>2. SemInv'
  BY <1>1, FibProgramsWellFormed, CallKeepsInv DEF Critical, SemaphoreOps
<1>3. /\ code[current] = <<>> /\ code'[current] = P /\ current' = current
      /\ \A t \in Thread \ {current} : code'[t] = code[t]
  BY <1>1 DEF Call, SemInv, SemTypeOK
<1>4. Place(code[current], Path(current), 20) /\ Place(code'[current], Path(current), 1)
  <2>1. P \in Seq(Instruction) /\ Len(P) + 1 = 20
    <3>1. P = add \/ P = take
      OBVIOUS
    <3>2. P \in Seq(Instruction) /\ Len(P) = 19
      BY <3>1, TheTwoPrograms
    <3>3. QED
      BY <3>2
  <2>2. Place(<<>>, P, Len(P) + 1) /\ Place(P, P, 1)
    BY <2>1, PlaceEnds
  <2>3. QED
    BY <1>3, <2>1, <2>2
<1>5. FibShapes'
  <2>1. \E k \in 1 .. 20 : Place(code'[current], Path(current), k)
    BY <1>4
  <2>2. QED
    BY <1>3, <2>1 DEF FibInv, FibShapes, Path
<1>6. InNoSet(current) /\ InNoSet(current)'
  <2>1. 1 \in 1 .. 20 /\ 20 \in 1 .. 20
    OBVIOUS
  <2>2. InNoSet(current)
    BY <1>4, <2>1, PlacesSayWhichSets DEF SetsByPlace, InNoSet
  <2>3. /\ current \notin Section' /\ current \notin Reserved'
        /\ current \notin Announcing' /\ current \notin Claiming'
        /\ current \notin Returning'
    BY <1>4, <2>1, PlacesSayWhichSetsNext DEF SetsByPlace
  <2>4. QED
    BY <1>3, <2>2, <2>3 DEF InNoSet
<1>7. \A t \in Thread \ {current} : SameAhead(t)
  BY <1>3 DEF SameAhead, ToDo
<1>8. QED
  BY <1>1, <1>2, <1>4, <1>5, <1>6, <1>7

(* A consumer calls bounded_buffer_take. *)
LEMMA ConsumeKeepsFib ==
    ASSUME FibInv, NEW c \in Consumers, Consume(c)
    PROVE  FibInv'
<1>1. /\ current = c /\ c \in Thread /\ c \notin Producers /\ Call(take)
      /\ take = Path(current) /\ UNCHANGED <<semaphoreVars, bufferVars, i>>
  BY FibAssumption DEF Consume, take, Path
<1>2. /\ SemInv' /\ FibShapes' /\ value' = value
      /\ InNoSet(current) /\ InNoSet(current)'
      /\ \A t \in Thread \ {current} : SameAhead(t)
  BY <1>1, CallOfProgram
<1>3. current' = current
  BY <1>1 DEF Call
<1>4. FibTypeOK' /\ MutexInv' /\ CreditInv' /\ ElementsInv'
  BY <1>1, <1>2, <1>3, QuietKeepsInv DEF InNoSet
<1>5. QED
  BY <1>2, <1>4 DEF FibInv

(* A producer calls bounded_buffer_add. *)
LEMMA ProduceKeepsFib ==
    ASSUME FibInv, NEW p \in Producers, Produce(p)
    PROVE  FibInv'
<1>1. /\ current = p /\ p \in Thread /\ Call(add) /\ add = Path(current)
      /\ elem' = [elem EXCEPT ![p] = [id |-> p, arg |-> i[p]]]
      /\ UNCHANGED <<semaphoreVars, buffer, first, count, i>>
  BY FibAssumption DEF Produce, add, Path
<1>2. /\ SemInv' /\ FibShapes' /\ value' = value
      /\ InNoSet(current) /\ InNoSet(current)'
      /\ Place(code'[current], Path(current), 1)
      /\ \A t \in Thread \ {current} : SameAhead(t)
  BY <1>1, CallOfProgram
<1>3. current' = current
  BY <1>1 DEF Call
<1>4. MutexInv' /\ CreditInv'
  <2>1. SameSets
    BY <1>1, <1>2, <1>3, SetsUnchanged DEF SameSets
  <2>2. QED
    BY <1>1, <1>2, <2>1 DEF FibInv, MutexInv, CreditInv, SameSets
<1>5. FibTypeOK'
  BY <1>1 DEF FibInv, FibTypeOK, Element
<1>6. ASSUME NEW q \in Producers, ToDo(q, <<"more">>)'
      PROVE  /\ elem'[q] = [id |-> q, arg |-> i[q]]
             /\ ~ToDo(q, <<"put">>)' => buffer[(first + count) % Length] = elem'[q]
  <2>1. CASE q = p
    <3>1. elem'[q] = [id |-> q, arg |-> i[q]]
      BY <1>1, <2>1 DEF FibInv, FibTypeOK
    <3>2. Place(code'[q], add, 1)
      BY <1>1, <1>2, <2>1
    <3>3. <<"put">> \in Range(code'[q])
      BY <3>2, AheadInAdd
    <3>4. QED
      BY <3>1, <3>3 DEF ToDo
  <2>2. CASE q # p
    <3>1. SameAhead(q) /\ elem'[q] = elem[q]
      BY <1>1, <1>2, <2>2, FibAssumption DEF FibInv, FibTypeOK
    <3>2. /\ ToDo(q, <<"more">>)' <=> ToDo(q, <<"more">>)
          /\ ToDo(q, <<"put">>)' <=> ToDo(q, <<"put">>)
      BY <3>1 DEF SameAhead, Tracked
    <3>3. QED
      BY <1>6, <3>1, <3>2 DEF FibInv, ElementsInv
  <2>3. QED
    BY <2>1, <2>2
<1>7. ElementsInv'
  BY <1>1, <1>6 DEF ElementsInv
<1>8. QED
  BY <1>2, <1>4, <1>5, <1>7 DEF FibInv

(* A producer goes on to its next number. *)
LEMMA AdvanceKeepsFib ==
    ASSUME FibInv, AdvanceI
    PROVE  FibInv'
<1>1. /\ Statement("advance") /\ Executing("advance") /\ Done /\ SemInv /\ FibShapes
      /\ i' = [i EXCEPT ![current] = (@ + 1) % Modulus]
      /\ UNCHANGED <<buffer, first, count, elem>>
  BY DEF AdvanceI, Statement, FibInv, bufferVars
<1>2. SemInv' /\ FibShapes' /\ Head(code[current]) = <<"advance">> /\ value' = value
      /\ current \in Thread
  BY <1>1, StatementKeepsSem, DoneKeepsShapes
<1>3. current \in Producers /\ SameSets
  BY <1>1, <1>2, ExecutedMovesSets DEF Tracked, SetsAfter
<1>4. MutexInv' /\ CreditInv'
  BY <1>1, <1>2, <1>3 DEF FibInv, MutexInv, CreditInv, SameSets
<1>5. FibTypeOK'
  <2>1. i[current] \in Int
    BY <1>3 DEF FibInv, FibTypeOK
  <2>2. (i[current] + 1) % Modulus \in Int
    BY <2>1, FibAssumption
  <2>3. i' \in [Producers -> Int]
    BY <1>1, <1>3, <2>2 DEF FibInv, FibTypeOK
  <2>4. QED
    BY <1>1, <2>3 DEF FibInv, FibTypeOK
<1>6. ASSUME NEW p \in Producers, ToDo(p, <<"more">>)'
      PROVE  /\ elem[p] = [id |-> p, arg |-> i'[p]]
             /\ ~ToDo(p, <<"put">>)' => buffer[(first + count) % Length] = elem[p]
  <2>1. /\ ToDo(p, <<"more">>)' <=> ToDo(p, <<"more">>)
        /\ ToDo(p, <<"put">>)' <=> ToDo(p, <<"put">>)
    BY <1>1, <1>2, FibAssumption, OthersStayAhead
  <2>2. p # current
    <3> SUFFICES ASSUME p = current PROVE FALSE
      OBVIOUS
    <3>1. OnceAt(add, <<"advance">>, 19) /\ 19 \in 1 .. 19
      BY WhereInAdd
    <3>2. Place(code[p], add, 19)
      BY <1>1, <1>2, <1>3, <3>1, ExecutedInAdd DEF Tracked
    <3>3. QED
      BY <1>6, <2>1, <3>2, AheadInAdd DEF ToDo
  <2>3. i'[p] = i[p]
    BY <1>1, <2>2 DEF FibInv, FibTypeOK
  <2>4. QED
    BY <1>6, <2>1, <2>3 DEF FibInv, ElementsInv
<1>7. ElementsInv'
  BY <1>1, <1>6 DEF ElementsInv
<1>8. QED
  BY <1>2, <1>4, <1>5, <1>7 DEF FibInv

-----------------------------------------------------------------------------
(* The invariant of the program. *)

(* The invariant holds at the start. *)
LEMMA FibInitInv == FibInit => FibInv
<1> SUFFICES ASSUME FibInit PROVE FibInv
  OBVIOUS
<1>1. /\ SemInv /\ code = [t \in Thread |-> <<>>] /\ value = InitialValue
      /\ buffer = [k \in 0 .. Length - 1 |-> emptySlot] /\ first = 0 /\ count = 0
      /\ elem = [t \in Thread |-> emptySlot] /\ i = [p \in Producers |-> 0]
  BY InitInv DEF FibInit, SemInit, SThreadInit, new_semaphore, new_bounded_buffer
<1>2. FibShapes
  <2>1. \A t \in Thread : Path(t) \in Seq(Instruction) /\ Len(Path(t)) = 19
    BY TheTwoPrograms DEF Path
  <2>2. \A t \in Thread : Place(<<>>, Path(t), 20)
    <3> SUFFICES ASSUME NEW t \in Thread PROVE Place(<<>>, Path(t), 20)
      OBVIOUS
    <3> DEFINE P == Path(t)
    <3>1. P \in Seq(Instruction) /\ Len(P) = 19
      BY <2>1
    <3> HIDE DEF P
    <3>2. Place(<<>>, P, Len(P) + 1)
      BY <3>1, PlaceEnds
    <3>3. Len(P) + 1 = 20
      BY <3>1
    <3>4. QED
      BY <3>2, <3>3 DEF P
  <2>3. QED
    BY <1>1, <2>2 DEF FibShapes
<1>3. FibTypeOK
  BY <1>1, BufferAssumption DEF FibTypeOK, Element, emptySlot
<1>4. \A t \in Thread : \A x : ~ToDo(t, x)
  <2>1. Range(<<>>) = {}
    BY DEF Range
  <2>2. QED
    BY <1>1, <2>1 DEF ToDo
<1>5. /\ Section = {} /\ Reserved = {} /\ Announcing = {} /\ Claiming = {}
      /\ Returning = {}
  BY <1>4, FibAssumption
     DEF Section, InSection, Reserved, Announcing, Claiming, Returning
<1>6. /\ value["full"] = Length /\ value["empty"] = 0 /\ value["buff_protect"] = 1
      /\ Length \in Nat
  BY <1>1, BufferAssumption
<1>7. MutexInv /\ CreditInv
  BY <1>1, <1>5, <1>6, FS_EmptySet DEF MutexInv, CreditInv
<1>8. ElementsInv
  BY <1>4, FibAssumption DEF ElementsInv
<1>9. QED
  BY <1>1, <1>2, <1>3, <1>7, <1>8 DEF FibInv

(* Every step keeps it. *)
LEMMA FibNextInv == FibInv /\ [FibNext]_fibVars => FibInv'
<1> SUFFICES ASSUME FibInv, [FibNext]_fibVars PROVE FibInv'
  OBVIOUS
<1>1. CASE Run /\ UNCHANGED <<semaphoreVars, bufferVars, i>>
  BY <1>1, RunIsQuiet, QuietStepKeepsInv DEF semaphoreVars
<1>2. CASE SemaphoreStep /\ UNCHANGED <<bufferVars, i>>
  BY <1>2, WaitingIsQuiet, QuietStepKeepsInv, DecrementKeepsFib, IncrementKeepsFib
     DEF SemaphoreStep
<1>3. CASE BufferStep /\ UNCHANGED i
  BY <1>3, PutKeepsFib, MoreKeepsFib, GetKeepsFib, LessKeepsFib, FirstKeepsFib
     DEF BufferStep
<1>4. CASE \E p \in Producers : Produce(p)
  BY <1>4, ProduceKeepsFib
<1>5. CASE AdvanceI
  BY <1>5, AdvanceKeepsFib
<1>6. CASE \E c \in Consumers : Consume(c)
  BY <1>6, ConsumeKeepsFib
<1>7. CASE Interrupt /\ UNCHANGED <<semaphoreVars, bufferVars, i>>
  BY <1>7, InterruptIsQuiet, QuietStepKeepsInv DEF semaphoreVars
<1>8. CASE UNCHANGED fibVars
  <2>1. UNCHANGED semVars /\ code' = code /\ UNCHANGED <<value, bufferVars, i>>
    BY <1>8 DEF fibVars, semVars, threadVars, semaphoreVars
  <2>2. SemInv'
    BY <2>1, NextInv DEF FibInv
  <2>3. QED
    BY <2>1, <2>2, IdleIsQuiet, QuietStepKeepsInv DEF FibInv, QuietStep
<1>9. QED
  BY <1>1, <1>2, <1>3, <1>4, <1>5, <1>6, <1>7, <1>8 DEF FibNext, FibRun

(* So it always holds. *)
LEMMA FibAlwaysInv == FibSpec => []FibInv
BY FibInitInv, FibNextInv, PTL DEF FibSpec

(* However many producers and consumers there are and wherever the timer    *)
(* falls, never are two threads between acquiring the mutex of the buffer   *)
(* and releasing it.                                                        *)
THEOREM OneThreadAlwaysInSection == FibSpec => []OneThreadInSection
<1>1. FibInv => OneThreadInSection
  BY MutexIsExclusive DEF OneThreadInSection, Section
<1>2. QED
  BY FibAlwaysInv, <1>1, PTL

-----------------------------------------------------------------------------
(* The queue in the array. *)

(* The elements in a number of slots of the array, from one slot on; behind *)
(* the last slot comes the first.                                           *)
Slot(x) == x % Length
Slots(length, start, array) == [k \in 1 .. length |-> array[Slot(start + k - 1)]]

(* Going once past the end of the array comes back to its start. *)
LEMMA Wrapping ==
    ASSUME NEW x \in 0 .. 2 * Length - 1
    PROVE  /\ Slot(x) = IF x < Length THEN x ELSE x - Length
           /\ Slot(x) \in 0 .. Length - 1
BY BufferAssumption DEF Slot

(* Every slot of the queue is one of the array's. *)
LEMMA SlotsType ==
    ASSUME NEW length \in 0 .. Length, NEW start \in 0 .. Length,
           NEW array \in [0 .. Length - 1 -> Element]
    PROVE  /\ Slots(length, start, array) \in Seq(Element)
           /\ Len(Slots(length, start, array)) = length
           /\ \A k \in 1 .. length :
                 /\ Slots(length, start, array)[k] = array[Slot(start + k - 1)]
                 /\ start + k - 1 \in 0 .. 2 * Length - 1
<1> DEFINE s == Slots(length, start, array)
<1>1. length \in Nat /\ Length \in Nat \ {0}
  BY BufferAssumption
<1>2. \A k \in 1 .. length : start + k - 1 \in 0 .. 2 * Length - 1
  BY <1>1
<1>3. \A k \in 1 .. length : s[k] = array[Slot(start + k - 1)]
  BY DEF Slots
<1>4. ASSUME NEW k \in 1 .. length PROVE s[k] \in Element
  <2>1. Slot(start + k - 1) \in 0 .. Length - 1
    BY <1>2, Wrapping
  <2>2. QED
    BY <1>3, <2>1
<1>5. s = [k \in 1 .. length |-> s[k]]
  BY DEF Slots
<1>6. s \in [1 .. length -> Element]
  BY <1>4, <1>5
<1>7. s \in Seq(Element) /\ Len(s) = length
  BY <1>1, <1>6, SeqDef, LenProperties
<1>8. QED
  BY <1>2, <1>3, <1>7

(* Counting one more element appends the one behind the last. *)
LEMMA SlotsAppend ==
    ASSUME NEW length \in 0 .. Length - 1, NEW start \in 0 .. Length - 1,
           NEW array \in [0 .. Length - 1 -> Element]
    PROVE  Slots(length + 1, start, array)
             = Append(Slots(length, start, array), array[Slot(start + length)])
<1> DEFINE s == Slots(length, start, array)
           u == Slots(length + 1, start, array)
           e == array[Slot(start + length)]
<1>1. Length \in Nat \ {0} /\ length \in 0 .. Length /\ length + 1 \in 0 .. Length
        /\ start \in 0 .. Length /\ length \in Nat
  BY BufferAssumption
<1>2. /\ s \in Seq(Element) /\ Len(s) = length
      /\ \A k \in 1 .. length : s[k] = array[Slot(start + k - 1)]
  BY <1>1, SlotsType
<1>3. /\ u \in Seq(Element) /\ Len(u) = length + 1
      /\ \A k \in 1 .. length + 1 : u[k] = array[Slot(start + k - 1)]
  BY <1>1, SlotsType
<1>4. e \in Element
  <2>1. start + length \in 0 .. 2 * Length - 1
    BY <1>1
  <2>2. Slot(start + length) \in 0 .. Length - 1
    BY <2>1, Wrapping
  <2>3. QED
    BY <2>2
<1>5. u[length + 1] = e
  <2>1. start + (length + 1) - 1 = start + length /\ length + 1 \in 1 .. length + 1
    BY <1>1
  <2>2. QED
    BY <1>3, <2>1
<1> HIDE DEF s, u, e
<1>6. /\ Append(s, e) \in Seq(Element) /\ Len(Append(s, e)) = length + 1
      /\ \A k \in 1 .. length : Append(s, e)[k] = s[k]
      /\ Append(s, e)[length + 1] = e
  BY <1>2, <1>4, AppendProperties
<1>7. \A k \in 1 .. length + 1 : k \in 1 .. length \/ k = length + 1
  BY <1>1
<1>8. \A k \in 1 .. length + 1 : u[k] = Append(s, e)[k]
  BY <1>1, <1>2, <1>3, <1>5, <1>6, <1>7
<1>9. u = Append(s, e)
  BY <1>3, <1>6, <1>8, SeqEqual
<1>10. QED
  BY <1>9 DEF s, u, e

(* Clearing the first slot takes the head off. *)
LEMMA SlotsTail ==
    ASSUME NEW length \in 1 .. Length, NEW start \in 0 .. Length - 1,
           NEW array \in [0 .. Length - 1 -> Element],
           NEW cleared \in [0 .. Length - 1 -> Element],
           \A k \in 0 .. Length - 1 : k # start => cleared[k] = array[k]
    PROVE  /\ Slots(length, start, array) # <<>>
           /\ Head(Slots(length, start, array)) = array[start]
           /\ Tail(Slots(length, start, array))
                = Slots(length - 1, start + 1, cleared)
<1> DEFINE s == Slots(length, start, array)
           u == Slots(length - 1, start + 1, cleared)
<1>1. Length \in Nat \ {0} /\ length \in 0 .. Length /\ length - 1 \in 0 .. Length
        /\ start \in 0 .. Length /\ start + 1 \in 0 .. Length /\ length \in Nat \ {0}
  BY BufferAssumption
<1>2. /\ s \in Seq(Element) /\ Len(s) = length
      /\ \A k \in 1 .. length : s[k] = array[Slot(start + k - 1)]
  <2>1. length \in 0 .. Length /\ start \in 0 .. Length
    BY <1>1
  <2>2. QED
    BY <2>1, SlotsType
<1>3. /\ u \in Seq(Element) /\ Len(u) = length - 1
      /\ \A k \in 1 .. length - 1 : u[k] = cleared[Slot((start + 1) + k - 1)]
  <2> DEFINE l == length - 1
             f == start + 1
  <2>1. l \in 0 .. Length /\ f \in 0 .. Length
    BY <1>1
  <2> HIDE DEF l, f
  <2>2. /\ Slots(l, f, cleared) \in Seq(Element) /\ Len(Slots(l, f, cleared)) = l
        /\ \A k \in 1 .. l : Slots(l, f, cleared)[k] = cleared[Slot(f + k - 1)]
    BY <2>1, SlotsType
  <2>3. QED
    BY <2>2 DEF l, f
<1>4. s # <<>> /\ Head(s) = array[start]
  <2>1. s # <<>> /\ Head(s) = s[1]
    BY <1>1, <1>2, EmptySeq, HeadTailProperties
  <2>2. s[1] = array[Slot(start + 1 - 1)]
    BY <1>1, <1>2
  <2>3. Slot(start + 1 - 1) = start
    BY <1>1, Wrapping
  <2>4. QED
    BY <2>1, <2>2, <2>3
<1>5. /\ Tail(s) \in Seq(Element) /\ Len(Tail(s)) = length - 1
      /\ \A k \in 1 .. length - 1 : Tail(s)[k] = s[k + 1]
  BY <1>2, <1>4, HeadTailProperties
<1>6. ASSUME NEW k \in 1 .. length - 1 PROVE Tail(s)[k] = u[k]
  <2>1. k + 1 \in 1 .. length /\ start + (k + 1) - 1 = start + k
          /\ (start + 1) + k - 1 = start + k /\ start + k \in 0 .. 2 * Length - 1
    BY <1>1
  <2>2. Tail(s)[k] = array[Slot(start + k)] /\ u[k] = cleared[Slot(start + k)]
    BY <1>2, <1>3, <1>5, <2>1
  <2>3. Slot(start + k) # start /\ Slot(start + k) \in 0 .. Length - 1
    <3> DEFINE x == start + k
    <3>1. x \in 0 .. 2 * Length - 1
      BY <2>1
    <3> HIDE DEF x
    <3>2. Slot(x) = (IF x < Length THEN x ELSE x - Length) /\ Slot(x) \in 0 .. Length - 1
      BY <3>1, Wrapping
    <3>3. QED
      BY <1>1, <3>1, <3>2 DEF x
  <2>4. QED
    BY <2>2, <2>3
<1> HIDE DEF s, u
<1>7. Tail(s) = u
  BY <1>3, <1>5, <1>6, SeqEqual
<1>8. QED
  BY <1>4, <1>7 DEF s, u

(* An element put behind the last is not in the queue yet. *)
LEMMA SlotsPut ==
    ASSUME NEW length \in 0 .. Length - 1, NEW start \in 0 .. Length - 1,
           NEW array \in [0 .. Length - 1 -> Element], NEW e \in Element
    PROVE  Slots(length, start, [array EXCEPT ![Slot(start + length)] = e])
             = Slots(length, start, array)
<1> DEFINE n == Slot(start + length)
<1>1. Length \in Nat \ {0} /\ length \in Nat /\ n \in 0 .. Length - 1
  BY BufferAssumption, Wrapping
<1>2. n = IF start + length < Length THEN start + length ELSE start + length - Length
  BY <1>1, Wrapping
<1>3. ASSUME NEW k \in 1 .. length
      PROVE  [array EXCEPT ![n] = e][Slot(start + k - 1)]
               = array[Slot(start + k - 1)]
  <2> DEFINE m == Slot(start + k - 1)
           x == start + k - 1
  <2>1. x \in 0 .. 2 * Length - 1 /\ m = Slot(x)
    BY <1>1
  <2> HIDE DEF x
  <2>2. m = (IF x < Length THEN x ELSE x - Length) /\ m \in 0 .. Length - 1
    BY <2>1, Wrapping
  <2> HIDE DEF m, n
  <2>3. m # n
    BY <1>1, <1>2, <2>1, <2>2 DEF x
  <2>4. QED
    BY <2>2, <2>3 DEF m
<1> HIDE DEF n
<1>4. Slots(length, start, [array EXCEPT ![n] = e]) = Slots(length, start, array)
  BY <1>3 DEF Slots
<1>5. QED
  BY <1>4 DEF n

(* Moving first on wraps the start of the queue around. *)
LEMMA SlotsWrap ==
    ASSUME NEW length \in 0 .. Length, NEW start \in 0 .. Length - 1,
           NEW array \in [0 .. Length - 1 -> Element]
    PROVE  Slots(length, Slot(start + 1), array) = Slots(length, start + 1, array)
<1> DEFINE n == Slot(start + 1)
<1>1. Length \in Nat \ {0} /\ length \in Nat /\ start + 1 \in 0 .. 2 * Length - 1
  BY BufferAssumption
<1>2. n = IF start + 1 < Length THEN start + 1 ELSE start + 1 - Length
  BY <1>1, Wrapping
<1> HIDE DEF n
<1>3. ASSUME NEW k \in 1 .. length
      PROVE  Slot(n + k - 1) = Slot((start + 1) + k - 1)
  <2> DEFINE x == n + k - 1
             y == (start + 1) + k - 1
  <2>1. x \in 0 .. 2 * Length - 1 /\ y \in 0 .. 2 * Length - 1
    BY <1>1, <1>2
  <2>2. x = y \/ (x < Length /\ x = y - Length)
    BY <1>1, <1>2
  <2> HIDE DEF x, y
  <2>3. /\ Slot(x) = IF x < Length THEN x ELSE x - Length
        /\ Slot(y) = IF y < Length THEN y ELSE y - Length
    BY <2>1, Wrapping
  <2>4. Slot(x) = Slot(y)
    BY <1>1, <2>1, <2>2, <2>3
  <2>5. QED
    BY <2>4 DEF x, y
<1>4. Slots(length, n, array) = Slots(length, start + 1, array)
  BY <1>3 DEF Slots
<1>5. QED
  BY <1>4 DEF n

-----------------------------------------------------------------------------
(* The buffer implements the queue. *)

QueueLength == IF Uncounted THEN count - 1 ELSE count
QueueStart == IF Cleared THEN first + 1 ELSE first
NextNumber == [p \in Producers |-> IF Added(p) THEN (i[p] + 1) % Modulus ELSE i[p]]
LastTaken == [c \in Consumers |-> elem[c]]

QueueView ==
    /\ queue = Slots(QueueLength, QueueStart, buffer)
    /\ Queue!queueVars = <<queue, NextNumber, LastTaken>>

(* The view before a step. *)
LEMMA TheView == QueueView
BY DEF QueueView, queue, QueueLength, QueueStart, NextNumber, LastTaken, Slots, Slot,
       Queue!queueVars

(* The view after it. *)
LEMMA TheViewNext == QueueView'
BY TheView, PTL

(* The view changes only with what it shows. *)
LEMMA ViewKept ==
    ASSUME \A p \in Producers : Added(p)' <=> Added(p), Cleared' <=> Cleared,
           Uncounted' <=> Uncounted, UNCHANGED <<buffer, first, count, i>>,
           \A c \in Consumers : elem'[c] = elem[c]
    PROVE  UNCHANGED Queue!queueVars
<1>1. NextNumber' = NextNumber
  BY DEF NextNumber
<1>2. LastTaken' = LastTaken
  BY DEF LastTaken
<1>3. QueueLength' = QueueLength /\ QueueStart' = QueueStart
  BY DEF QueueLength, QueueStart
<1>4. queue' = queue
  BY <1>3, TheView, TheViewNext DEF QueueView, Slots
<1>5. QED
  BY <1>1, <1>2, <1>4, TheView, TheViewNext DEF QueueView

(* The instructions that the view looks at. *)
Shown == {<<"more">>, <<"get">>, <<"less">>, <<"first">>, <<"advance">>}

(* The view stays while the shown instructions stay ahead. *)
LEMMA ShownKeepsView ==
    ASSUME \A t \in Thread, x \in Shown : ToDo(t, x)' <=> ToDo(t, x),
           UNCHANGED <<buffer, first, count, i>>, \A c \in Consumers : elem'[c] = elem[c]
    PROVE  UNCHANGED Queue!queueVars
<1>1. \A t \in Thread : /\ ToDo(t, <<"more">>)' <=> ToDo(t, <<"more">>)
                        /\ ToDo(t, <<"get">>)' <=> ToDo(t, <<"get">>)
                        /\ ToDo(t, <<"less">>)' <=> ToDo(t, <<"less">>)
                        /\ ToDo(t, <<"first">>)' <=> ToDo(t, <<"first">>)
                        /\ ToDo(t, <<"advance">>)' <=> ToDo(t, <<"advance">>)
  BY DEF Shown
<1>2. \A p \in Producers : Added(p)' <=> Added(p)
  BY <1>1, FibAssumption DEF Added, InAdd
<1>3. (Cleared' <=> Cleared) /\ (Uncounted' <=> Uncounted)
  BY <1>1, FibAssumption DEF Cleared, Uncounted
<1>4. QED
  BY <1>2, <1>3, ViewKept

(* A quiet step, and one about a semaphore's value, are not seen. *)
LEMMA QuietIsNotSeen ==
    ASSUME QuietStep, UNCHANGED <<bufferVars, i>>
    PROVE  UNCHANGED Queue!queueVars
<1>1. \A t \in Thread, x \in Shown : ToDo(t, x)' <=> ToDo(t, x)
  BY DEF QuietStep, SameAhead, Shown, Tracked
<1>2. QED
  BY <1>1, ShownKeepsView DEF bufferVars

(* The semaphores' values are not seen in the queue. *)
LEMMA CountingIsNotSeen ==
    ASSUME FibInv, Decrement \/ Increment, UNCHANGED <<bufferVars, i>>
    PROVE  UNCHANGED Queue!queueVars
<1>1. PICK op \in {"dec", "inc"} : Executing(op) /\ Done
  BY DEF Decrement, Increment
<1>2. SemInv
  BY DEF FibInv
<1>3. Head(code[current]) \notin Shown
  BY <1>1, <1>2, HeadExecuted DEF SemaphoreOps, Shown
<1>4. \A t \in Thread, x \in Shown : ToDo(t, x)' <=> ToDo(t, x)
  BY <1>1, <1>2, <1>3, OthersStayAhead
<1>5. QED
  BY <1>4, ShownKeepsView DEF bufferVars

(* With the mutex, a thread sees no other in the middle of a take. *)
LEMMA NobodyElseTaking ==
    ASSUME FibInv, NEW t \in Section, NEW c \in Consumers, c # t
    PROVE  /\ ~(ToDo(c, <<"first">>) /\ ~ToDo(c, <<"get">>))
           /\ ~(ToDo(c, <<"less">>) /\ ~ToDo(c, <<"get">>))
<1>1. FibShapes /\ c \in Thread
  BY FibAssumption DEF FibInv
<1>2. ToDo(c, <<"first">>) \/ ToDo(c, <<"less">>) =>
         ToDo(c, <<"get">>) \/ c \in Section
  BY <1>1, OrderInTake DEF Section, InSection
<1>3. QED
  BY <1>2, MutexIsExclusive

(* A producer with the mutex sees no take underway at all. *)
LEMMA NobodyTaking ==
    ASSUME FibInv, NEW p \in Producers, p \in Section
    PROVE  ~Cleared /\ ~Uncounted
BY FibAssumption, NobodyElseTaking DEF Cleared, Uncounted

(* A promised slot is free, and a promised element is there. *)
LEMMA CountBounds ==
    ASSUME FibInv
    PROVE  /\ count \in 0 .. Length
           /\ Reserved # {} => count \in 0 .. Length - 1
           /\ Claiming # {} => count \in 1 .. Length
<1>1. count \in 0 .. Length
  BY CountsAreNumbers, BufferAssumption DEF FibInv, CreditInv
<1>2. ASSUME Reserved # {} PROVE count \in 0 .. Length - 1
  <2>1. PICK p \in Reserved : p \in Thread
    BY <1>2, SetsAreOfThreads
  <2>2. Cardinality(Reserved \ {p}) = Cardinality(Reserved) - 1
          /\ Cardinality(Reserved \ {p}) \in Nat
    BY <2>1, SetsAreOfThreads, CountedSets
  <2>3. QED
    BY <2>2, CountsAreNumbers, BufferAssumption DEF FibInv, CreditInv
<1>3. ASSUME Claiming # {} PROVE count \in 1 .. Length
  <2>1. PICK c \in Claiming : c \in Thread
    BY <1>3, SetsAreOfThreads
  <2>2. Cardinality(Claiming \ {c}) = Cardinality(Claiming) - 1
          /\ Cardinality(Claiming \ {c}) \in Nat
    BY <2>1, SetsAreOfThreads, CountedSets
  <2>3. QED
    BY <1>1, <2>2, CountsAreNumbers, BufferAssumption DEF FibInv, CreditInv
<1>4. QED
  BY <1>1, <1>2, <1>3

(* The element put is not in the queue before it is counted. *)
LEMMA PutIsNotSeen ==
    ASSUME FibInv, PutElement, UNCHANGED i
    PROVE  UNCHANGED Queue!queueVars
<1>1. /\ Statement("put") /\ Executing("put") /\ Done /\ SemInv /\ FibShapes
      /\ buffer' = [buffer EXCEPT ![Slot(first + count)] = elem[current]]
      /\ UNCHANGED <<first, count, elem, i>>
  BY DEF PutElement, Statement, FibInv, Slot
<1>2. Head(code[current]) = <<"put">> /\ current \in Thread
  BY <1>1, StatementKeepsSem
<1>3. current \in Producers /\ current \in Section /\ current \in Reserved
  BY <1>1, <1>2, ExecutedMovesSets DEF Tracked, SetsAfter
<1>4. \A t \in Thread, x \in Shown : ToDo(t, x)' <=> ToDo(t, x)
  BY <1>1, <1>2, OthersStayAhead DEF Shown
<1>5. (\A p \in Producers : Added(p)' <=> Added(p)) /\ (Cleared' <=> Cleared)
        /\ (Uncounted' <=> Uncounted)
  BY <1>4, FibAssumption DEF Shown, Added, InAdd, Cleared, Uncounted
<1>6. ~Cleared /\ ~Uncounted
  BY <1>3, NobodyTaking
<1>7. queue = Slots(count, first, buffer) /\ queue' = Slots(count, first, buffer')
  BY <1>1, <1>5, <1>6, TheView, TheViewNext DEF QueueView, QueueLength, QueueStart
<1>8. Slots(count, first, buffer') = Slots(count, first, buffer)
  <2>1. count \in 0 .. Length - 1
    BY <1>3, CountBounds
  <2>2. /\ first \in 0 .. Length - 1 /\ buffer \in [0 .. Length - 1 -> Element]
        /\ elem[current] \in Element
    BY <1>2 DEF FibInv, FibTypeOK
  <2>3. QED
    BY <1>1, <2>1, <2>2, SlotsPut
<1>9. NextNumber' = NextNumber /\ LastTaken' = LastTaken
  BY <1>1, <1>5 DEF NextNumber, LastTaken
<1>10. QED
  BY <1>7, <1>8, <1>9, TheView, TheViewNext DEF QueueView

(* Counting it puts it into the queue. *)
LEMMA CountUpPuts ==
    ASSUME FibInv, CountUp, UNCHANGED i, NEW p \in Producers, current = p
    PROVE  Queue!Put(p)
<1>1. /\ Statement("more") /\ Executing("more") /\ Done /\ SemInv /\ FibShapes
      /\ count' = count + 1 /\ UNCHANGED <<buffer, first, elem, i>>
  BY DEF CountUp, Statement, FibInv
<1>2. Head(code[current]) = <<"more">> /\ p \in Thread
  BY <1>1, StatementKeepsSem
<1>3. p \in Section /\ p \in Reserved
  BY <1>1, <1>2, ExecutedMovesSets DEF Tracked, SetsAfter
<1>4. Place(code[p], add, 10) /\ Place(code'[p], add, 11)
  <2>1. OnceAt(add, <<"more">>, 10) /\ 10 \in 1 .. 19 /\ 10 + 1 = 11
    BY WhereInAdd
  <2>2. QED
    BY <1>1, <1>2, <2>1, ExecutedInAdd DEF Tracked
<1>5. ToDo(p, <<"more">>) /\ ~ToDo(p, <<"put">>) /\ ~Added(p) /\ Added(p)'
  BY <1>4, AheadInAdd DEF ToDo, Added, InAdd
<1>6. \A t \in Thread, x \in Shown : t # p => (ToDo(t, x)' <=> ToDo(t, x))
  BY <1>1, OthersStayAhead
<1>7. /\ \A q \in Producers \ {p} : Added(q)' <=> Added(q)
      /\ (Cleared' <=> Cleared) /\ (Uncounted' <=> Uncounted)
  <2>1. \A c \in Consumers : c \in Thread /\ c # p
    BY FibAssumption
  <2>2. QED
    BY <1>6, <2>1, FibAssumption DEF Shown, Added, InAdd, Cleared, Uncounted
<1>8. ~Cleared /\ ~Uncounted
  BY <1>3, NobodyTaking
<1>9. /\ queue = Slots(count, first, buffer)
      /\ queue' = Slots(count + 1, first, buffer)
  BY <1>1, <1>7, <1>8, TheView, TheViewNext DEF QueueView, QueueLength, QueueStart
<1>10. /\ count \in 0 .. Length - 1 /\ count \in 0 .. Length /\ Length \in Nat
       /\ first \in 0 .. Length - 1 /\ first \in 0 .. Length
       /\ buffer \in [0 .. Length - 1 -> Element]
  BY <1>3, CountBounds, BufferAssumption DEF FibInv, FibTypeOK
<1>11. queue' = Append(queue, [id |-> p, arg |-> i[p]])
  <2>1. queue' = Append(queue, buffer[Slot(first + count)])
    BY <1>9, <1>10, SlotsAppend
  <2>2. buffer[Slot(first + count)] = [id |-> p, arg |-> i[p]]
    BY <1>5 DEF FibInv, ElementsInv, Slot
  <2>3. QED
    BY <2>1, <2>2
<1>12. Len(queue) < Length
  BY <1>9, <1>10, SlotsType
<1>13. /\ NextNumber[p] = i[p]
       /\ NextNumber' = [NextNumber EXCEPT ![p] = (@ + 1) % Modulus]
       /\ LastTaken' = LastTaken
  BY <1>1, <1>5, <1>7 DEF NextNumber, LastTaken
<1>14. QED
  BY <1>11, <1>12, <1>13 DEF Queue!Put, NextNumber, LastTaken

(* Copying an element out and clearing its slot takes it.                   *)
LEMMA GetTakes ==
    ASSUME FibInv, GetElement, UNCHANGED i, NEW c \in Consumers, current = c
    PROVE  Queue!Take(c)
<1>1. /\ Statement("get") /\ Executing("get") /\ Done /\ SemInv /\ FibShapes
      /\ elem' = [elem EXCEPT ![c] = buffer[first]]
      /\ buffer' = [buffer EXCEPT ![first] = emptySlot]
      /\ UNCHANGED <<first, count, i>>
  BY DEF GetElement, Statement, FibInv
<1>2. Head(code[current]) = <<"get">> /\ c \in Thread /\ c \notin Producers
  BY <1>1, StatementKeepsSem, FibAssumption
<1>3. c \in Section /\ c \in Claiming
  BY <1>1, <1>2, ExecutedMovesSets DEF Tracked, SetsAfter
<1>4. Place(code[c], take, 9) /\ Place(code'[c], take, 10)
  <2>1. OnceAt(take, <<"get">>, 9) /\ 9 \in 1 .. 19 /\ 9 + 1 = 10
    BY WhereInTake
  <2>2. QED
    BY <1>1, <1>2, <2>1, ExecutedInTake DEF Tracked
<1>5. /\ ToDo(c, <<"get">>) /\ ~ToDo(c, <<"get">>)'
      /\ ToDo(c, <<"first">>)' /\ ToDo(c, <<"less">>)'
  BY <1>4, AheadInTake DEF ToDo
<1>6. \A t \in Thread, x \in Shown : t # c => (ToDo(t, x)' <=> ToDo(t, x))
  BY <1>1, OthersStayAhead
<1>7. \A p \in Producers : Added(p)' <=> Added(p)
  BY <1>2, <1>6, FibAssumption DEF Shown, Added, InAdd
<1>8. ~Cleared /\ ~Uncounted /\ Cleared' /\ Uncounted'
  BY <1>3, <1>5, NobodyElseTaking DEF Cleared, Uncounted
<1>9. /\ queue = Slots(count, first, buffer)
      /\ queue' = Slots(count - 1, first + 1, buffer')
  BY <1>1, <1>8, TheView, TheViewNext DEF QueueView, QueueLength, QueueStart
<1>10. /\ count \in 1 .. Length /\ first \in 0 .. Length - 1
       /\ buffer \in [0 .. Length - 1 -> Element] /\ emptySlot \in Element
       /\ elem \in [Thread -> Element]
  BY <1>3, CountBounds DEF FibInv, FibTypeOK, Element, emptySlot
<1>11. queue # <<>> /\ Head(queue) = buffer[first] /\ queue' = Tail(queue)
  <2>1. /\ buffer' \in [0 .. Length - 1 -> Element]
        /\ \A k \in 0 .. Length - 1 : k # first => buffer'[k] = buffer[k]
    BY <1>1, <1>10
  <2>2. /\ Slots(count, first, buffer) # <<>>
        /\ Head(Slots(count, first, buffer)) = buffer[first]
        /\ Tail(Slots(count, first, buffer)) = Slots(count - 1, first + 1, buffer')
    BY <1>10, <2>1, SlotsTail
  <2>3. QED
    BY <1>9, <2>2
<1>12. /\ NextNumber' = NextNumber
       /\ LastTaken' = [LastTaken EXCEPT ![c] = buffer[first]]
  BY <1>1, <1>2, <1>7, <1>10, FibAssumption DEF NextNumber, LastTaken
<1>13. QED
  BY <1>11, <1>12 DEF Queue!Take, NextNumber, LastTaken

(* The two updates that end a take only restore the view. *)
LEMMA LessIsNotSeen ==
    ASSUME FibInv, CountDown, UNCHANGED i, NEW c \in Consumers, current = c
    PROVE  UNCHANGED Queue!queueVars
<1>1. /\ Statement("less") /\ Executing("less") /\ Done /\ SemInv /\ FibShapes
      /\ count' = count - 1 /\ UNCHANGED <<buffer, first, elem, i>>
  BY DEF CountDown, Statement, FibInv
<1>2. Head(code[current]) = <<"less">> /\ c \in Thread /\ c \notin Producers
  BY <1>1, StatementKeepsSem, FibAssumption
<1>3. c \in Section
  BY <1>1, <1>2, ExecutedMovesSets DEF Tracked, SetsAfter
<1>4. Place(code[c], take, 10) /\ Place(code'[c], take, 11)
  <2>1. OnceAt(take, <<"less">>, 10) /\ 10 \in 1 .. 19 /\ 10 + 1 = 11
    BY WhereInTake
  <2>2. QED
    BY <1>1, <1>2, <2>1, ExecutedInTake DEF Tracked
<1>5. /\ ToDo(c, <<"less">>) /\ ~ToDo(c, <<"less">>)'
      /\ ToDo(c, <<"first">>) /\ ToDo(c, <<"first">>)'
      /\ ~ToDo(c, <<"get">>) /\ ~ToDo(c, <<"get">>)'
  BY <1>4, AheadInTake DEF ToDo
<1>6. \A t \in Thread, x \in Shown : t # c => (ToDo(t, x)' <=> ToDo(t, x))
  BY <1>1, OthersStayAhead
<1>7. \A p \in Producers : Added(p)' <=> Added(p)
  BY <1>2, <1>6, FibAssumption DEF Shown, Added, InAdd
<1>8. Uncounted /\ Cleared /\ Cleared'
  BY <1>5 DEF Cleared, Uncounted
<1>9. ~Uncounted'
  <2>1. \A d \in Consumers \ {c} : ~(ToDo(d, <<"less">>) /\ ~ToDo(d, <<"get">>))
    BY <1>3, NobodyElseTaking
  <2>2. \A d \in Consumers \ {c} : ~(ToDo(d, <<"less">>)' /\ ~ToDo(d, <<"get">>)')
    BY <1>6, <2>1, FibAssumption DEF Shown
  <2>3. QED
    BY <1>5, <2>2 DEF Uncounted
<1>10. queue' = queue
  BY <1>1, <1>8, <1>9, TheView, TheViewNext DEF QueueView, QueueLength, QueueStart
<1>11. NextNumber' = NextNumber /\ LastTaken' = LastTaken
  BY <1>1, <1>7 DEF NextNumber, LastTaken
<1>12. QED
  BY <1>10, <1>11, TheView, TheViewNext DEF QueueView

(* Moving the front is not seen: the slot left was already empty. *)
LEMMA FirstIsNotSeen ==
    ASSUME FibInv, AdvanceFirst, UNCHANGED i, NEW c \in Consumers, current = c
    PROVE  UNCHANGED Queue!queueVars
<1>1. /\ Statement("first") /\ Executing("first") /\ Done /\ SemInv /\ FibShapes
      /\ first' = Slot(first + 1) /\ UNCHANGED <<buffer, count, elem, i>>
  BY DEF AdvanceFirst, Statement, FibInv, Slot
<1>2. Head(code[current]) = <<"first">> /\ c \in Thread /\ c \notin Producers
  BY <1>1, StatementKeepsSem, FibAssumption
<1>3. c \in Section
  BY <1>1, <1>2, ExecutedMovesSets DEF Tracked, SetsAfter
<1>4. Place(code[c], take, 15) /\ Place(code'[c], take, 16)
  <2>1. OnceAt(take, <<"first">>, 15) /\ 15 \in 1 .. 19 /\ 15 + 1 = 16
    BY WhereInTake
  <2>2. QED
    BY <1>1, <1>2, <2>1, ExecutedInTake DEF Tracked
<1>5. /\ ToDo(c, <<"first">>) /\ ~ToDo(c, <<"first">>)'
      /\ ~ToDo(c, <<"less">>) /\ ~ToDo(c, <<"less">>)'
      /\ ~ToDo(c, <<"get">>) /\ ~ToDo(c, <<"get">>)'
  BY <1>4, AheadInTake DEF ToDo
<1>6. \A t \in Thread, x \in Shown : t # c => (ToDo(t, x)' <=> ToDo(t, x))
  BY <1>1, OthersStayAhead
<1>7. \A p \in Producers : Added(p)' <=> Added(p)
  BY <1>2, <1>6, FibAssumption DEF Shown, Added, InAdd
<1>8. Cleared
  BY <1>5 DEF Cleared
<1>9. ~Uncounted /\ ~Uncounted' /\ ~Cleared'
  <2>1. \A d \in Consumers \ {c} : /\ ~(ToDo(d, <<"less">>) /\ ~ToDo(d, <<"get">>))
                                   /\ ~(ToDo(d, <<"first">>) /\ ~ToDo(d, <<"get">>))
    BY <1>3, NobodyElseTaking
  <2>2. \A d \in Consumers \ {c} : /\ ~(ToDo(d, <<"less">>)' /\ ~ToDo(d, <<"get">>)')
                                   /\ ~(ToDo(d, <<"first">>)' /\ ~ToDo(d, <<"get">>)')
    BY <1>6, <2>1, FibAssumption DEF Shown
  <2>3. QED
    BY <1>5, <2>1, <2>2 DEF Uncounted, Cleared
<1>10. queue = Slots(count, first + 1, buffer) /\ queue' = Slots(count, Slot(first + 1), buffer)
  BY <1>1, <1>8, <1>9, TheView, TheViewNext DEF QueueView, QueueLength, QueueStart
<1>11. queue' = queue
  <2>1. /\ count \in 0 .. Length /\ first \in 0 .. Length - 1
        /\ buffer \in [0 .. Length - 1 -> Element]
    BY CountBounds DEF FibInv, FibTypeOK
  <2>2. QED
    BY <1>10, <2>1, SlotsWrap
<1>12. NextNumber' = NextNumber /\ LastTaken' = LastTaken
  BY <1>1, <1>7 DEF NextNumber, LastTaken
<1>13. QED
  BY <1>11, <1>12, TheView, TheViewNext DEF QueueView

(* The producer's own count of its numbers follows what it has put. *)
LEMMA AdvanceIsNotSeen ==
    ASSUME FibInv, AdvanceI, NEW p \in Producers, current = p
    PROVE  UNCHANGED Queue!queueVars
<1>1. /\ Statement("advance") /\ Executing("advance") /\ Done /\ SemInv /\ FibShapes
      /\ i' = [i EXCEPT ![p] = (@ + 1) % Modulus]
      /\ UNCHANGED <<buffer, first, count, elem>>
  BY DEF AdvanceI, Statement, FibInv, bufferVars
<1>2. Head(code[current]) = <<"advance">> /\ p \in Thread
  BY <1>1, StatementKeepsSem
<1>3. Place(code[p], add, 19) /\ Place(code'[p], add, 20)
  <2>1. OnceAt(add, <<"advance">>, 19) /\ 19 \in 1 .. 19 /\ 19 + 1 = 20
    BY WhereInAdd
  <2>2. QED
    BY <1>1, <1>2, <2>1, ExecutedInAdd DEF Tracked
<1>4. Added(p) /\ ~Added(p)'
  BY <1>3, AheadInAdd DEF ToDo, Added, InAdd
<1>5. \A t \in Thread, x \in Shown : t # p => (ToDo(t, x)' <=> ToDo(t, x))
  BY <1>1, OthersStayAhead
<1>6. /\ \A q \in Producers \ {p} : Added(q)' <=> Added(q)
      /\ (Cleared' <=> Cleared) /\ (Uncounted' <=> Uncounted)
  <2>1. \A c \in Consumers : c \in Thread /\ c # p
    BY FibAssumption
  <2>2. QED
    BY <1>5, <2>1, FibAssumption DEF Shown, Added, InAdd, Cleared, Uncounted
<1>7. queue' = queue
  <2>1. QueueLength' = QueueLength /\ QueueStart' = QueueStart
    BY <1>1, <1>6 DEF QueueLength, QueueStart
  <2>2. QED
    BY <1>1, <2>1, TheView, TheViewNext DEF QueueView
<1>8. NextNumber' = NextNumber
  BY <1>1, <1>4, <1>6 DEF NextNumber, FibInv, FibTypeOK
<1>9. LastTaken' = LastTaken
  BY <1>1 DEF LastTaken
<1>10. QED
  BY <1>7, <1>8, <1>9, TheView, TheViewNext DEF QueueView

(* A call is not seen: it has done nothing yet. *)
LEMMA CallIsNotSeen ==
    ASSUME FibInv, NEW t \in Thread, current = t,
           \/ t \in Producers /\ Produce(t)
           \/ t \in Consumers /\ Consume(t)
    PROVE  UNCHANGED Queue!queueVars
<1>1. /\ SemInv /\ (t \in Producers <=> t \notin Consumers)
      /\ elem \in [Thread -> Element]
  BY FibAssumption DEF FibInv, FibTypeOK
<1>2. /\ Call(Path(t)) /\ UNCHANGED <<buffer, first, count, i>>
      /\ \A c \in Consumers : elem'[c] = elem[c]
  BY <1>1, FibAssumption DEF Produce, Consume, Path, add, take, bufferVars
<1>3. /\ code[t] = <<>> /\ code'[t] = Path(t)
      /\ \A u \in Thread \ {t} : code'[u] = code[u]
  BY <1>1, <1>2 DEF Call, SemInv, SemTypeOK
<1>4. Place(code[t], Path(t), 20) /\ Place(code'[t], Path(t), 1)
  <2> DEFINE P == Path(t)
  <2>1. P \in Seq(Instruction) /\ Len(P) = 19
    BY TheTwoPrograms DEF Path
  <2>2. code[t] = <<>> /\ code'[t] = P
    BY <1>3
  <2> HIDE DEF P
  <2>3. Place(<<>>, P, Len(P) + 1) /\ Place(P, P, 1)
    BY <2>1, PlaceEnds
  <2>4. Len(P) + 1 = 20
    BY <2>1
  <2>5. QED
    BY <2>2, <2>3, <2>4 DEF P
<1>5. /\ \A u \in Producers \ {t} : Added(u)' <=> Added(u)
      /\ \A u \in Consumers \ {t} : \A x : ToDo(u, x)' <=> ToDo(u, x)
  BY <1>3, FibAssumption DEF Added, InAdd, ToDo
<1>6. CASE t \in Producers
  <2>1. Path(t) = add
    BY <1>6 DEF Path
  <2>2. ~Added(t) /\ ~Added(t)'
    BY <1>4, <2>1, AheadInAdd DEF ToDo, Added, InAdd
  <2>3. (Cleared' <=> Cleared) /\ (Uncounted' <=> Uncounted)
    BY <1>1, <1>5, <1>6 DEF Cleared, Uncounted
  <2>4. QED
    BY <1>2, <1>5, <2>2, <2>3, ViewKept
<1>7. CASE t \in Consumers
  <2>1. Path(t) = take /\ t \notin Producers
    BY <1>1, <1>7 DEF Path
  <2>2. /\ ~ToDo(t, <<"first">>) /\ ~ToDo(t, <<"less">>)
        /\ ToDo(t, <<"get">>)'
    BY <1>4, <2>1, AheadInTake DEF ToDo
  <2>3. (Cleared' <=> Cleared) /\ (Uncounted' <=> Uncounted)
    BY <1>5, <2>2 DEF Cleared, Uncounted
  <2>4. QED
    BY <1>2, <1>5, <2>1, <2>3, ViewKept
<1>8. QED
  BY <1>6, <1>7, FibAssumption

(* The buffer starts as the empty queue. *)
LEMMA InitIsEmptyQueue == FibInit => Queue!QueueInit
<1> SUFFICES ASSUME FibInit PROVE Queue!QueueInit
  OBVIOUS
<1>1. /\ code = [t \in Thread |-> <<>>] /\ count = 0
      /\ elem = [t \in Thread |-> emptySlot] /\ i = [p \in Producers |-> 0]
  BY DEF FibInit, SemInit, SThreadInit, new_bounded_buffer
<1>2. \A t \in Thread : \A x : ~ToDo(t, x)
  <2>1. Range(<<>>) = {}
    BY DEF Range
  <2>2. QED
    BY <1>1, <2>1 DEF ToDo
<1>3. ~Uncounted /\ \A p \in Producers : ~Added(p)
  BY <1>2, FibAssumption DEF Uncounted, Added, InAdd
<1>4. queue = <<>>
  <2>1. QueueLength = 0
    BY <1>1, <1>3 DEF QueueLength
  <2>2. 1 .. 0 = {}
    OBVIOUS
  <2>3. QED
    BY <2>1, <2>2, TheView DEF QueueView, Slots
<1>5. QED
  BY <1>1, <1>3, <1>4, FibAssumption DEF Queue!QueueInit

(* Every step is one of the queue, or none. *)
LEMMA NextImplementsQueue ==
    ASSUME FibInv, [FibNext]_fibVars
    PROVE  [Queue!QueueNext]_(Queue!queueVars)
<1>1. CASE Run /\ UNCHANGED <<semaphoreVars, bufferVars, i>>
  BY <1>1, RunIsQuiet, QuietIsNotSeen
<1>2. CASE SemaphoreStep /\ UNCHANGED <<bufferVars, i>>
  BY <1>2, WaitingIsQuiet, QuietIsNotSeen, CountingIsNotSeen DEF SemaphoreStep
<1>3. CASE BufferStep /\ UNCHANGED i
  <2>1. PICK t \in Thread : current = t
    BY <1>3, StatementKeepsSem
       DEF BufferStep, PutElement, CountUp, GetElement, CountDown, AdvanceFirst, FibInv
  <2>2. CASE PutElement
    BY <1>3, <2>2, PutIsNotSeen
  <2>3. CASE CountUp
    <3>1. t \in Producers
      BY <2>1, <2>3, StatementKeepsSem, ExecutedMovesSets
         DEF CountUp, Statement, FibInv, Tracked, SetsAfter
    <3>2. QED
      BY <1>3, <2>1, <2>3, <3>1, CountUpPuts DEF Queue!QueueNext
  <2>4. ASSUME GetElement \/ CountDown \/ AdvanceFirst PROVE t \in Consumers
    BY <2>1, <2>4, StatementKeepsSem, ExecutedMovesSets
       DEF GetElement, CountDown, AdvanceFirst, Statement, FibInv, Tracked, SetsAfter
  <2>5. CASE GetElement
    BY <1>3, <2>1, <2>4, <2>5, GetTakes DEF Queue!QueueNext
  <2>6. CASE CountDown
    BY <1>3, <2>1, <2>4, <2>6, LessIsNotSeen
  <2>7. CASE AdvanceFirst
    BY <1>3, <2>1, <2>4, <2>7, FirstIsNotSeen
  <2>8. QED
    BY <1>3, <2>2, <2>3, <2>5, <2>6, <2>7 DEF BufferStep
<1>4. CASE \E p \in Producers : Produce(p)
  BY <1>4, CallIsNotSeen, FibAssumption DEF Produce
<1>5. CASE AdvanceI
  <2>1. PICK t \in Thread : current = t
    BY <1>5, StatementKeepsSem DEF AdvanceI, FibInv
  <2>2. t \in Producers
    BY <1>5, <2>1, StatementKeepsSem, ExecutedMovesSets
       DEF AdvanceI, Statement, FibInv, Tracked, SetsAfter
  <2>3. QED
    BY <1>5, <2>1, <2>2, AdvanceIsNotSeen
<1>6. CASE \E c \in Consumers : Consume(c)
  BY <1>6, CallIsNotSeen, FibAssumption DEF Consume
<1>7. CASE Interrupt /\ UNCHANGED <<semaphoreVars, bufferVars, i>>
  BY <1>7, InterruptIsQuiet, QuietIsNotSeen
<1>8. CASE UNCHANGED fibVars
  <2>1. code' = code /\ UNCHANGED <<bufferVars, i>>
    BY <1>8 DEF fibVars, threadVars
  <2>2. \A t \in Thread, x \in Shown : ToDo(t, x)' <=> ToDo(t, x)
    BY <2>1 DEF ToDo
  <2>3. QED
    BY <2>1, <2>2, ShownKeepsView DEF bufferVars
<1>9. QED
  BY <1>1, <1>2, <1>3, <1>4, <1>5, <1>6, <1>7, <1>8 DEF FibNext, FibRun

(* For every length of the buffer, every number of producers and consumers  *)
(* and every interleaving, the buffer is a bounded first-in first-out       *)
(* queue: the consumers get each producer's numbers in order, none lost,    *)
(* repeated or overwritten, and there are never more than Length of them.   *)
THEOREM BufferImplementsQueue == FibSpec => ImplementsQueue
<1>1. FibInv /\ [FibNext]_fibVars => [Queue!QueueNext]_(Queue!queueVars)
  BY NextImplementsQueue
<1>2. QED
  BY <1>1, InitIsEmptyQueue, FibAlwaysInv, PTL
     DEF FibSpec, ImplementsQueue, Queue!QueueSpec
================================================================================
