-------------------------- MODULE ReentrancyProofs --------------------------
(***************************************************************************)
(* No thread of either service waits for a lock that it holds itself, for  *)
(* any number of threads and any depth of calls from wakers and            *)
(* destructors, with one exception: the drop of an unfinished result slot  *)
(* inside remove_abort_handle must not call the service.                   *)
(*                                                                         *)
(* A program is what a thread has still to do.  The proof is about two     *)
(* things that can be read off it: a lock that it takes it also releases,  *)
(* and where it runs user code that may call the service it has nothing    *)
(* left to release.                                                        *)
(***************************************************************************)
EXTENDS Reentrancy, SequenceTheorems, TLAPS

UserCode == {"capacity", "termination", "result", "dropped", "user"}
Instr == [do : {"lock", "unlock"}, arg : Locks] \cup [do : {"user"}, arg : UserCode]

\* The instruction locks or unlocks l.
On(x, l) == x.do # "user" /\ x.arg = l

\* From position i on, the next thing that s does with lock l is to release it.
Unlocks(s, i, l) == \E j \in i..Len(s) : /\ s[j].do = "unlock" /\ s[j].arg = l
                                         /\ \A k \in i..(j - 1) : ~On(s[k], l)

\* What is locked is unlocked, and user code that may call the service runs unlocked.
Sound(s) == \A i \in 1..Len(s) :
               /\ s[i].do = "lock" => Unlocks(s, i + 1, s[i].arg)
               /\ s[i].do = "user" /\ s[i].arg \in Reentrant
                     => \A l \in Locks : ~Unlocks(s, i + 1, l)

\* A sound sequence that releases nothing it has not locked: a whole operation.
Closed(s) == \A l \in Locks : ~Unlocks(s, 1, l)
Program(s) == s \in Seq(Instr) /\ Sound(s) /\ Closed(s)

\* s may be run with l locked.
Quiet(s, l) == \A i \in 1..Len(s) : /\ ~On(s[i], l)
                                    /\ s[i].do = "user" => s[i].arg \notin Reentrant

-----------------------------------------------------------------------------
(* Concatenation.                                                          *)

\* A position in the first part of a concatenation keeps what it releases there.
LEMMA UnlocksFirst ==
    ASSUME NEW s \in Seq(Instr), NEW t \in Seq(Instr), NEW l, NEW i \in Nat \ {0},
           Unlocks(s, i, l)
    PROVE  Unlocks(s \o t, i, l)
<1>1. PICK j \in i..Len(s) : /\ s[j].do = "unlock" /\ s[j].arg = l
                             /\ \A k \in i..(j - 1) : ~On(s[k], l)
      BY DEF Unlocks
<1>2. /\ Len(s) \in Nat /\ Len(t) \in Nat /\ Len(s \o t) = Len(s) + Len(t)
      /\ \A k \in 1..Len(s) : (s \o t)[k] = s[k]
      BY ConcatProperties, LenProperties
<1>3. j \in i..Len(s \o t) /\ (s \o t)[j] = s[j]
      BY <1>2
<1>4. \A k \in i..(j - 1) : (s \o t)[k] = s[k]
      BY <1>2
<1> QED BY <1>1, <1>3, <1>4 DEF Unlocks

\* What a concatenation releases from a position in its second part on.
LEMMA UnlocksSecond ==
    ASSUME NEW s \in Seq(Instr), NEW t \in Seq(Instr), NEW l, NEW i \in Nat \ {0}
    PROVE  Unlocks(s \o t, Len(s) + i, l) <=> Unlocks(t, i, l)
<1>1. /\ Len(s) \in Nat /\ Len(t) \in Nat /\ Len(s \o t) = Len(s) + Len(t)
      /\ \A k \in 1..Len(t) : (s \o t)[Len(s) + k] = t[k]
      BY ConcatProperties, LenProperties
<1>2. ASSUME Unlocks(t, i, l) PROVE Unlocks(s \o t, Len(s) + i, l)
  <2>1. PICK j \in i..Len(t) : /\ t[j].do = "unlock" /\ t[j].arg = l
                               /\ \A k \in i..(j - 1) : ~On(t[k], l)
        BY <1>2 DEF Unlocks
  <2>2. Len(s) + j \in (Len(s) + i)..Len(s \o t) /\ (s \o t)[Len(s) + j] = t[j]
        BY <1>1
  <2>3. ASSUME NEW k \in (Len(s) + i)..(Len(s) + j - 1) PROVE ~On((s \o t)[k], l)
    <3>1. k - Len(s) \in i..(j - 1) /\ k - Len(s) \in 1..Len(t) /\ Len(s) + (k - Len(s)) = k
          BY <1>1
    <3>2. (s \o t)[k] = t[k - Len(s)]
          BY <1>1, <3>1
    <3> QED BY <2>1, <3>1, <3>2
  <2> QED BY <2>1, <2>2, <2>3 DEF Unlocks
<1>3. ASSUME Unlocks(s \o t, Len(s) + i, l) PROVE Unlocks(t, i, l)
  <2>1. PICK j \in (Len(s) + i)..Len(s \o t) :
               /\ (s \o t)[j].do = "unlock" /\ (s \o t)[j].arg = l
               /\ \A k \in (Len(s) + i)..(j - 1) : ~On((s \o t)[k], l)
        BY <1>3 DEF Unlocks
  <2>2. j - Len(s) \in i..Len(t) /\ j - Len(s) \in 1..Len(t) /\ Len(s) + (j - Len(s)) = j
    <3> DEFINE n == Len(s)
               m == Len(t)
    <3>1. n \in Nat /\ m \in Nat /\ j \in (n + i)..(n + m)
          BY <1>1
    <3> HIDE DEF n, m
    <3>2. j - n \in i..m /\ j - n \in 1..m /\ n + (j - n) = j
          BY <3>1
    <3> QED BY <3>2 DEF n, m
  <2>3. (s \o t)[j] = t[j - Len(s)]
        BY <1>1, <2>2
  <2>4. ASSUME NEW k \in i..(j - Len(s) - 1) PROVE ~On(t[k], l)
    <3>1. k \in 1..Len(t) /\ Len(s) + k \in (Len(s) + i)..(j - 1)
          BY <1>1, <2>2
    <3>2. (s \o t)[Len(s) + k] = t[k]
          BY <1>1, <3>1
    <3> QED BY <2>1, <3>1, <3>2
  <2> QED BY <2>1, <2>2, <2>3, <2>4 DEF Unlocks
<1> QED BY <1>2, <1>3

\* A second part that releases nothing adds nothing to what the first part releases.
LEMMA UnlocksOnlyFirst ==
    ASSUME NEW s \in Seq(Instr), NEW t \in Seq(Instr), NEW l, NEW i \in 1..(Len(s) + 1),
           ~Unlocks(t, 1, l), Unlocks(s \o t, i, l)
    PROVE  Unlocks(s, i, l)
<1>1. /\ Len(s) \in Nat /\ Len(t) \in Nat /\ Len(s \o t) = Len(s) + Len(t)
      /\ \A k \in 1..Len(s) : (s \o t)[k] = s[k]
      BY ConcatProperties, LenProperties
<1>2. PICK j \in i..Len(s \o t) : /\ (s \o t)[j].do = "unlock" /\ (s \o t)[j].arg = l
                                  /\ \A k \in i..(j - 1) : ~On((s \o t)[k], l)
      BY DEF Unlocks
<1>3. CASE j \in i..Len(s)
  <2>1. (s \o t)[j] = s[j] /\ \A k \in i..(j - 1) : (s \o t)[k] = s[k]
        BY <1>1, <1>3
  <2> QED BY <1>2, <1>3, <2>1 DEF Unlocks
<1>4. CASE j \in (Len(s) + 1)..Len(s \o t)
  <2>1. \A k \in (Len(s) + 1)..(j - 1) : ~On((s \o t)[k], l)
        BY <1>1, <1>2
  <2>2. Unlocks(s \o t, Len(s) + 1, l)
        BY <1>2, <1>4, <2>1 DEF Unlocks
  <2> QED BY <2>2, UnlocksSecond
<1> QED BY <1>1, <1>3, <1>4

\* A sound sequence may be followed by a whole operation or by what releases nothing.
LEMMA SoundConcat ==
    ASSUME NEW s \in Seq(Instr), NEW t \in Seq(Instr), Sound(s), Sound(t), Closed(t)
    PROVE  s \o t \in Seq(Instr) /\ Sound(s \o t)
<1>1. /\ Len(s) \in Nat /\ Len(t) \in Nat /\ Len(s \o t) = Len(s) + Len(t)
      /\ \A k \in 1..Len(s) : (s \o t)[k] = s[k]
      /\ \A k \in 1..Len(t) : (s \o t)[Len(s) + k] = t[k]
      /\ s \o t \in Seq(Instr)
      BY ConcatProperties, LenProperties
<1>2. ASSUME NEW i \in 1..Len(s \o t)
      PROVE  /\ (s \o t)[i].do = "lock" => Unlocks(s \o t, i + 1, (s \o t)[i].arg)
             /\ (s \o t)[i].do = "user" /\ (s \o t)[i].arg \in Reentrant
                   => \A l \in Locks : ~Unlocks(s \o t, i + 1, l)
  <2>1. CASE i \in 1..Len(s)
    <3>1. (s \o t)[i] = s[i] /\ i + 1 \in Nat \ {0} /\ i + 1 \in 1..(Len(s) + 1)
          BY <1>1, <2>1
    <3>2. ASSUME s[i].do = "lock" PROVE Unlocks(s \o t, i + 1, s[i].arg)
          BY <2>1, <3>1, <3>2, UnlocksFirst DEF Sound
    <3>3. ASSUME s[i].do = "user", s[i].arg \in Reentrant, NEW l \in Locks
          PROVE  ~Unlocks(s \o t, i + 1, l)
          BY <2>1, <3>1, <3>3, UnlocksOnlyFirst DEF Sound, Closed
    <3> QED BY <3>1, <3>2, <3>3
  <2>2. CASE i \in (Len(s) + 1)..Len(s \o t)
    <3> DEFINE m == i - Len(s)
    <3>1. m \in 1..Len(t) /\ Len(s) + m = i /\ m + 1 \in Nat \ {0} /\ Len(s) + (m + 1) = i + 1
          BY <1>1, <2>2
    <3>2. (s \o t)[i] = t[m]
          BY <1>1, <3>1
    <3> HIDE DEF m
    <3>3. \A l : Unlocks(s \o t, i + 1, l) <=> Unlocks(t, m + 1, l)
          BY <3>1, UnlocksSecond
    <3> QED BY <3>1, <3>2, <3>3 DEF Sound
  <2> QED BY <1>1, <2>1, <2>2
<1> QED BY <1>1, <1>2 DEF Sound

\* Two operations one after the other are an operation.
LEMMA ProgramConcat ==
    ASSUME NEW s, NEW t, Program(s), Program(t)
    PROVE  Program(s \o t)
<1>1. s \o t \in Seq(Instr) /\ Sound(s \o t)
      BY SoundConcat DEF Program
<1>2. Closed(s \o t)
  <2>1. 1 \in 1..(Len(s) + 1)
        BY LenProperties DEF Program
  <2> QED BY <2>1, UnlocksOnlyFirst DEF Closed, Program
<1> QED BY <1>1, <1>2 DEF Program

-----------------------------------------------------------------------------
(* The building blocks of the operations.                                  *)

\* Doing nothing is a whole operation, and may be done with any lock held.
LEMMA EmptyProgram == Program(<<>>) /\ \A l : Quiet(<<>>, l)
BY EmptySeq DEF Program, Sound, Closed, Unlocks, Quiet

\* A call of user code is a whole operation.
LEMMA UserProgram == \A u \in UserCode : Program(User(u))
<1> TAKE u \in UserCode
<1>1. User(u) \in Seq(Instr) /\ Len(User(u)) = 1 /\ User(u)[1] = [do |-> "user", arg |-> u]
      BY DEF User, Instr
<1>2. \A l : ~Unlocks(User(u), 1, l) /\ ~Unlocks(User(u), 1 + 1, l)
      BY <1>1 DEF Unlocks
<1> QED BY <1>1, <1>2 DEF Program, Sound, Closed

\* Operations that are quiet for l one after the other are quiet for l.
LEMMA QuietConcat ==
    ASSUME NEW s \in Seq(Instr), NEW t \in Seq(Instr), NEW l, Quiet(s, l), Quiet(t, l)
    PROVE  Quiet(s \o t, l)
<1>1. /\ Len(s) \in Nat /\ Len(t) \in Nat /\ Len(s \o t) = Len(s) + Len(t)
      /\ \A k \in 1..Len(s) : (s \o t)[k] = s[k]
      /\ \A k \in 1..Len(t) : (s \o t)[Len(s) + k] = t[k]
      BY ConcatProperties, LenProperties
<1>2. ASSUME NEW i \in 1..Len(s \o t)
      PROVE  \/ \E k \in 1..Len(s) : (s \o t)[i] = s[k]
             \/ \E k \in 1..Len(t) : (s \o t)[i] = t[k]
  <2>1. CASE i \in 1..Len(s)
        BY <1>1, <2>1
  <2>2. CASE i \in (Len(s) + 1)..Len(s \o t)
    <3>1. i - Len(s) \in 1..Len(t) /\ Len(s) + (i - Len(s)) = i
          BY <1>1, <2>2
    <3> QED BY <1>1, <3>1
  <2> QED BY <1>1, <2>1, <2>2
<1> QED BY <1>2 DEF Quiet

\* A lock section around an operation that is quiet for its lock is an operation: this
\* is the form of everything the services do with a lock held.
LEMMA Bracket ==
    ASSUME NEW l \in Locks, NEW b, Program(b), Quiet(b, l)
    PROVE  Program(Lock(l) \o b \o Unlock(l))
<1> DEFINE s == Lock(l) \o b \o Unlock(l)
           n == Len(b)
<1>1. /\ b \in Seq(Instr) /\ n \in Nat
      /\ Lock(l) \in Seq(Instr) /\ Len(Lock(l)) = 1 /\ Lock(l)[1] = [do |-> "lock", arg |-> l]
      /\ Unlock(l) \in Seq(Instr) /\ Len(Unlock(l)) = 1
      /\ Unlock(l)[1] = [do |-> "unlock", arg |-> l]
      BY LenProperties DEF Program, Lock, Unlock, Instr
<1>2. /\ Lock(l) \o b \in Seq(Instr) /\ Len(Lock(l) \o b) = n + 1
      /\ (Lock(l) \o b)[1] = Lock(l)[1]
      /\ \A k \in 1..n : (Lock(l) \o b)[k + 1] = b[k]
  <2>1. /\ Lock(l) \o b \in Seq(Instr) /\ Len(Lock(l) \o b) = 1 + n
        /\ \A i \in 1..(1 + n) : (Lock(l) \o b)[i] = IF i <= 1 THEN Lock(l)[i] ELSE b[i - 1]
    <3> DEFINE a == Lock(l)
    <3>1. a \in Seq(Instr) /\ Len(a) = 1
          BY <1>1
    <3> HIDE DEF a
    <3>2. /\ a \o b \in Seq(Instr) /\ Len(a \o b) = Len(a) + n
          /\ \A i \in 1..(Len(a) + n) : (a \o b)[i] = IF i <= Len(a) THEN a[i] ELSE b[i - Len(a)]
          BY <1>1, <3>1, ConcatProperties
    <3> QED BY <3>1, <3>2 DEF a
  <2> QED BY <1>1, <2>1
<1>3. /\ s \in Seq(Instr) /\ Len(s) = n + 2
      /\ s[1] = [do |-> "lock", arg |-> l] /\ s[n + 2] = [do |-> "unlock", arg |-> l]
      /\ \A k \in 1..n : s[k + 1] = b[k]
  <2>1. /\ s \in Seq(Instr) /\ Len(s) = (n + 1) + 1
        /\ \A i \in 1..((n + 1) + 1) :
              s[i] = IF i <= n + 1 THEN (Lock(l) \o b)[i] ELSE Unlock(l)[i - (n + 1)]
        BY <1>1, <1>2, ConcatProperties
  <2> QED BY <1>1, <1>2, <2>1
<1> HIDE DEF s, n
\* Outside l the section does what b does.
<1>4. ASSUME NEW i \in 1..(n + 1), NEW l2 \in Locks, l2 # l
      PROVE  Unlocks(s, i + 1, l2) <=> Unlocks(b, i, l2)
  <2>1. ASSUME Unlocks(b, i, l2) PROVE Unlocks(s, i + 1, l2)
    <3>1. PICK j \in i..n : /\ b[j].do = "unlock" /\ b[j].arg = l2
                            /\ \A k \in i..(j - 1) : ~On(b[k], l2)
          BY <2>1 DEF Unlocks, n
    <3>2. j + 1 \in (i + 1)..Len(s) /\ s[j + 1] = b[j]
          BY <1>1, <1>3
    <3>3. ASSUME NEW k \in (i + 1)..(j + 1 - 1) PROVE ~On(s[k], l2)
      <4>1. k - 1 \in i..(j - 1) /\ k - 1 \in 1..n /\ (k - 1) + 1 = k
            BY <1>1
      <4> QED BY <1>3, <3>1, <4>1
    <3> QED BY <3>1, <3>2, <3>3 DEF Unlocks
  <2>2. ASSUME Unlocks(s, i + 1, l2) PROVE Unlocks(b, i, l2)
    <3>1. PICK j \in (i + 1)..(n + 2) : /\ s[j].do = "unlock" /\ s[j].arg = l2
                                        /\ \A k \in (i + 1)..(j - 1) : ~On(s[k], l2)
          BY <1>3, <2>2 DEF Unlocks
    <3>2. j # n + 2
          BY <1>3, <1>4, <3>1
    <3>3. j - 1 \in i..n /\ j - 1 \in 1..n /\ (j - 1) + 1 = j
          BY <1>1, <3>2
    <3>4. ASSUME NEW k \in i..(j - 1 - 1) PROVE ~On(b[k], l2)
      <4>1. k \in 1..n /\ k + 1 \in (i + 1)..(j - 1)
            BY <1>1, <3>3
      <4> QED BY <1>3, <3>1, <4>1
    <3> QED BY <1>3, <3>1, <3>3, <3>4 DEF Unlocks, n
  <2> QED BY <2>1, <2>2
<1>5. Unlocks(s, 2, l)
  <2>1. n + 2 \in 2..Len(s)
        BY <1>1, <1>3
  <2>2. ASSUME NEW k \in 2..((n + 2) - 1) PROVE ~On(s[k], l)
    <3>1. k - 1 \in 1..n /\ (k - 1) + 1 = k
          BY <1>1
    <3> QED BY <1>3, <3>1 DEF Quiet, n
  <2>3. s[n + 2].do = "unlock" /\ s[n + 2].arg = l
        BY <1>3
  <2>4. \E j \in 2..Len(s) : /\ s[j].do = "unlock" /\ s[j].arg = l
                             /\ \A k \in 2..(j - 1) : ~On(s[k], l)
        BY <2>1, <2>2, <2>3
  <2> QED BY <2>4 DEF Unlocks
<1>6. Sound(s)
  <2> SUFFICES ASSUME NEW i \in 1..(n + 2)
               PROVE  /\ s[i].do = "lock" => Unlocks(s, i + 1, s[i].arg)
                      /\ s[i].do = "user" /\ s[i].arg \in Reentrant
                            => \A l2 \in Locks : ~Unlocks(s, i + 1, l2)
        BY <1>3 DEF Sound
  <2>1. CASE i = 1
        BY <1>3, <1>5, <2>1
  <2>2. CASE i = n + 2
        BY <1>3, <2>2
  <2>3. CASE i \in 2..(n + 1)
    <3> DEFINE k == i - 1
    <3>1. k \in 1..n /\ k + 1 = i /\ i \in 1..(n + 1)
          BY <1>1, <2>3
    <3>2. s[i] = b[k] /\ b[k] \in Instr
          BY <1>1, <1>3, <3>1, ElementOfSeq DEF n
    <3> HIDE DEF k
    <3>3. ~On(b[k], l) /\ (b[k].do = "user" => b[k].arg \notin Reentrant)
          BY <3>1 DEF Quiet, n
    <3>4. ASSUME b[k].do = "lock" PROVE Unlocks(s, i + 1, b[k].arg)
      <4>1. b[k].arg \in Locks /\ b[k].arg # l
            BY <3>2, <3>3, <3>4 DEF Instr, On
      <4>2. Unlocks(b, k + 1, b[k].arg)
            BY <3>1, <3>4 DEF Program, Sound, n
      <4> QED BY <1>4, <3>1, <4>1, <4>2
    <3> QED BY <3>2, <3>3, <3>4
  <2> QED BY <1>1, <2>1, <2>2, <2>3
<1>7. Closed(s)
  <2> SUFFICES ASSUME NEW l2 \in Locks, Unlocks(s, 1, l2) PROVE FALSE
        BY DEF Closed
  <2>1. PICK j \in 1..(n + 2) : /\ s[j].do = "unlock" /\ s[j].arg = l2
                                /\ \A k \in 1..(j - 1) : ~On(s[k], l2)
        BY <1>3 DEF Unlocks
  <2>2. j # 1
        BY <1>3, <2>1
  <2>3. 1 \in 1..(j - 1) /\ j \in 2..(n + 2) /\ 1 \in 1..(n + 1)
        BY <1>1, <2>2
  <2>4. l2 # l
        BY <1>3, <2>1, <2>3 DEF On
  <2>5. Unlocks(s, 1 + 1, l2)
    <3>1. \A k \in 2..(j - 1) : ~On(s[k], l2)
          BY <2>1
    <3> QED BY <1>3, <2>1, <2>3, <3>1 DEF Unlocks
  <2>6. Unlocks(b, 1, l2)
        BY <1>4, <2>3, <2>4, <2>5
  <2> QED BY <2>6 DEF Program, Closed
<1> QED BY <1>3, <1>6, <1>7 DEF Program, s

\* An empty lock section is an operation, and quiet for every other lock.
LEMMA SectionProgram ==
    ASSUME NEW l \in Locks
    PROVE  Program(Section(l)) /\ \A m \in Locks \ {l} : Quiet(Section(l), m)
<1>1. /\ Lock(l) \in Seq(Instr) /\ Len(Lock(l)) = 1 /\ Lock(l)[1] = [do |-> "lock", arg |-> l]
      /\ Unlock(l) \in Seq(Instr) /\ Len(Unlock(l)) = 1
      /\ Unlock(l)[1] = [do |-> "unlock", arg |-> l]
      BY DEF Lock, Unlock, Instr
<1>2. Program(Section(l))
  <2>1. Lock(l) \o <<>> = Lock(l)
        BY <1>1, ConcatEmptySeq
  <2> QED BY <2>1, EmptyProgram, Bracket DEF Section
<1>3. ASSUME NEW m \in Locks \ {l} PROVE Quiet(Section(l), m)
  <2>1. Quiet(Lock(l), m) /\ Quiet(Unlock(l), m)
        BY <1>1 DEF Quiet, On
  <2> QED BY <1>1, <2>1, QuietConcat DEF Section
<1> QED BY <1>2, <1>3

-----------------------------------------------------------------------------
(* The operations.                                                         *)

\* The blocking service's section of the counts, taken by itself or under S.
CountSection == IF kind = "blocking" THEN Section("M") ELSE <<>>

\* The section of the counts is an operation that may run with the admission lock held.
LEMMA CountProgram == Program(CountSection) /\ Quiet(CountSection, "S")
<1>1. "M" \in Locks /\ "S" \in Locks \ {"M"}
      BY DEF Locks
<1> QED BY <1>1, EmptyProgram, SectionProgram DEF CountSection

\* The closing and releasing parts that several operations share are operations.
LEMMA TailPrograms == Program(finish_task) /\ Program(notify_if_terminated)
<1>1. /\ Program(User("capacity")) /\ Program(User("termination"))
      BY UserProgram DEF UserCode
<1>2. Program(CountSection \o User("capacity"))
      BY <1>1, CountProgram, ProgramConcat
<1>3. Program(CountSection \o User("capacity") \o User("termination"))
      BY <1>1, <1>2, ProgramConcat
<1>4. Program(CountSection \o User("termination"))
      BY <1>1, CountProgram, ProgramConcat
<1> QED BY <1>3, <1>4 DEF finish_task, notify_if_terminated, CountSection

\* The guard's drop is an operation if the code that runs inside remove_abort_handle,
\* under the lock of the abort map, is quiet.
LEMMA GuardProgram ==
    ASSUME NEW drops, Program(drops), Quiet(drops, "A")
    PROVE  Program(remove_abort_handle(drops)) /\ Program(guard_drop(drops))
<1>1. Program(Lock("A") \o drops \o Unlock("A"))
      BY Bracket DEF Locks
<1> QED BY <1>1, TailPrograms, ProgramConcat DEF remove_abort_handle, guard_drop

\* The slot that a closing runtime orphans runs user code under the lock of the abort
\* map; it is quiet if that code does not call the service.
LEMMA DroppedProgram ==
    ASSUME "dropped" \notin Reentrant
    PROVE  Program(DroppedSlot) /\ Quiet(DroppedSlot, "A")
<1>1. Program(User("dropped"))
      BY UserProgram DEF UserCode
<1>2. Quiet(User("dropped"), "A")
  <2>1. Len(User("dropped")) = 1 /\ User("dropped")[1] = [do |-> "user", arg |-> "dropped"]
        BY DEF User
  <2> QED BY <2>1 DEF Quiet, On
<1> QED BY <1>1, <1>2, EmptyProgram DEF DroppedSlot

\* A submission is an operation: spawning and registering under the admission lock
\* takes other locks only, and runs no user code.
LEMMA SubmitProgram == Program(try_submit)
<1>1. /\ "A" \in Locks /\ "S" \in Locks /\ "S" \in Locks \ {"A"}
      BY DEF Locks
<1>2. Program(Section("A")) /\ Quiet(Section("A"), "S")
      BY <1>1, SectionProgram
<1>3. Program(CountSection \o Section("A")) /\ Quiet(CountSection \o Section("A"), "S")
      BY <1>2, CountProgram, ProgramConcat, QuietConcat DEF Program
<1>4. Program(Lock("S") \o (CountSection \o Section("A")) \o Unlock("S"))
      BY <1>1, <1>3, Bracket
<1>5. Lock("S") \o (CountSection \o Section("A")) = Lock("S") \o CountSection \o Section("A")
  <2>1. Lock("S") \in Seq(Instr)
        BY <1>1 DEF Lock, Instr
  <2>2. CountSection \in Seq(Instr) /\ Section("A") \in Seq(Instr)
        BY <1>2, CountProgram DEF Program
  <2> QED BY <2>1, <2>2, ConcatAssociative
<1> QED BY <1>4, <1>5 DEF try_submit, CountSection

\* Every operation of either service is sound: wherever it runs user code that may call
\* the service, it has nothing to unlock.
LEMMA OperationPrograms ==
    ASSUME "dropped" \notin Reentrant
    PROVE  \A op \in Operations : Program(op)
<1>1. /\ Program(User("capacity")) /\ Program(User("result")) /\ Program(User("user"))
      BY UserProgram DEF UserCode
<1>2. /\ Program(Section("S")) /\ Program(Section("A"))
      BY SectionProgram DEF Locks
<1>3. Program(Lock("S") \o CountSection \o Unlock("S"))
      BY CountProgram, Bracket DEF Locks
<1>4. Program(shutdown)
  <2>1. Program(Section("S") \o User("capacity"))
        BY <1>1, <1>2, ProgramConcat
  <2> QED BY <2>1, TailPrograms, ProgramConcat DEF shutdown
<1>5. Program(stop)
  <2> DEFINE sweep == IF kind = "blocking" THEN finish_task \o User("result") ELSE <<>>
  <2>1. Program(sweep)
        BY <1>1, EmptyProgram, TailPrograms, ProgramConcat
  <2> HIDE DEF sweep
  <2>2. Program(Lock("S") \o CountSection \o Unlock("S") \o Section("A"))
        BY <1>2, <1>3, ProgramConcat
  <2>3. Program(Lock("S") \o CountSection \o Unlock("S") \o Section("A") \o sweep)
        BY <2>1, <2>2, ProgramConcat
  <2>4. Program(Lock("S") \o CountSection \o Unlock("S") \o Section("A") \o sweep
                \o User("capacity"))
        BY <1>1, <2>3, ProgramConcat
  <2>5. Program(Lock("S") \o CountSection \o Unlock("S") \o Section("A") \o sweep
                \o User("capacity") \o notify_if_terminated)
        BY <2>4, TailPrograms, ProgramConcat
  <2> QED BY <2>5 DEF stop, sweep, CountSection
<1>6. Program(submit_rejected)
      BY <1>1, <1>3, ProgramConcat DEF submit_rejected, CountSection
<1>7. Program(guard_drop(DroppedSlot)) /\ Program(guard_drop(<<>>))
      /\ Program(remove_abort_handle(<<>>))
      BY DroppedProgram, EmptyProgram, GuardProgram
<1>8. Program(submit_undelivered)
  <2>1. Program(try_submit \o User("user"))
        BY <1>1, SubmitProgram, ProgramConcat
  <2> QED BY <1>7, <2>1, ProgramConcat DEF submit_undelivered
<1>9. Program(cancel)
  <2>1. Program(User("result") \o remove_abort_handle(<<>>))
        BY <1>1, <1>7, ProgramConcat
  <2>2. Program(User("result") \o remove_abort_handle(<<>>) \o finish_task)
        BY <2>1, TailPrograms, ProgramConcat
  <2> QED BY <2>2, EmptyProgram DEF cancel
<1>10. Program(worker_finish)
  <2>1. Program(User("result") \o guard_drop(<<>>)) /\ Program(guard_drop(<<>>) \o User("result"))
        BY <1>1, <1>7, ProgramConcat
  <2>2. /\ Program(User("user") \o (User("result") \o guard_drop(<<>>)))
        /\ Program(User("user") \o (guard_drop(<<>>) \o User("result")))
        BY <1>1, <2>1, ProgramConcat
  <2> QED BY <2>2 DEF worker_finish
<1>11. Program(worker_discard)
      BY <1>1, <1>7, ProgramConcat DEF worker_discard
<1> QED BY <1>4, <1>5, <1>6, <1>8, <1>9, <1>10, <1>11, SubmitProgram DEF Operations, Calls

-----------------------------------------------------------------------------
(* The invariant.                                                          *)

\* The inductive invariant: what each thread has still to do is sound, and it will
\* release every lock that it holds.
LockInv ==
    /\ code \in [Threads -> Seq(Instr)]
    /\ owner \in [Locks -> Threads \cup {"none"}]
    /\ \A th \in Threads : Sound(code[th])
    /\ \A th \in Threads, l \in Locks : owner[l] = th => Unlocks(code[th], 1, l)

\* What one step of a thread leaves of its program: soundness, every release but that
\* of its first instruction, and, after user code that may call the service, nothing
\* to release.
LEMMA StepProgram ==
    ASSUME NEW s \in Seq(Instr), s # <<>>, Sound(s)
    PROVE  /\ Head(s) \in Instr /\ Tail(s) \in Seq(Instr) /\ <<>> \o Tail(s) = Tail(s)
           /\ Sound(Tail(s))
           /\ \A l : Unlocks(s, 1, l) => \/ Unlocks(Tail(s), 1, l) /\ ~On(Head(s), l)
                                         \/ Head(s).do = "unlock" /\ Head(s).arg = l
           /\ Head(s).do = "lock" => Unlocks(Tail(s), 1, Head(s).arg)
           /\ Head(s).do = "user" /\ Head(s).arg \in Reentrant => Closed(Tail(s))
<1> DEFINE t == Tail(s)
<1>1. /\ Head(s) \in Instr /\ t \in Seq(Instr) /\ Len(t) \in Nat /\ Len(s) = Len(t) + 1
      /\ s[1] = Head(s) /\ \A i \in 1..Len(t) : t[i] = s[i + 1]
  <2>1. /\ Head(s) \in Instr /\ t \in Seq(Instr) /\ Len(t) = Len(s) - 1
        /\ \A i \in 1..Len(t) : t[i] = s[i + 1]
        BY HeadTailProperties
  <2>2. s[1] = Head(s) /\ Len(s) \in Nat
        BY LenProperties
  <2>3. Len(t) \in Nat
        BY <2>1, LenProperties
  <2> QED BY <2>1, <2>2, <2>3
<1>2. <<>> \o t = t
      BY <1>1, ConcatEmptySeq
<1> HIDE DEF t
<1>3. ASSUME NEW i \in Nat \ {0}, NEW l PROVE Unlocks(t, i, l) <=> Unlocks(s, i + 1, l)
  <2>1. ASSUME Unlocks(t, i, l) PROVE Unlocks(s, i + 1, l)
    <3>1. PICK j \in i..Len(t) : /\ t[j].do = "unlock" /\ t[j].arg = l
                                 /\ \A k \in i..(j - 1) : ~On(t[k], l)
          BY <2>1 DEF Unlocks
    <3>2. j + 1 \in (i + 1)..Len(s) /\ s[j + 1] = t[j]
          BY <1>1
    <3>3. ASSUME NEW k \in (i + 1)..((j + 1) - 1) PROVE ~On(s[k], l)
      <4>1. k - 1 \in i..(j - 1) /\ k - 1 \in 1..Len(t) /\ (k - 1) + 1 = k
            BY <1>1
      <4> QED BY <1>1, <3>1, <4>1
    <3> QED BY <3>1, <3>2, <3>3 DEF Unlocks
  <2>2. ASSUME Unlocks(s, i + 1, l) PROVE Unlocks(t, i, l)
    <3>1. PICK j \in (i + 1)..Len(s) : /\ s[j].do = "unlock" /\ s[j].arg = l
                                       /\ \A k \in (i + 1)..(j - 1) : ~On(s[k], l)
          BY <2>2 DEF Unlocks
    <3>2. j - 1 \in i..Len(t) /\ j - 1 \in 1..Len(t) /\ (j - 1) + 1 = j
          BY <1>1
    <3>3. ASSUME NEW k \in i..(j - 1 - 1) PROVE ~On(t[k], l)
      <4>1. k \in 1..Len(t) /\ k + 1 \in (i + 1)..(j - 1)
            BY <1>1, <3>2
      <4> QED BY <1>1, <3>1, <4>1
    <3> QED BY <1>1, <3>1, <3>2, <3>3 DEF Unlocks
  <2> QED BY <2>1, <2>2
<1>4. Sound(t)
  <2> SUFFICES ASSUME NEW i \in 1..Len(t)
               PROVE  /\ t[i].do = "lock" => Unlocks(t, i + 1, t[i].arg)
                      /\ t[i].do = "user" /\ t[i].arg \in Reentrant
                            => \A l \in Locks : ~Unlocks(t, i + 1, l)
        BY DEF Sound
  <2>1. i + 1 \in 1..Len(s) /\ t[i] = s[i + 1] /\ i + 1 \in Nat \ {0}
        BY <1>1
  <2>2. \A l : Unlocks(t, i + 1, l) <=> Unlocks(s, (i + 1) + 1, l)
        BY <1>3, <2>1
  <2> QED BY <2>1, <2>2 DEF Sound
<1>5. ASSUME NEW l, Unlocks(s, 1, l)
      PROVE  \/ Unlocks(t, 1, l) /\ ~On(Head(s), l)
             \/ Head(s).do = "unlock" /\ Head(s).arg = l
  <2>1. PICK j \in 1..Len(s) : /\ s[j].do = "unlock" /\ s[j].arg = l
                               /\ \A k \in 1..(j - 1) : ~On(s[k], l)
        BY <1>5 DEF Unlocks
  <2>2. CASE j = 1
        BY <1>1, <2>1, <2>2
  <2>3. CASE j \in 2..Len(s)
    <3>1. 1 \in 1..(j - 1) /\ \A k \in 2..(j - 1) : k \in 1..(j - 1)
          BY <2>3
    <3>2. \E m \in 2..Len(s) : /\ s[m].do = "unlock" /\ s[m].arg = l
                               /\ \A k \in 2..(m - 1) : ~On(s[k], l)
          BY <2>1, <2>3, <3>1
    <3>3. Unlocks(s, 1 + 1, l)
          BY <3>2 DEF Unlocks
    <3> QED BY <1>1, <1>3, <2>1, <3>1, <3>3
  <2> QED BY <1>1, <2>2, <2>3
<1>6. 1 \in 1..Len(s)
      BY <1>1
<1>7. Head(s).do = "lock" => Unlocks(t, 1, Head(s).arg)
      BY <1>1, <1>3, <1>6 DEF Sound
<1>8. Head(s).do = "user" /\ Head(s).arg \in Reentrant => Closed(t)
      BY <1>1, <1>3, <1>6 DEF Sound, Closed
<1> QED BY <1>1, <1>2, <1>4, <1>5, <1>7, <1>8 DEF t

\* Every step preserves the invariant.
LEMMA LockNext ==
    ASSUME "dropped" \notin Reentrant, LockInv, [Next]_vars
    PROVE  LockInv'
<1>1. ASSUME NEW th \in Threads, Begin(th) PROVE LockInv'
  <2>1. PICK op \in Operations : code' = [code EXCEPT ![th] = op]
        BY <1>1 DEF Begin
  <2>2. op \in Seq(Instr) /\ Sound(op)
        BY OperationPrograms DEF Program
  <2>3. \A l \in Locks : owner[l] # th
    <3>1. \A l : ~Unlocks(<<>>, 1, l)
          BY EmptySeq DEF Unlocks
    <3> QED BY <1>1, <3>1 DEF LockInv, Begin, Idle
  <2> QED BY <1>1, <2>1, <2>2, <2>3 DEF LockInv, Begin
<1> DEFINE Rest(th) == Tail(code[th])
<1>2. ASSUME NEW th \in Threads, ~Idle(th)
      PROVE  /\ Head(code[th]) \in Instr /\ Rest(th) \in Seq(Instr)
             /\ <<>> \o Rest(th) = Rest(th) /\ Sound(Rest(th))
             /\ \A l \in Locks : owner[l] = th =>
                   \/ Unlocks(Rest(th), 1, l) /\ ~On(Head(code[th]), l)
                   \/ Head(code[th]).do = "unlock" /\ Head(code[th]).arg = l
             /\ At(th, "lock") => Arg(th) \in Locks /\ Unlocks(Rest(th), 1, Arg(th))
             /\ At(th, "unlock") => Arg(th) \in Locks
             /\ At(th, "user") /\ Arg(th) \in Reentrant => Closed(Rest(th))
  <2>1. /\ code[th] \in Seq(Instr) /\ code[th] # <<>> /\ Sound(code[th])
        /\ \A l \in Locks : owner[l] = th => Unlocks(code[th], 1, l)
        BY <1>2 DEF LockInv, Idle
  <2>2. /\ Head(code[th]) \in Instr /\ Rest(th) \in Seq(Instr)
        /\ <<>> \o Rest(th) = Rest(th) /\ Sound(Rest(th))
        /\ \A l : Unlocks(code[th], 1, l) =>
              \/ Unlocks(Rest(th), 1, l) /\ ~On(Head(code[th]), l)
              \/ Head(code[th]).do = "unlock" /\ Head(code[th]).arg = l
        /\ Head(code[th]).do = "lock" => Unlocks(Rest(th), 1, Head(code[th]).arg)
        /\ Head(code[th]).do = "user" /\ Head(code[th]).arg \in Reentrant => Closed(Rest(th))
        BY <2>1, StepProgram
  <2>3. Head(code[th]).do \in {"lock", "unlock"} => Head(code[th]).arg \in Locks
        BY <2>2 DEF Instr
  <2> QED BY <2>1, <2>2, <2>3 DEF At, Arg
<1> HIDE DEF Rest
<1>3. ASSUME NEW th \in Threads, Acquire(th) PROVE LockInv'
  <2>1. /\ ~Idle(th) /\ At(th, "lock") /\ owner[Arg(th)] = "none"
        /\ owner' = [owner EXCEPT ![Arg(th)] = th]
        /\ code' = [code EXCEPT ![th] = <<>> \o Rest(th)]
        BY <1>3 DEF Acquire, Advance, At, Rest
  <2>2. /\ code' = [code EXCEPT ![th] = Rest(th)] /\ Rest(th) \in Seq(Instr) /\ Sound(Rest(th))
        /\ Arg(th) \in Locks /\ Unlocks(Rest(th), 1, Arg(th))
        /\ \A l \in Locks : owner[l] = th => Unlocks(Rest(th), 1, l)
        BY <1>2, <2>1 DEF At
  <2> QED BY <2>1, <2>2 DEF LockInv
<1>4. ASSUME NEW th \in Threads, Release(th) PROVE LockInv'
  <2>1. /\ ~Idle(th) /\ At(th, "unlock")
        /\ owner' = [owner EXCEPT ![Arg(th)] = "none"]
        /\ code' = [code EXCEPT ![th] = <<>> \o Rest(th)]
        BY <1>4 DEF Release, Advance, At, Rest
  <2>2. /\ code' = [code EXCEPT ![th] = Rest(th)] /\ Rest(th) \in Seq(Instr) /\ Sound(Rest(th))
        /\ Arg(th) \in Locks
        /\ \A l \in Locks : owner[l] = th /\ l # Arg(th) => Unlocks(Rest(th), 1, l)
        BY <1>2, <2>1 DEF At, Arg
  <2> QED BY <2>1, <2>2, ThreadsAssumption DEF LockInv
<1>5. ASSUME NEW th \in Threads, Return(th) PROVE LockInv'
  <2>1. /\ ~Idle(th) /\ At(th, "user") /\ owner' = owner
        /\ code' = [code EXCEPT ![th] = <<>> \o Rest(th)]
        BY <1>5 DEF Return, Advance, At, Rest
  <2>2. /\ code' = [code EXCEPT ![th] = Rest(th)] /\ Rest(th) \in Seq(Instr) /\ Sound(Rest(th))
        /\ \A l \in Locks : owner[l] = th => Unlocks(Rest(th), 1, l)
        BY <1>2, <2>1 DEF At
  <2> QED BY <2>1, <2>2 DEF LockInv
<1>6. ASSUME NEW th \in Threads, Reenter(th) PROVE LockInv'
  <2>1. PICK op \in Calls : code' = [code EXCEPT ![th] = op \o Rest(th)]
        BY <1>6 DEF Reenter, Advance, Rest
  <2>2. ~Idle(th) /\ At(th, "user") /\ Arg(th) \in Reentrant /\ owner' = owner
        BY <1>6 DEF Reenter, At
  <2>3. Rest(th) \in Seq(Instr) /\ Sound(Rest(th)) /\ Closed(Rest(th))
        BY <1>2, <2>2
  <2>4. \A l \in Locks : owner[l] # th
        BY <1>2, <2>2, <2>3 DEF Closed, At
  <2>5. op \o Rest(th) \in Seq(Instr) /\ Sound(op \o Rest(th))
        BY <2>3, OperationPrograms, SoundConcat DEF Program, Operations
  <2> QED BY <2>1, <2>2, <2>4, <2>5 DEF LockInv
<1>7. CASE UNCHANGED vars
      BY <1>7 DEF LockInv, vars
<1> QED BY <1>1, <1>3, <1>4, <1>5, <1>6, <1>7 DEF Next, Thread

-----------------------------------------------------------------------------
(* The theorem.                                                            *)

\* No thread waits for a lock of its own (NoSelfDeadlock), whatever the wakers and
\* destructors that run inside shutdown, stop, submissions, cancel and the guard's drop
\* call, to any depth, from any number of threads, if no waker of an orphaned slot
\* calls the service: that one runs inside remove_abort_handle's lock.
THEOREM NoOperationBlocksItself ==
    ASSUME "dropped" \notin Reentrant
    PROVE  Spec => []NoSelfDeadlock
<1>1. Init => LockInv
  <2> SUFFICES ASSUME Init PROVE LockInv
        OBVIOUS
  <2>1. <<>> \in Seq(Instr) /\ Sound(<<>>)
        BY EmptyProgram DEF Program
  <2> QED BY <2>1, ThreadsAssumption DEF Init, LockInv
<1>2. LockInv /\ [Next]_vars => LockInv'
      BY LockNext
<1>3. LockInv => NoSelfDeadlock
  <2> SUFFICES ASSUME LockInv, NEW th \in Threads, At(th, "lock"), owner[Arg(th)] = th
               PROVE  FALSE
        BY DEF NoSelfDeadlock
  <2>1. code[th] \in Seq(Instr) /\ code[th] # <<>> /\ Sound(code[th])
        BY DEF LockInv, At, Idle
  <2>2. Head(code[th]) \in Instr /\ Head(code[th]).do = "lock"
        BY <2>1, StepProgram DEF At
  <2>3. Arg(th) \in Locks
        BY <2>2 DEF Instr, Arg
  <2>4. Unlocks(code[th], 1, Arg(th))
        BY <2>3 DEF LockInv
  <2> QED BY <2>1, <2>2, <2>4, StepProgram DEF On, Arg
<1> QED BY <1>1, <1>2, <1>3, PTL DEF Spec
=============================================================================
