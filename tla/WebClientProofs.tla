-------------------------- MODULE WebClientProofs --------------------------
(***************************************************************************)
(* What the pages of the web client show, and what the handlers behind     *)
(* them keep, for any number of machines, projects and lines.              *)
(***************************************************************************)
EXTENDS WebClient, SequenceTheorems, FiniteSetTheorems, WellFoundedInduction, TLAPS

-----------------------------------------------------------------------------
(* Sequences.                                                              *)

(* Where an element was before the one at k has been taken out.            *)
Shift(k, j) == IF j < k THEN j ELSE j + 1

(* What is left when one element is taken out: the others, in their order. *)
LEMMA RemoveAtSeq ==
    ASSUME NEW S, NEW s \in Seq(S), NEW k \in DOMAIN s
    PROVE  /\ RemoveAt(s, k) \in Seq(S)
           /\ Len(RemoveAt(s, k)) = Len(s) - 1
           /\ \A j \in DOMAIN RemoveAt(s, k) :
                 /\ j \in Nat /\ Shift(k, j) \in DOMAIN s
                 /\ RemoveAt(s, k)[j] = s[Shift(k, j)]
           /\ \A i \in DOMAIN s : i # k => \E j \in DOMAIN RemoveAt(s, k) : Shift(k, j) = i
<1>1. k \in 1..Len(s) /\ Len(s) \in Nat
  BY LenProperties
<1> DEFINE a == SubSeq(s, 1, k - 1)
           b == SubSeq(s, k + 1, Len(s))
<1>2. a \in Seq(S) /\ Len(a) = k - 1 /\ \A i \in 1..k - 1 : a[i] = s[i]
  BY <1>1
<1>3. b \in Seq(S) /\ Len(b) = Len(s) - k /\ \A i \in 1..Len(s) - k : b[i] = s[k + i]
  BY <1>1
<1> HIDE DEF a, b
<1>4. /\ a \o b \in Seq(S) /\ Len(a \o b) = Len(s) - 1
      /\ \A i \in 1..Len(s) - 1 : (a \o b)[i] = IF i < k THEN a[i] ELSE b[i - (k - 1)]
  <2>1. /\ a \o b \in Seq(S) /\ Len(a \o b) = Len(a) + Len(b)
        /\ \A i \in 1..Len(a) + Len(b) : (a \o b)[i] = IF i <= Len(a) THEN a[i] ELSE b[i - Len(a)]
    BY <1>2, <1>3, ConcatProperties
  <2>2. Len(a) + Len(b) = Len(s) - 1 /\ \A i \in 1..Len(s) - 1 : i <= k - 1 <=> i < k
    BY <1>1, <1>2, <1>3
  <2>3. Len(a) = k - 1
    BY <1>2
  <2>q. QED BY <2>1, <2>2, <2>3
<1>5. \A i \in 1..Len(s) - 1 : Shift(k, i) \in 1..Len(s) /\ (a \o b)[i] = s[Shift(k, i)]
  <2>1. TAKE i \in 1..Len(s) - 1
  <2>2. CASE i < k
    BY <1>1, <1>2, <1>4, <2>2 DEF Shift
  <2>3. CASE ~(i < k)
    <3>1. i - (k - 1) \in 1..Len(s) - k /\ k + (i - (k - 1)) = i + 1
      BY <1>1, <2>3
    <3>2. (a \o b)[i] = b[i - (k - 1)]
      BY <1>4, <2>3
    <3>3. Shift(k, i) = i + 1 /\ i + 1 \in 1..Len(s)
      BY <1>1, <2>3 DEF Shift
    <3>q. QED BY <1>3, <3>1, <3>2, <3>3
  <2>q. QED BY <2>2, <2>3
<1>6. RemoveAt(s, k) = a \o b
  BY DEF RemoveAt, a, b
<1>7. DOMAIN RemoveAt(s, k) = 1..Len(s) - 1 /\ DOMAIN s = 1..Len(s)
  BY <1>4, <1>6, LenProperties
<1>8. \A i \in 1..Len(s) : i # k => \E j \in 1..Len(s) - 1 : Shift(k, j) = i
  <2>1. TAKE i \in 1..Len(s)
  <2>2. CASE i < k
    <3>1. i \in 1..Len(s) - 1 /\ Shift(k, i) = i
      BY <1>1, <2>2 DEF Shift
    <3>q. QED BY <3>1
  <2>3. CASE i > k
    <3>1. i - 1 \in 1..Len(s) - 1 /\ Shift(k, i - 1) = i
      BY <1>1, <2>3 DEF Shift
    <3>q. QED BY <3>1
  <2>q. QED BY <1>1, <2>2, <2>3
<1>9. RemoveAt(s, k) \in Seq(S) /\ Len(RemoveAt(s, k)) = Len(s) - 1
  BY <1>4, <1>6
<1>10. \A j \in DOMAIN RemoveAt(s, k) : /\ j \in Nat /\ Shift(k, j) \in DOMAIN s
                                         /\ RemoveAt(s, k)[j] = s[Shift(k, j)]
  <2>1. TAKE j \in DOMAIN RemoveAt(s, k)
  <2>2. j \in 1..Len(s) - 1 /\ j \in Nat
    BY <1>1, <1>7
  <2>q. QED BY <1>5, <1>6, <1>7, <2>2
<1>q. QED BY <1>7, <1>8, <1>9, <1>10

(* None of them is the one at k.                                           *)
LEMMA ShiftSkips ==
    ASSUME NEW i \in Nat, NEW k \in Nat
    PROVE  Shift(k, i) \in Nat /\ Shift(k, i) # k
  BY DEF Shift

(* The order is kept.                                                      *)
LEMMA ShiftMonotonic ==
    ASSUME NEW i \in Nat, NEW j \in Nat, NEW k \in Nat
    PROVE  /\ Shift(k, i) < Shift(k, j) <=> i < j
           /\ Shift(k, i) = Shift(k, j) <=> i = j
  BY DEF Shift

(* Marking elements of a sequence leaves it a sequence, as long as it was. *)
LEMMA MappedSeq ==
    ASSUME NEW S, NEW T, NEW s \in Seq(S), NEW f, f = [j \in DOMAIN s |-> f[j]],
           \A j \in DOMAIN s : f[j] \in T
    PROVE  f \in Seq(T) /\ DOMAIN f = DOMAIN s /\ Len(f) = Len(s)
<1>1. DOMAIN s = 1..Len(s) /\ Len(s) \in Nat
  BY LenProperties
<1>2. f \in [1..Len(s) -> T]
  BY <1>1
<1>q. QED BY <1>1, <1>2, IsASeq

-----------------------------------------------------------------------------
(* Loaders.                                                                *)

Answer(Gets, Values) == [get : Gets, value : Values \cup {Refused}, late : BOOLEAN]

(* What an answer brings is a value or a refusal.                          *)
LEMMA AnswerTyped ==
    ASSUME NEW Gets, NEW Values, NEW l \in Loaders(Gets, Values), NEW k \in DOMAIN l.answers
    PROVE  l.answers[k].value \in Values \cup {Refused}
<1>1. l.answers[k] \in Answer(Gets, Values)
  BY ElementOfSeq, LenProperties DEF Loaders, Answer
<1>q. QED BY <1>1 DEF Answer

(* Whatever happens to it, a loader keeps its type.                        *)
LEMMA LoaderTyped ==
    ASSUME NEW Gets, NEW Values, NEW l \in Loaders(Gets, Values)
    PROVE  /\ NotLoaded \in Loaders(Gets, Values)
           /\ \A get \in Gets, v \in Values \cup {Refused} : Read(l, get, v) \in Loaders(Gets, Values)
           /\ \A get \in Gets, b \in BOOLEAN : Ask(l, get, b) \in Loaders(Gets, Values)
           /\ Changed(l) \in Loaders(Gets, Values)
           /\ Lose(l) \in Loaders(Gets, Values)
           /\ \A v \in Values : Given(l, v) \in Loaders(Gets, Values)
           /\ \A k \in DOMAIN l.answers : Arrive(l, k) \in Loaders(Gets, Values)
<1> DEFINE A == Answer(Gets, Values)
<1>1. /\ l = [shown |-> l.shown, late |-> l.late, asked |-> l.asked, answers |-> l.answers]
      /\ l.shown \in Values \cup {Unknown} /\ l.late \in BOOLEAN
      /\ l.asked \subseteq Gets /\ l.answers \in Seq(A)
  BY DEF Loaders, Answer
<1>2. NotLoaded \in Loaders(Gets, Values)
  BY DEF NotLoaded, Loaders
<1>3. \A get \in Gets, v \in Values \cup {Refused} : Read(l, get, v) \in Loaders(Gets, Values)
  <2>1. TAKE get \in Gets, v \in Values \cup {Refused}
  <2>2. [get |-> get, value |-> v, late |-> FALSE] \in A
    BY DEF Answer
  <2>3. Append(l.answers, [get |-> get, value |-> v, late |-> FALSE]) \in Seq(A)
    BY <1>1, <2>2, AppendProperties
  <2>q. QED BY <1>1, <2>3 DEF Read, Loaders, Answer
<1>4. \A get \in Gets, b \in BOOLEAN : Ask(l, get, b) \in Loaders(Gets, Values)
  BY <1>1, <1>3 DEF Ask, Loaders
<1>5. \A a \in A : Late(a) \in A
  BY DEF Answer, Late
<1>6. [j \in DOMAIN l.answers |-> Late(l.answers[j])] \in Seq(A)
  <2>1. \A j \in DOMAIN l.answers : Late(l.answers[j]) \in A
    BY <1>1, <1>5, ElementOfSeq, LenProperties
  <2>q. QED BY <1>1, <2>1, MappedSeq
<1>7. Changed(l) \in Loaders(Gets, Values)
  BY <1>1, <1>6 DEF Changed, Loaders, Answer
<1>8. Lose(l) \in Loaders(Gets, Values)
  BY <1>7 DEF Lose, Loaders
<1>9. \A v \in Values : Given(l, v) \in Loaders(Gets, Values)
  BY <1>7 DEF Given, Loaders
<1>10. \A k \in DOMAIN l.answers : Arrive(l, k) \in Loaders(Gets, Values)
  <2>1. TAKE k \in DOMAIN l.answers
  <2> DEFINE marked == [j \in DOMAIN l.answers |-> IF j < k THEN Late(l.answers[j]) ELSE l.answers[j]]
  <2>2. marked \in Seq(A) /\ DOMAIN marked = DOMAIN l.answers
    <3>1. \A j \in DOMAIN l.answers : marked[j] \in A
      BY <1>1, <1>5, ElementOfSeq, LenProperties
    <3>q. QED BY <1>1, <3>1, MappedSeq
  <2>3. RemoveAt(marked, k) \in Seq(A) /\ RemoveAt(Changed(l).answers, k) \in Seq(A)
    <3>1. Changed(l).answers \in Seq(A) /\ DOMAIN Changed(l).answers = DOMAIN l.answers
      BY <1>1, <1>6 DEF Changed
    <3>q. QED BY <2>2, <3>1, RemoveAtSeq
  <2>4. l.answers[k] \in A
    BY <1>1, ElementOfSeq, LenProperties
  <2>q. QED BY <1>1, <1>7, <2>3, <2>4 DEF Arrive, Loaders, Answer
<1>q. QED BY <1>2, <1>3, <1>4, <1>7, <1>8, <1>9, <1>10

(* What the page has or gets is what the server has, unless it is marked   *)
(* as late, or a GET the page has asked after its own change, of which     *)
(* there is one at a time, brings it in the end.                           *)
Corrected(l, get, k) == get \in l.asked \/ \E j \in DOMAIN l.answers : j > k /\ l.answers[j].get = get

AskedOnce(l, get) ==
    /\ get \in l.asked => \A k \in DOMAIN l.answers : l.answers[k].get # get
    /\ \A j, k \in DOMAIN l.answers : l.answers[j].get = get /\ l.answers[k].get = get => j = k

Fresh(l, get, now) ==
    /\ AskedOnce(l, get)
    /\ \A k \in DOMAIN l.answers :
          \/ l.answers[k].late
          \/ l.answers[k].value \in {now, Refused}
          \/ Corrected(l, get, k)
    /\ l.late \/ l.shown \in {now, Unknown} \/ UnderWay(l, get)

(* A page that has just been opened has nothing that could be wrong.       *)
LEMMA NothingLoaded ==
    ASSUME NEW get, NEW now
    PROVE  Fresh(NotLoaded, get, now)
  BY DEF NotLoaded, Fresh, AskedOnce

(* What is on its way after someone else's change is all late.             *)
LEMMA FreshChanged ==
    ASSUME NEW Gets, NEW Values, NEW l \in Loaders(Gets, Values), NEW get, AskedOnce(l, get)
    PROVE  /\ \A now : Fresh(Changed(l), get, now)
           /\ AskedOnce(Changed(l), get)
           /\ \A g : UnderWay(Changed(l), g) <=> UnderWay(l, g)
           /\ Changed(l).late /\ Changed(l).shown = l.shown /\ Changed(l).asked = l.asked
           /\ DOMAIN Changed(l).answers = DOMAIN l.answers
           /\ \A k \in DOMAIN l.answers : Changed(l).answers[k] = Late(l.answers[k])
           /\ Settled(Changed(l)) <=> Settled(l)
<1>1. /\ Changed(l).late /\ Changed(l).shown = l.shown /\ Changed(l).asked = l.asked
      /\ Changed(l).answers = [j \in DOMAIN l.answers |-> Late(l.answers[j])]
  BY DEF Changed, Loaders
<1>2. \A k \in DOMAIN l.answers : /\ Changed(l).answers[k].late
                                  /\ Changed(l).answers[k].get = l.answers[k].get
  <2>1. \A k \in DOMAIN l.answers : l.answers[k] \in Answer(Gets, Values)
    BY ElementOfSeq, LenProperties DEF Loaders, Answer
  <2>q. QED BY <1>1, <2>1 DEF Late, Answer
<1>a. DOMAIN Changed(l).answers = DOMAIN l.answers
  BY <1>1
<1>3. AskedOnce(Changed(l), get)
  BY <1>1, <1>2, <1>a DEF AskedOnce
<1>4. \A now : Fresh(Changed(l), get, now)
  BY <1>1, <1>2, <1>3 DEF Fresh
<1>5. \A g : UnderWay(Changed(l), g) <=> UnderWay(l, g)
  BY <1>1, <1>2 DEF UnderWay
<1>6. Changed(l).answers = <<>> <=> l.answers = <<>>
  <2>1. l.answers \in Seq(Answer(Gets, Values))
    BY DEF Loaders, Answer
  <2>2. Changed(l) \in Loaders(Gets, Values)
    BY LoaderTyped
  <2>3. Changed(l).answers \in Seq(Answer(Gets, Values))
    BY <2>2 DEF Loaders, Answer
  <2>q. QED BY <1>1, <2>1, <2>3, LenProperties, EmptySeq
<1>q. QED BY <1>1, <1>3, <1>4, <1>5, <1>6 DEF Settled

(* An answer goes after the others.                                        *)
LEMMA AnswerAdded ==
    ASSUME NEW Gets, NEW Values, NEW l \in Loaders(Gets, Values), NEW g, NEW v
    PROVE  LET r == Read(l, g, v)
               n == Len(l.answers) + 1
           IN  /\ n \in Nat /\ n \in DOMAIN r.answers /\ n \notin DOMAIN l.answers
               /\ \A k \in DOMAIN l.answers :
                     k \in Nat /\ k < n /\ k \in DOMAIN r.answers /\ r.answers[k] = l.answers[k]
               /\ \A k \in DOMAIN r.answers : k \in DOMAIN l.answers \/ k = n
               /\ r.answers[n].get = g /\ r.answers[n].value = v /\ ~r.answers[n].late
               /\ r.shown = l.shown /\ r.late = l.late /\ r.asked = l.asked \ {g}
               /\ ~Settled(r)
<1> DEFINE r == Read(l, g, v)
           n == Len(l.answers) + 1
           a == [get |-> g, value |-> v, late |-> FALSE]
<1>1. /\ l.answers \in Seq(Answer(Gets, Values)) /\ Len(l.answers) \in Nat
      /\ DOMAIN l.answers = 1..Len(l.answers)
  BY LenProperties DEF Loaders, Answer
<1>2. /\ r.shown = l.shown /\ r.late = l.late /\ r.asked = l.asked \ {g}
      /\ r.answers = Append(l.answers, a)
  BY DEF Read, Loaders
<1>3. /\ DOMAIN r.answers = 1..Len(l.answers) + 1
      /\ \A k \in 1..Len(l.answers) : r.answers[k] = l.answers[k]
      /\ r.answers[n] = a
  <2>1. l.answers \in Seq(Answer(Gets, Values) \cup {a}) /\ a \in Answer(Gets, Values) \cup {a}
    BY <1>1, SeqMonotonic
  <2>q. QED BY <1>1, <1>2, <2>1, AppendProperties, LenProperties
<1> HIDE DEF r
<1>4. r.answers # <<>>
  <2>1. 1 \in DOMAIN r.answers
    BY <1>1, <1>3
  <2>q. QED BY <2>1
<1>5. /\ n \in Nat /\ n \in DOMAIN r.answers /\ n \notin DOMAIN l.answers
      /\ \A k \in DOMAIN l.answers :
            k \in Nat /\ k < n /\ k \in DOMAIN r.answers /\ r.answers[k] = l.answers[k]
      /\ \A k \in DOMAIN r.answers : k \in DOMAIN l.answers \/ k = n
  BY <1>1, <1>3
<1>6. a.get = g /\ a.value = v /\ ~a.late
  OBVIOUS
<1>q. QED BY <1>2, <1>3, <1>4, <1>5, <1>6 DEF Settled, r

(* The server reads for a GET, and what it answers is what it has then, or *)
(* that it refuses to.                                                     *)
LEMMA FreshRead ==
    ASSUME NEW Gets, NEW Values, NEW l \in Loaders(Gets, Values), NEW get, NEW g, NEW now,
           Fresh(l, get, now), g = get => g \in l.asked, NEW v \in {now, Refused}
    PROVE  /\ Fresh(Read(l, g, v), get, now)
           /\ \A h : UnderWay(Read(l, g, v), h) => UnderWay(l, h) \/ h = g
<1> DEFINE r == Read(l, g, v)
           n == Len(l.answers) + 1
<1>1. /\ n \in Nat /\ n \in DOMAIN r.answers /\ n \notin DOMAIN l.answers
      /\ \A k \in DOMAIN l.answers :
            k \in Nat /\ k < n /\ k \in DOMAIN r.answers /\ r.answers[k] = l.answers[k]
      /\ \A k \in DOMAIN r.answers : k \in DOMAIN l.answers \/ k = n
      /\ r.answers[n].get = g /\ r.answers[n].value = v /\ ~r.answers[n].late
      /\ r.shown = l.shown /\ r.late = l.late /\ r.asked = l.asked \ {g}
  BY AnswerAdded
<1> HIDE DEF r, n
<1>2. \A h : UnderWay(r, h) => UnderWay(l, h) \/ h = g
  BY <1>1 DEF UnderWay
<1>3. AskedOnce(r, get)
  BY <1>1 DEF AskedOnce, Fresh
<1>4. ASSUME NEW k \in DOMAIN l.answers, Corrected(l, get, k) PROVE Corrected(r, get, k)
  <2>1. CASE get = g /\ get \in l.asked
    <3>1. n \in DOMAIN r.answers /\ n > k /\ r.answers[n].get = get
      BY <1>1, <2>1
    <3>q. QED BY <3>1 DEF Corrected
  <2>2. CASE get # g
    BY <1>1, <1>4, <2>2 DEF Corrected
  <2>q. QED BY <2>1, <2>2
<1>5. \A k \in DOMAIN r.answers :
         r.answers[k].late \/ r.answers[k].value \in {now, Refused} \/ Corrected(r, get, k)
  BY <1>1, <1>4 DEF Fresh
<1>6. UnderWay(l, get) => UnderWay(r, get)
  BY <1>1 DEF UnderWay
<1>q. QED BY <1>1, <1>2, <1>3, <1>5, <1>6 DEF Fresh, r

(* An answer to a GET of after the page's own change corrects all it has,  *)
(* whatever the change has made of it.                                     *)
LEMMA FreshAnew ==
    ASSUME NEW Gets, NEW Values, NEW l \in Loaders(Gets, Values), NEW get, ~UnderWay(l, get),
           NEW now, NEW v \in {now, Refused}
    PROVE  Fresh(Read(l, get, v), get, now)
<1> DEFINE r == Read(l, get, v)
           n == Len(l.answers) + 1
<1>1. /\ n \in Nat /\ n \in DOMAIN r.answers /\ n \notin DOMAIN l.answers
      /\ \A k \in DOMAIN l.answers :
            k \in Nat /\ k < n /\ k \in DOMAIN r.answers /\ r.answers[k] = l.answers[k]
      /\ \A k \in DOMAIN r.answers : k \in DOMAIN l.answers \/ k = n
      /\ r.answers[n].get = get /\ r.answers[n].value = v /\ ~r.answers[n].late
      /\ r.shown = l.shown /\ r.late = l.late /\ r.asked = l.asked \ {get}
  BY AnswerAdded
<1> HIDE DEF r, n
<1>2. AskedOnce(r, get)
  BY <1>1 DEF AskedOnce, UnderWay
<1>3. \A k \in DOMAIN l.answers : Corrected(r, get, k)
  <2>1. TAKE k \in DOMAIN l.answers
  <2>2. n > k /\ n \in DOMAIN r.answers /\ r.answers[n].get = get
    BY <1>1
  <2>q. QED BY <2>2 DEF Corrected
<1>4. UnderWay(r, get)
  BY <1>1 DEF UnderWay
<1>q. QED BY <1>1, <1>2, <1>3, <1>4 DEF Fresh, r

(* So does the GET itself, on its way, or refused and saying so.           *)
LEMMA FreshAsked ==
    ASSUME NEW Gets, NEW Values, NEW l \in Loaders(Gets, Values), NEW get, ~UnderWay(l, get),
           NEW b \in BOOLEAN, NEW now
    PROVE  Fresh(Ask(l, get, b), get, now)
<1>1. CASE b
  <2>1. /\ Ask(l, get, b).answers = l.answers
        /\ Ask(l, get, b).asked = l.asked \cup {get}
    BY <1>1 DEF Ask, Loaders
  <2>q. QED BY <2>1 DEF Fresh, AskedOnce, UnderWay, Corrected
<1>2. CASE ~b
  BY <1>2, FreshAnew DEF Ask
<1>q. QED BY <1>1, <1>2

(* What a page asks for when it is opened.                                 *)
LEMMA FreshOpened ==
    ASSUME NEW get, get # "mount", NEW b \in BOOLEAN, NEW now
    PROVE  /\ Fresh(Ask(NotLoaded, "mount", b), get, now)
           /\ ~UnderWay(Ask(NotLoaded, "mount", b), get) /\ ~UnderWay(NotLoaded, get)
           /\ ~Settled(Ask(NotLoaded, "mount", b))
<1>1. Fresh(NotLoaded, get, now) /\ ~UnderWay(NotLoaded, get)
  <2>1. NotLoaded.asked = {} /\ NotLoaded.answers = <<>>
    BY DEF NotLoaded
  <2>q. QED BY <2>1, NothingLoaded DEF UnderWay
<1>2. CASE b
  <2>1. /\ Ask(NotLoaded, "mount", b).asked = {"mount"}
        /\ Ask(NotLoaded, "mount", b).answers = <<>>
        /\ Ask(NotLoaded, "mount", b).shown = Unknown
    BY <1>2 DEF Ask, NotLoaded
  <2>q. QED BY <1>1, <2>1 DEF Fresh, AskedOnce, UnderWay, Settled
<1>3. CASE ~b
  <2>1. NotLoaded \in Loaders({"mount"}, {})
    BY DEF NotLoaded, Loaders
  <2>q. QED BY <1>1, <1>3, <2>1, FreshRead, AnswerAdded DEF Ask
<1>q. QED BY <1>1, <1>2, <1>3

(* The API dies, and with it the GETs it has not answered.                 *)
LEMMA FreshLost ==
    ASSUME NEW Gets, NEW Values, NEW l \in Loaders(Gets, Values), NEW get, NEW now,
           Fresh(l, get, now)
    PROVE  /\ Fresh(Lose(l), get, now)
           /\ Lose(l) = l \/ Lose(l).late
           /\ Lose(l).shown = l.shown
           /\ \A g : UnderWay(Lose(l), g) => UnderWay(l, g)
<1>1. CASE l.asked = {}
  BY <1>1 DEF Lose
<1>2. CASE l.asked # {}
  <2> DEFINE c == Changed(l)
  <2>1. /\ c \in Loaders(Gets, Values) /\ AskedOnce(c, get) /\ c.late /\ c.shown = l.shown
        /\ \A g : UnderWay(c, g) => UnderWay(l, g)
        /\ \A k \in DOMAIN c.answers : c.answers[k].late
    <3>1. \A k \in DOMAIN l.answers : Late(l.answers[k]).late
      <4>1. \A k \in DOMAIN l.answers : l.answers[k] \in Answer(Gets, Values)
        BY ElementOfSeq, LenProperties DEF Loaders, Answer
      <4>q. QED BY <4>1 DEF Late, Answer
    <3>q. QED BY <3>1, LoaderTyped, FreshChanged DEF Fresh
  <2> HIDE DEF c
  <2>2. /\ Lose(l).late = c.late /\ Lose(l).shown = c.shown /\ Lose(l).answers = c.answers
        /\ Lose(l).asked = {}
    BY <1>2, <2>1 DEF Lose, Loaders, c
  <2>q. QED BY <2>1, <2>2 DEF Fresh, AskedOnce, UnderWay
<1>q. QED BY <1>1, <1>2

(* One answer is taken, whatever becomes of the others' marks.             *)
Takes(l, m, t, k) ==
    /\ DOMAIN t = DOMAIN l.answers /\ \A j \in DOMAIN t : t[j].get = l.answers[j].get
    /\ m.asked = l.asked /\ m.answers = RemoveAt(t, k)

(* The others go on, in the same order.                                    *)
OthersStay(m, t, k) ==
    /\ \A j \in DOMAIN m.answers :
          j \in Nat /\ Shift(k, j) \in DOMAIN t /\ m.answers[j] = t[Shift(k, j)]
    /\ \A i \in DOMAIN t : i # k => \E j \in DOMAIN m.answers : Shift(k, j) = i

(* So it is: no GET is asked for a second time, and none is new.           *)
LEMMA AnswerTaken ==
    ASSUME NEW Gets, NEW Values, NEW l, NEW m, NEW get, AskedOnce(l, get),
           NEW t \in Seq(Answer(Gets, Values)), NEW k \in DOMAIN t, Takes(l, m, t, k)
    PROVE  /\ AskedOnce(m, get)
           /\ \A g : UnderWay(m, g) => UnderWay(l, g)
           /\ OthersStay(m, t, k)
<1>0. /\ DOMAIN t = DOMAIN l.answers /\ \A j \in DOMAIN t : t[j].get = l.answers[j].get
      /\ m.asked = l.asked /\ m.answers = RemoveAt(t, k)
  BY DEF Takes
<1>1. k \in Nat
  BY LenProperties
<1>2. /\ \A j \in DOMAIN m.answers : /\ j \in Nat /\ Shift(k, j) \in DOMAIN t
                                     /\ m.answers[j] = t[Shift(k, j)]
      /\ \A i \in DOMAIN t : i # k => \E j \in DOMAIN m.answers : Shift(k, j) = i
  BY <1>0, RemoveAtSeq
<1>3. AskedOnce(m, get)
  <2>1. get \in m.asked => \A j \in DOMAIN m.answers : m.answers[j].get # get
    BY <1>0, <1>2 DEF AskedOnce
  <2>2. ASSUME NEW i \in DOMAIN m.answers, NEW j \in DOMAIN m.answers,
               m.answers[i].get = get, m.answers[j].get = get
        PROVE  i = j
    <3>1. Shift(k, i) = Shift(k, j)
      BY <1>0, <1>2, <2>2 DEF AskedOnce
    <3>q. QED BY <1>1, <1>2, <3>1, ShiftMonotonic
  <2>q. QED BY <2>1, <2>2 DEF AskedOnce
<1>4. \A g : UnderWay(m, g) => UnderWay(l, g)
  BY <1>0, <1>2 DEF UnderWay
<1>q. QED BY <1>2, <1>3, <1>4 DEF OthersStay

(* A page takes an answer: what it shows then is what the server has,      *)
(* unless it is marked as late or an answer to come will correct it.       *)
LEMMA FreshArrived ==
    ASSUME NEW Gets, NEW Values, NEW l \in Loaders(Gets, Values), NEW get, NEW now,
           Fresh(l, get, now), NEW k \in DOMAIN l.answers
    PROVE  /\ Fresh(Arrive(l, k), get, now)
           /\ Arrive(l, k).late \/ Arrive(l, k).shown = now \/ UnderWay(Arrive(l, k), get)
           /\ \A g : UnderWay(Arrive(l, k), g) => UnderWay(l, g)
           /\ Arrive(l, k).asked = l.asked
           /\ Arrive(l, k).shown = IF l.answers[k].value = Refused THEN l.shown ELSE l.answers[k].value
<1> DEFINE m == Arrive(l, k)
<1>1. /\ l.answers \in Seq(Answer(Gets, Values)) /\ DOMAIN l.answers = 1..Len(l.answers)
      /\ Len(l.answers) \in Nat /\ k \in 1..Len(l.answers)
  BY LenProperties DEF Loaders, Answer
<1>2. \A j \in DOMAIN l.answers : l.answers[j] \in Answer(Gets, Values)
  BY <1>1, ElementOfSeq, LenProperties
<1>3. \A j \in DOMAIN l.answers : /\ Late(l.answers[j]) \in Answer(Gets, Values)
                                  /\ Late(l.answers[j]).late
                                  /\ Late(l.answers[j]).get = l.answers[j].get
                                  /\ Late(l.answers[j]).value = l.answers[j].value
  BY <1>2 DEF Late, Answer
<1>4. CASE l.answers[k].value = Refused
  <2> DEFINE t == [j \in DOMAIN l.answers |-> Late(l.answers[j])]
  <2>1. t \in Seq(Answer(Gets, Values)) /\ DOMAIN t = DOMAIN l.answers
    BY <1>1, <1>3, MappedSeq
  <2>2. m.shown = l.shown /\ m.late /\ m.asked = l.asked /\ m.answers = RemoveAt(t, k)
    BY <1>4 DEF Arrive, Changed, Loaders
  <2>3. \A j \in DOMAIN t : t[j].get = l.answers[j].get /\ t[j].late
    BY <1>3
  <2> HIDE DEF m, t
  <2>4. /\ AskedOnce(m, get) /\ \A g : UnderWay(m, g) => UnderWay(l, g)
        /\ \A j \in DOMAIN m.answers : m.answers[j].late
    <3>1. AskedOnce(l, get) /\ Takes(l, m, t, k)
      BY <2>1, <2>2, <2>3 DEF Fresh, Takes
    <3>2. AskedOnce(m, get) /\ (\A g : UnderWay(m, g) => UnderWay(l, g)) /\ OthersStay(m, t, k)
      BY <2>1, <3>1, AnswerTaken
    <3>q. QED BY <2>3, <3>2 DEF OthersStay
  <2>q. QED BY <1>4, <2>2, <2>4 DEF Fresh, m
<1>5. CASE l.answers[k].value # Refused
  <2> DEFINE t == [j \in DOMAIN l.answers |-> IF j < k THEN Late(l.answers[j]) ELSE l.answers[j]]
  <2>1. t \in Seq(Answer(Gets, Values)) /\ DOMAIN t = DOMAIN l.answers
    <3>1. \A j \in DOMAIN l.answers : t[j] \in Answer(Gets, Values)
      BY <1>2, <1>3
    <3>2. t = [j \in DOMAIN l.answers |-> t[j]]
      OBVIOUS
    <3> HIDE DEF t
    <3>q. QED BY <1>1, <3>1, <3>2, MappedSeq
  <2>2. /\ m.shown = l.answers[k].value /\ m.late = l.answers[k].late /\ m.asked = l.asked
        /\ m.answers = RemoveAt(t, k)
    BY <1>5 DEF Arrive, Loaders
  <2>3. \A j \in DOMAIN t : t[j].get = l.answers[j].get /\ (t[j].late \/ t[j] = l.answers[j])
    BY <1>1, <1>3
  <2>4. \A j \in DOMAIN t : t[j].late \/ j >= k
    BY <1>1, <1>3
  <2> HIDE DEF m, t
  <2>5. /\ AskedOnce(m, get) /\ \A g : UnderWay(m, g) => UnderWay(l, g)
        /\ \A j \in DOMAIN m.answers : /\ j \in Nat /\ Shift(k, j) \in DOMAIN t
                                       /\ m.answers[j] = t[Shift(k, j)]
        /\ \A i \in DOMAIN t : i # k => \E j \in DOMAIN m.answers : Shift(k, j) = i
    <3>1. AskedOnce(l, get) /\ Takes(l, m, t, k)
      BY <2>1, <2>2, <2>3 DEF Fresh, Takes
    <3>2. AskedOnce(m, get) /\ (\A g : UnderWay(m, g) => UnderWay(l, g)) /\ OthersStay(m, t, k)
      BY <2>1, <3>1, AnswerTaken
    <3>q. QED BY <3>2 DEF OthersStay
  <2>6. \A i \in DOMAIN l.answers : i \in Nat
    BY <1>1
  <2>7. ASSUME NEW i \in DOMAIN l.answers, i # k, Corrected(l, get, i),
               get \in l.asked \/ \E h \in DOMAIN l.answers : h # k /\ h > i /\ l.answers[h].get = get,
               NEW j \in DOMAIN m.answers, Shift(k, j) = i
        PROVE  Corrected(m, get, j)
    <3>1. CASE get \in l.asked
      BY <2>2, <3>1 DEF Corrected
    <3>2. CASE get \notin l.asked
      <4>1. PICK h \in DOMAIN l.answers : h # k /\ h > i /\ l.answers[h].get = get
        BY <2>7, <3>2
      <4>2. PICK n \in DOMAIN m.answers : Shift(k, n) = h
        BY <2>1, <2>5, <4>1
      <4>3. m.answers[n].get = get
        BY <2>1, <2>3, <2>5, <4>1, <4>2
      <4>4. j < n
        BY <1>1, <2>5, <2>6, <2>7, <4>1, <4>2, ShiftMonotonic
      <4>q. QED BY <2>5, <4>3, <4>4 DEF Corrected
    <3>q. QED BY <3>1, <3>2
  <2>8. m.late \/ m.shown = now \/ UnderWay(m, get)
    <3>1. CASE Corrected(l, get, k)
      <4>1. CASE get \in l.asked
        BY <2>2, <4>1 DEF UnderWay
      <4>2. CASE get \notin l.asked
        <5>1. PICK h \in DOMAIN l.answers : h > k /\ l.answers[h].get = get
          BY <3>1, <4>2 DEF Corrected
        <5>2. h # k
          BY <1>1, <5>1
        <5>3. PICK n \in DOMAIN m.answers : Shift(k, n) = h
          BY <2>1, <2>5, <5>1, <5>2
        <5>4. m.answers[n].get = get
          BY <2>1, <2>3, <2>5, <5>1, <5>3
        <5>q. QED BY <5>4 DEF UnderWay
      <4>q. QED BY <4>1, <4>2
    <3>2. CASE ~Corrected(l, get, k)
      BY <1>5, <2>2, <3>2 DEF Fresh
    <3>q. QED BY <3>1, <3>2
  <2>9. ASSUME NEW j \in DOMAIN m.answers
        PROVE  m.answers[j].late \/ m.answers[j].value \in {now, Refused} \/ Corrected(m, get, j)
    <3> DEFINE i == Shift(k, j)
    <3>1. i \in DOMAIN l.answers /\ m.answers[j] = t[i] /\ i # k
      BY <1>1, <2>1, <2>5, <2>6, ShiftSkips
    <3> HIDE DEF i
    <3>2. CASE t[i].late
      BY <3>1, <3>2
    <3>3. CASE ~t[i].late
      <4>1. t[i] = l.answers[i] /\ i > k
        BY <1>1, <2>1, <2>3, <2>4, <2>6, <3>1, <3>3
      <4>2. CASE Corrected(l, get, i)
        <5>1. get \in l.asked \/ \E h \in DOMAIN l.answers : h # k /\ h > i /\ l.answers[h].get = get
          BY <1>1, <2>6, <3>1, <4>1, <4>2 DEF Corrected
        <5>q. QED BY <2>7, <3>1, <4>2, <5>1 DEF i
      <4>3. CASE ~Corrected(l, get, i)
        BY <3>1, <3>3, <4>1, <4>3 DEF Fresh
      <4>q. QED BY <4>2, <4>3
    <3>q. QED BY <3>2, <3>3
  <2>q. QED BY <1>5, <2>2, <2>5, <2>8, <2>9 DEF Fresh, m
<1>q. QED BY <1>4, <1>5

(* The page sets the value itself, to what the server has from then on.    *)
LEMMA FreshGiven ==
    ASSUME NEW Gets, NEW Values, NEW l \in Loaders(Gets, Values), NEW get, AskedOnce(l, get),
           NEW now \in Values
    PROVE  /\ Given(l, now) \in Loaders(Gets, Values)
           /\ Fresh(Given(l, now), get, now)
           /\ Given(l, now).shown = now /\ Given(l, now).asked = l.asked
           /\ \A g : UnderWay(Given(l, now), g) <=> UnderWay(l, g)
<1> DEFINE c == Changed(l)
           m == Given(l, now)
<1>1. /\ c \in Loaders(Gets, Values) /\ Fresh(c, get, now) /\ c.asked = l.asked
      /\ \A g : UnderWay(c, g) <=> UnderWay(l, g)
  BY LoaderTyped, FreshChanged
<1> HIDE DEF c
<1>2. m.asked = c.asked /\ m.answers = c.answers /\ m.shown = now
  BY <1>1 DEF Given, Loaders, c
<1> HIDE DEF m
<1>3. (\A g : UnderWay(m, g) <=> UnderWay(c, g)) /\ \A k : Corrected(m, get, k) <=> Corrected(c, get, k)
  BY <1>2 DEF UnderWay, Corrected
<1>4. Fresh(m, get, now)
  BY <1>1, <1>2, <1>3 DEF Fresh, AskedOnce
<1>5. m \in Loaders(Gets, Values)
  BY LoaderTyped DEF m
<1>q. QED BY <1>1, <1>2, <1>3, <1>4, <1>5 DEF m

(* An answer that says nothing leaves the page with what it had, late.     *)
Discard(l, k, v) == [Changed(l) EXCEPT !.shown = v, !.answers = RemoveAt(@, k)]

(* So nothing it shows then counts as current.                             *)
LEMMA FreshDiscarded ==
    ASSUME NEW Gets, NEW Values, NEW l \in Loaders(Gets, Values), NEW get, AskedOnce(l, get),
           NEW now, NEW k \in DOMAIN l.answers, NEW v \in Values \cup {Unknown}
    PROVE  LET m == Discard(l, k, v)
           IN  /\ m \in Loaders(Gets, Values) /\ Fresh(m, get, now) /\ m.late
               /\ m.shown = v /\ m.asked = l.asked
               /\ \A g : UnderWay(m, g) => UnderWay(l, g)
<1> DEFINE c == Changed(l)
           t == c.answers
           m == Discard(l, k, v)
<1>1. /\ c \in Loaders(Gets, Values) /\ c.late /\ c.asked = l.asked
      /\ DOMAIN t = DOMAIN l.answers
      /\ \A j \in DOMAIN t : t[j] = Late(l.answers[j])
  BY LoaderTyped, FreshChanged
<1>2. \A j \in DOMAIN l.answers : Late(l.answers[j]).late /\ Late(l.answers[j]).get = l.answers[j].get
  <2>1. \A j \in DOMAIN l.answers : l.answers[j] \in Answer(Gets, Values)
    BY ElementOfSeq, LenProperties DEF Loaders, Answer
  <2>q. QED BY <2>1 DEF Late, Answer
<1>3. t \in Seq(Answer(Gets, Values))
  BY <1>1 DEF Loaders, Answer
<1> HIDE DEF c
<1>4. m = [shown |-> v, late |-> c.late, asked |-> c.asked, answers |-> RemoveAt(t, k)]
  <2>1. c = [shown |-> c.shown, late |-> c.late, asked |-> c.asked, answers |-> c.answers]
    BY <1>1 DEF Loaders
  <2> DEFINE d == [c EXCEPT !.shown = v]
  <2>2. d = [shown |-> v, late |-> c.late, asked |-> c.asked, answers |-> c.answers]
    BY <2>1
  <2> HIDE DEF d
  <2>3. [d EXCEPT !.answers = RemoveAt(t, k)]
           = [shown |-> v, late |-> c.late, asked |-> c.asked, answers |-> RemoveAt(t, k)]
    BY <2>2
  <2>q. QED BY <2>3 DEF d, c, Discard
<1>5. RemoveAt(t, k) \in Seq(Answer(Gets, Values))
  BY <1>1, <1>3, RemoveAtSeq
<1>6. m \in Loaders(Gets, Values)
  BY <1>1, <1>4, <1>5 DEF Loaders, Answer
<1> HIDE DEF m, t, c
<1>7. Takes(l, m, t, k)
  BY <1>1, <1>2, <1>4 DEF Takes
<1>8. AskedOnce(m, get) /\ (\A g : UnderWay(m, g) => UnderWay(l, g)) /\ OthersStay(m, t, k)
  BY <1>1, <1>3, <1>7, AnswerTaken
<1>9. \A j \in DOMAIN m.answers : m.answers[j].late
  BY <1>1, <1>2, <1>8 DEF OthersStay
<1>10. m.shown = v /\ m.late /\ m.asked = l.asked
  BY <1>1, <1>4
<1>11. Fresh(m, get, now)
  BY <1>8, <1>9, <1>10 DEF Fresh
<1>q. QED BY <1>6, <1>8, <1>10, <1>11 DEF m

-----------------------------------------------------------------------------
(* Who is signed in.                                                       *)

(* AuthProvider has whom the cookie says, unless a form's refresh is still *)
(* to tell it.                                                             *)
MeSound ==
    /\ Fresh(me, "form", cookie) /\ Current(me, cookie)
    /\ me.asked = {}
    /\ form["here"] # "refresh" => ~UnderWay(me, "form")

(* The session ends or begins elsewhere: all that is on its way is late.   *)
LEMMA SessionChanged ==
    ASSUME AccountsTypeOK, MeSound, me' = Changed(me), form'["here"] = form["here"]
    PROVE  me' \in Loaders({"mount", "form"}, BOOLEAN) /\ MeSound'
<1>1. me \in Loaders({"mount", "form"}, BOOLEAN) /\ AskedOnce(me, "form")
  BY DEF AccountsTypeOK, MeSound, Fresh
<1>2. /\ me' \in Loaders({"mount", "form"}, BOOLEAN) /\ Fresh(me', "form", cookie')
      /\ me'.late /\ me'.asked = me.asked /\ \A g : UnderWay(me', g) <=> UnderWay(me, g)
  BY <1>1, LoaderTyped, FreshChanged
<1>q. QED BY <1>2 DEF MeSound, Current

(* The tab asks who is signed in: after its form, or when it is opened.    *)
LEMMA SessionAsked ==
    ASSUME AccountsTypeOK, NEW l \in Loaders({"mount", "form"}, BOOLEAN), NEW get \in {"mount", "form"},
           ~UnderWay(l, "form"), l.asked = {}, get = "mount" => Fresh(l, "form", cookie'),
           cookie' \in BOOLEAN, me' = Refresh(l, get, cookie'),
           form'["here"] # "refresh" => get # "form"
    PROVE  me' \in Loaders({"mount", "form"}, BOOLEAN) /\ MeSound'
<1>1. me' \in Loaders({"mount", "form"}, BOOLEAN)
  BY LoaderTyped DEF Refresh
<1>2. ~Settled(me') /\ me'.asked = {}
  BY AnswerAdded DEF Refresh
<1>3. Fresh(me', "form", cookie') /\ (get # "form" => ~UnderWay(me', "form"))
  <2>1. CASE get = "form"
    BY <2>1, FreshAnew DEF Refresh
  <2>2. CASE get = "mount"
    BY <2>2, FreshRead DEF Refresh
  <2>q. QED BY <2>1, <2>2
<1>q. QED BY <1>1, <1>2, <1>3 DEF MeSound, Current

(* A form is answered.                                                     *)
LEMMA SignedInSound ==
    ASSUME AccountsTypeOK, MeSound, NEW f \in Forms, form[f] # "refresh", SignedIn(f)
    PROVE  /\ cookie' \in BOOLEAN /\ me' \in Loaders({"mount", "form"}, BOOLEAN) /\ MeSound'
           /\ form' = [form EXCEPT ![f] = IF f = "here" THEN "refresh" ELSE "idle"]
<1>0. /\ form \in [Forms -> {"idle", "check", "user", "connection", "refresh"}]
      /\ me \in Loaders({"mount", "form"}, BOOLEAN)
      /\ cookie' = TRUE /\ form' = [form EXCEPT ![f] = IF f = "here" THEN "refresh" ELSE "idle"]
  BY DEF AccountsTypeOK, SignedIn
<1>1. CASE f = "here"
  <2>1. me' = Refresh(me, "form", cookie') /\ form'["here"] = "refresh" /\ ~UnderWay(me, "form")
    BY <1>0, <1>1 DEF SignedIn, Forms, MeSound
  <2>2. me.asked = {}
    BY DEF MeSound
  <2>q. QED BY <1>0, <2>1, <2>2, SessionAsked
<1>2. CASE f # "here" /\ cookie
  <2>1. me' = me /\ form'["here"] = form["here"] /\ cookie = cookie'
    BY <1>0, <1>2 DEF SignedIn, Forms, AccountsTypeOK
  <2>q. QED BY <1>0, <2>1 DEF MeSound
<1>3. CASE f # "here" /\ ~cookie
  <2>1. me' = Changed(me) /\ form'["here"] = form["here"]
    BY <1>0, <1>3 DEF SignedIn, Forms
  <2>q. QED BY <1>0, <2>1, SessionChanged
<1>q. QED BY <1>1, <1>2, <1>3

AccountsInv == AccountsTypeOK /\ MeSound /\ ConfiguredUnlessCrashed

(* At the start the tab has asked, and nobody is in the middle of a form.  *)
LEMMA AccountsInvInit ==
    ASSUME AccountsInit
    PROVE  AccountsInv
<1>1. /\ NotLoaded \in Loaders({"mount", "form"}, BOOLEAN) /\ Fresh(NotLoaded, "form", cookie)
      /\ NotLoaded.asked = {} /\ ~UnderWay(NotLoaded, "form")
  <2>1. NotLoaded.asked = {} /\ NotLoaded.answers = <<>>
    BY DEF NotLoaded
  <2>2. NotLoaded \in Loaders({"mount", "form"}, BOOLEAN)
    BY DEF NotLoaded, Loaders
  <2>q. QED BY <2>1, <2>2, NothingLoaded DEF UnderWay
<1>2. cookie \in BOOLEAN /\ account \in {"none", "full"}
  BY DEF AccountsInit
<1>3. /\ me \in Loaders({"mount", "form"}, BOOLEAN) /\ Fresh(me, "form", cookie)
      /\ ~Settled(me) /\ me.asked = {} /\ ~UnderWay(me, "form")
  <2>1. me = Read(NotLoaded, "mount", cookie)
    BY DEF AccountsInit, Refresh
  <2>2. me \in Loaders({"mount", "form"}, BOOLEAN)
    BY <1>1, <1>2, <2>1, LoaderTyped
  <2>3. ~Settled(me) /\ me.asked = {}
    BY <1>1, <2>1, AnswerAdded
  <2>4. Fresh(me, "form", cookie) /\ ~UnderWay(me, "form")
    BY <1>1, <2>1, FreshRead
  <2>q. QED BY <2>2, <2>3, <2>4
<1>4. AccountsTypeOK
  BY <1>2, <1>3, MaxActsAssumption DEF AccountsInit, AccountsTypeOK
<1>5. MeSound
  BY <1>3 DEF MeSound, Current
<1>q. QED BY <1>2, <1>4, <1>5 DEF AccountsInv, ConfiguredUnlessCrashed

(* A step of the tab that shows another page.                              *)
LEMMA TurnPageAccounts ==
    ASSUME AccountsInv, TurnPage
    PROVE  AccountsInv'
<1>0. AccountsTypeOK /\ MeSound /\ ConfiguredUnlessCrashed
  BY DEF AccountsInv
<1>1. /\ account \in {"none", "bare", "full"} /\ cookie \in BOOLEAN
      /\ form \in [Forms -> {"idle", "check", "user", "connection", "refresh"}]
      /\ me \in Loaders({"mount", "form"}, BOOLEAN) /\ page \in Pages
      /\ sock \in {"none", "connecting", "live", "dead"} /\ acts \in 0..MaxActs
  BY <1>0 DEF AccountsTypeOK
<1>2. account' = account /\ crashes' = crashes
  BY DEF TurnPage, Push, Redirect, Logout, Go, Visit
<1>3. \A p \in Pages : Leave(p) => page' \in Pages /\ sock' \in {"none", "connecting", "live", "dead"}
  BY <1>1 DEF Leave, GetSocket
<1>4. Acts => acts' \in 0..MaxActs
  BY <1>1, MaxActsAssumption DEF Acts
<1>5. "here" \in Forms /\ {"login", "projects"} \subseteq Pages
  BY DEF Forms, Pages
<1>6. CASE Push
  <2>1. /\ form' = [form EXCEPT !["here"] = "idle"] /\ ~UnderWay(me, "form") /\ Leave("projects")
        /\ UNCHANGED <<account, cookie, me, acts>>
    BY <1>6 DEF Push
  <2>2. AccountsTypeOK'
    BY <1>1, <1>3, <1>5, <2>1 DEF AccountsTypeOK
  <2>3. MeSound'
    BY <1>0, <2>1 DEF MeSound
  <2>4. \A f \in Forms : form[f] = "connection" => form'[f] = "connection"
    BY <1>1, <1>6, <2>1 DEF Push
  <2>q. QED BY <1>0, <1>2, <2>2, <2>3, <2>4 DEF AccountsInv, ConfiguredUnlessCrashed
<1>7. CASE Redirect
  <2>1. Leave("login") /\ UNCHANGED <<account, cookie, form, me, acts>>
    BY <1>7 DEF Redirect
  <2>q. QED BY <1>0, <1>1, <1>2, <1>3, <1>5, <2>1
            DEF AccountsInv, AccountsTypeOK, MeSound, ConfiguredUnlessCrashed
<1>8. CASE Logout
  <2>1. /\ Leave("login") /\ Acts /\ cookie' = FALSE /\ me' = Given(me, FALSE)
        /\ UNCHANGED <<account, form>>
    BY <1>8 DEF Logout, LoggedOut
  <2>2. me' \in Loaders({"mount", "form"}, BOOLEAN)
    BY <1>1, <2>1, LoaderTyped
  <2>3. AccountsTypeOK'
    BY <1>1, <1>3, <1>4, <1>5, <2>1, <2>2 DEF AccountsTypeOK
  <2>4. MeSound'
    <3>1. AskedOnce(me, "form")
      BY <1>0 DEF MeSound, Fresh
    <3>2. me' = Given(me, cookie') /\ cookie' \in BOOLEAN
      BY <2>1
    <3>3. /\ Fresh(me', "form", cookie') /\ me'.shown = cookie' /\ me'.asked = me.asked
          /\ UnderWay(me', "form") => UnderWay(me, "form")
      BY <1>1, <3>1, <3>2, FreshGiven
    <3>q. QED BY <1>0, <2>1, <3>3 DEF MeSound, Current
  <2>q. QED BY <1>0, <1>2, <2>1, <2>3, <2>4 DEF AccountsInv, ConfiguredUnlessCrashed
<1>9. ASSUME NEW p \in Pages, Go(p) PROVE AccountsInv'
  <2>1. Leave(p) /\ Acts /\ UNCHANGED <<account, cookie, form, me>>
    BY <1>9 DEF Go
  <2>q. QED BY <1>0, <1>1, <1>2, <1>3, <1>4, <2>1
            DEF AccountsInv, AccountsTypeOK, MeSound, ConfiguredUnlessCrashed
<1>10. ASSUME NEW p \in Pages, Visit(p) PROVE AccountsInv'
  <2>1. /\ me' = Refresh(NotLoaded, "mount", cookie) /\ Acts /\ page' = p
        /\ sock' \in {"connecting", "none"} /\ UNCHANGED <<account, cookie, form>>
    BY <1>10 DEF Visit
  <2>2. /\ NotLoaded \in Loaders({"mount", "form"}, BOOLEAN) /\ Fresh(NotLoaded, "form", cookie')
        /\ NotLoaded.asked = {} /\ ~UnderWay(NotLoaded, "form")
    <3>1. NotLoaded.asked = {} /\ NotLoaded.answers = <<>>
      BY DEF NotLoaded
    <3>q. QED BY <1>1, <3>1, LoaderTyped, NothingLoaded DEF UnderWay
  <2>3. cookie' \in BOOLEAN /\ me' = Refresh(NotLoaded, "mount", cookie') /\ "mount" # "form"
    BY <1>1, <2>1
  <2>4. me' \in Loaders({"mount", "form"}, BOOLEAN) /\ MeSound'
    BY <1>0, <2>2, <2>3, SessionAsked
  <2>5. AccountsTypeOK'
    BY <1>1, <1>4, <2>1, <2>4 DEF AccountsTypeOK
  <2>q. QED BY <1>0, <1>2, <2>1, <2>4, <2>5 DEF AccountsInv, ConfiguredUnlessCrashed
<1>q. QED BY <1>6, <1>7, <1>8, <1>9, <1>10 DEF TurnPage

(* A session that ends or begins without the page being left.              *)
LEMMA StayOnPageAccounts ==
    ASSUME AccountsInv, StayOnPage
    PROVE  AccountsInv' /\ page' = page
<1>0. AccountsTypeOK /\ MeSound /\ ConfiguredUnlessCrashed /\ crashes' = crashes
  BY DEF AccountsInv, StayOnPage
<1>1. /\ account \in {"none", "bare", "full"} /\ cookie \in BOOLEAN
      /\ form \in [Forms -> {"idle", "check", "user", "connection", "refresh"}]
      /\ me \in Loaders({"mount", "form"}, BOOLEAN) /\ page \in Pages
      /\ sock \in {"none", "connecting", "live", "dead"} /\ acts \in 0..MaxActs
  BY <1>0 DEF AccountsTypeOK
<1>2. Acts => acts' \in 0..MaxActs
  BY <1>1, MaxActsAssumption DEF Acts
<1>3. "here" \in Forms
  BY DEF Forms
<1>4. ASSUME NEW f \in Forms, Login(f) PROVE AccountsInv' /\ page' = page
  <2>1. /\ form[f] = "idle" /\ Acts /\ SignedIn(f) /\ UNCHANGED <<account, page, sock>>
    BY <1>4 DEF Login, Submittable
  <2>2. /\ cookie' \in BOOLEAN /\ me' \in Loaders({"mount", "form"}, BOOLEAN) /\ MeSound'
        /\ form' = [form EXCEPT ![f] = IF f = "here" THEN "refresh" ELSE "idle"]
    BY <1>0, <2>1, SignedInSound
  <2>3. AccountsTypeOK'
    BY <1>1, <1>2, <2>1, <2>2 DEF AccountsTypeOK
  <2>4. \A g \in Forms : form[g] = "connection" => form'[g] = "connection"
    BY <1>1, <2>1, <2>2
  <2>q. QED BY <1>0, <2>1, <2>2, <2>3, <2>4 DEF AccountsInv, ConfiguredUnlessCrashed
<1>5. ASSUME NEW f \in Forms, Register(f) PROVE AccountsInv' /\ page' = page
  <2>1. /\ form[f] = "idle" /\ Acts /\ form' = [form EXCEPT ![f] = "check"]
        /\ f = "here" => ~UnderWay(me, "form")
        /\ UNCHANGED <<account, cookie, me, page, sock>>
    BY <1>5 DEF Register, Submittable
  <2>2. AccountsTypeOK'
    BY <1>1, <1>2, <2>1 DEF AccountsTypeOK
  <2>3. MeSound'
    BY <1>0, <1>1, <1>3, <2>1 DEF MeSound
  <2>4. \A g \in Forms : form[g] = "connection" => form'[g] = "connection"
    BY <1>1, <2>1
  <2>q. QED BY <1>0, <2>1, <2>2, <2>3, <2>4 DEF AccountsInv, ConfiguredUnlessCrashed
<1>6. ASSUME NEW f \in Forms, CheckEmail(f) PROVE AccountsInv' /\ page' = page
  <2>1. /\ form[f] = "check" /\ form' = [form EXCEPT ![f] = IF account = "none" THEN "user" ELSE "idle"]
        /\ UNCHANGED <<account, cookie, me, page, sock, acts>>
    BY <1>6 DEF CheckEmail
  <2>2. AccountsTypeOK'
    BY <1>1, <2>1 DEF AccountsTypeOK
  <2>3. MeSound'
    BY <1>0, <1>1, <1>3, <2>1 DEF MeSound
  <2>4. \A g \in Forms : form[g] = "connection" => form'[g] = "connection"
    BY <1>1, <2>1
  <2>q. QED BY <1>0, <2>1, <2>2, <2>3, <2>4 DEF AccountsInv, ConfiguredUnlessCrashed
<1>7. ASSUME NEW f \in Forms, InsertUser(f) PROVE AccountsInv' /\ page' = page
  <2>1. /\ form[f] = "user"
        /\ form' = [form EXCEPT ![f] = IF account = "none" THEN "connection" ELSE "idle"]
        /\ account' = IF account = "none" THEN "bare" ELSE account
        /\ UNCHANGED <<cookie, me, page, sock, acts>>
    BY <1>7 DEF InsertUser, AfterUser
  <2>2. AccountsTypeOK'
    BY <1>1, <2>1 DEF AccountsTypeOK
  <2>3. MeSound'
    BY <1>0, <1>1, <1>3, <2>1 DEF MeSound
  <2>4. \A g \in Forms : form[g] = "connection" => form'[g] = "connection"
    BY <1>1, <2>1
  <2>5. account = "none" => form'[f] = "connection"
    BY <1>1, <2>1
  <2>q. QED BY <1>0, <2>1, <2>2, <2>3, <2>4, <2>5 DEF AccountsInv, ConfiguredUnlessCrashed
<1>8. ASSUME NEW f \in Forms, InsertConnection(f) PROVE AccountsInv' /\ page' = page
  <2>1. /\ form[f] = "connection" /\ account' = "full" /\ UNCHANGED <<page, sock, acts>>
        /\ \/ SignedIn(f)
           \/ form' = [form EXCEPT ![f] = "idle"] /\ UNCHANGED <<cookie, me>>
    BY <1>8 DEF InsertConnection
  <2>2. /\ cookie' \in BOOLEAN /\ me' \in Loaders({"mount", "form"}, BOOLEAN) /\ MeSound'
        /\ form' \in [Forms -> {"idle", "check", "user", "connection", "refresh"}]
    <3>1. CASE SignedIn(f)
      BY <1>0, <1>1, <2>1, <3>1, SignedInSound
    <3>2. CASE form' = [form EXCEPT ![f] = "idle"] /\ UNCHANGED <<cookie, me>>
      BY <1>0, <1>1, <1>3, <2>1, <3>2 DEF MeSound
    <3>q. QED BY <2>1, <3>1, <3>2
  <2>3. AccountsTypeOK'
    BY <1>1, <2>1, <2>2 DEF AccountsTypeOK
  <2>q. QED BY <2>1, <2>2, <2>3 DEF AccountsInv, ConfiguredUnlessCrashed
<1>9. CASE SignOutElsewhere
  <2>1. Acts /\ cookie' = FALSE /\ me' = Changed(me) /\ UNCHANGED <<account, form, page, sock>>
    BY <1>9 DEF SignOutElsewhere
  <2>2. me' \in Loaders({"mount", "form"}, BOOLEAN) /\ MeSound'
    BY <1>0, <2>1, SessionChanged
  <2>3. AccountsTypeOK'
    BY <1>1, <1>2, <2>1, <2>2 DEF AccountsTypeOK
  <2>q. QED BY <1>0, <2>1, <2>2, <2>3 DEF AccountsInv, ConfiguredUnlessCrashed
<1>10. ASSUME NEW k \in DOMAIN me.answers, MeArrives(k) \/ MeFails(k)
       PROVE  AccountsInv' /\ page' = page
  <2>1. UNCHANGED <<account, cookie, form, page, sock, acts>>
    BY <1>10 DEF MeArrives, MeFails
  <2>2. me' \in Loaders({"mount", "form"}, BOOLEAN) /\ MeSound'
    <3>1. CASE MeArrives(k)
      <4>1. me' = Arrive(me, k)
        BY <3>1 DEF MeArrives
      <4>2. /\ Fresh(me', "form", cookie)
            /\ me'.late \/ me'.shown = cookie \/ UnderWay(me', "form")
            /\ \A g : UnderWay(me', g) => UnderWay(me, g)
            /\ me'.asked = me.asked
        BY <1>0, <1>1, <4>1, FreshArrived DEF MeSound
      <4>3. Settled(me') => ~UnderWay(me', "form")
        BY DEF Settled, UnderWay
      <4>4. me' \in Loaders({"mount", "form"}, BOOLEAN)
        BY <1>1, <4>1, LoaderTyped
      <4>q. QED BY <1>0, <2>1, <4>2, <4>3, <4>4 DEF MeSound, Current
    <3>2. CASE MeFails(k)
      <4> DEFINE v == IF Changed(me).shown = Unknown THEN FALSE ELSE Changed(me).shown
      <4>1. me' = [Changed(me) EXCEPT !.shown = v, !.answers = RemoveAt(@, k)]
        BY <3>2 DEF MeFails
      <4>2. v \in BOOLEAN \cup {Unknown}
        <5>1. Changed(me).shown = me.shown
          BY <1>1 DEF Changed, Loaders
        <5>q. QED BY <1>1, <5>1 DEF Loaders
      <4> HIDE DEF v
      <4>3. /\ me' \in Loaders({"mount", "form"}, BOOLEAN) /\ Fresh(me', "form", cookie) /\ me'.late
            /\ me'.asked = me.asked /\ \A g : UnderWay(me', g) => UnderWay(me, g)
        <5>1. AskedOnce(me, "form")
          BY <1>0 DEF MeSound, Fresh
        <5>2. me' = Discard(me, k, v)
          BY <4>1 DEF Discard
        <5>q. QED BY <1>1, <4>2, <5>1, <5>2, FreshDiscarded
      <4>q. QED BY <1>0, <2>1, <4>3 DEF MeSound, Current
    <3>q. QED BY <1>10, <3>1, <3>2
  <2>3. AccountsTypeOK'
    BY <1>1, <2>1, <2>2 DEF AccountsTypeOK
  <2>q. QED BY <1>0, <2>1, <2>2, <2>3 DEF AccountsInv, ConfiguredUnlessCrashed
<1>11. CASE Handshake
  <2>1. sock' \in {"live", "dead"} /\ UNCHANGED <<account, cookie, form, me, page, acts>>
    BY <1>11 DEF Handshake
  <2>q. QED BY <1>0, <1>1, <2>1 DEF AccountsInv, AccountsTypeOK, MeSound, ConfiguredUnlessCrashed
<1>q. QED BY <1>4, <1>5, <1>6, <1>7, <1>8, <1>9, <1>10, <1>11 DEF StayOnPage

(* The API dies: a registration it is in the middle of is never finished.  *)
LEMMA CrashAccounts ==
    ASSUME AccountsInv, crashes \in 0..MaxCrashes, Crash
    PROVE  AccountsInv' /\ page' = page
<1>1. /\ form' = [f \in Forms |-> IF form[f] = "refresh" THEN "refresh" ELSE "idle"]
      /\ sock' = IF sock = "live" THEN "connecting" ELSE sock
      /\ acts < MaxActs /\ acts' = acts + 1 /\ crashes' = crashes + 1
      /\ UNCHANGED <<account, cookie, page, me>>
  BY DEF Crash, Acts, AccountsLost
<1>2. AccountsTypeOK'
  BY <1>1, MaxActsAssumption DEF AccountsInv, AccountsTypeOK
<1>3. MeSound'
  <2>1. form'["here"] # "refresh" => form["here"] # "refresh"
    BY <1>1 DEF Forms
  <2>q. QED BY <1>1, <2>1 DEF AccountsInv, MeSound
<1>4. ConfiguredUnlessCrashed'
  BY <1>1 DEF ConfiguredUnlessCrashed
<1>q. QED BY <1>1, <1>2, <1>3, <1>4 DEF AccountsInv

(* Looking at the settings or saving them may give the user a row; nothing *)
(* else a page does changes who is signed in.                              *)
AccountKept ==
    /\ account' \in {account, "full"} /\ acts' \in 0..MaxActs
    /\ UNCHANGED <<cookie, form, me, page, sock>>

(* So a page keeps what is known of the session.                           *)
LEMMA PageKeepsAccounts ==
    ASSUME AccountsInv, AccountKept, crashes' = crashes
    PROVE  AccountsInv'
<1>1. AccountsTypeOK'
  BY DEF AccountsInv, AccountKept, AccountsTypeOK
<1>q. QED BY <1>1 DEF AccountsInv, AccountKept, MeSound, ConfiguredUnlessCrashed

(* Whatever is done on the pages.                                          *)
LEMMA PagesKeepAccount ==
    ASSUME AccountsTypeOK, SettingsStep \/ ProjectsStep \/ LogStep
    PROVE  AccountKept
<1>1. Acts => acts' \in 0..MaxActs
  BY MaxActsAssumption DEF AccountsTypeOK, Acts
<1>2. acts' = acts => acts' \in 0..MaxActs
  BY DEF AccountsTypeOK
<1>3. CASE SettingsStep
  BY <1>1, <1>2, <1>3 DEF SettingsStep, AccountKept, accountVars, GetConnection, ConnectionArrives, Edit,
     Save, PutApplied, SaveElsewhere, StartPairing, Expire, Confirm, InsertDevice, GetDevices,
     ListArrives, Poll, RemoveDevice
<1>4. CASE ProjectsStep
  BY <1>1, <1>2, <1>4 DEF ProjectsStep, AccountKept, accountVars, CreateHere, CreateThere, ChooseDirectory,
     InsertProject, MoveProject, RemoveProject, GetProjects, ProjectsArrive
<1>5. CASE LogStep
  BY <1>1, <1>2, <1>5 DEF LogStep, AccountKept, accountVars, StoreLine, GetLog, OnLine, EmitLine, LogArrives
<1>q. QED BY <1>3, <1>4, <1>5

-----------------------------------------------------------------------------
(* The settings.                                                           *)

(* The form has what the page has, save for what the user has set, and a   *)
(* PUT differs from what is in force in nothing else, unless it is late.   *)
FormSound ==
    /\ Fresh(conn, "saved", connection)
    /\ put # NoPut /\ put.mounted => ~UnderWay(conn, "saved")
    /\ conn.shown # Unknown => \A f \in {"type", "limit"} \ edited : fields[f] = conn.shown[f]
    /\ put # NoPut /\ put.from # Unknown /\ ~put.late =>
          \A f \in {"type", "limit"} \ put.edited : put.to[f] = connection[f]

(* A code is pending, confirmed by one machine, or has paired one device.  *)
DevicesSound ==
    /\ codes \subseteq 1..given
    /\ \A m \in Machines : pairing[m] # 0 => pairing[m] \in (1..given) \ codes
    /\ \A m, n \in Machines : pairing[m] # 0 /\ pairing[m] = pairing[n] => m = n
    /\ \A d \in devices : d.code \in (1..given) \ codes /\ \A m \in Machines : pairing[m] # d.code
    /\ OneDevicePerCode

FormTypeOK ==
    /\ ConnectionTypeOK
    /\ conn \in Loaders({"mount", "saved"}, Connections)
    /\ fields \in Fields
    /\ edited \subseteq {"type", "limit"}
    /\ put \in Put \cup {NoPut}

DevicesTypeOK ==
    /\ devices \subseteq Device
    /\ list \in Loaders({"mount", "poll", "removed"}, SUBSET Device)
    /\ code \in Codes \cup {0}
    /\ codes \subseteq Codes
    /\ given \in 0..MaxCodes
    /\ pairing \in [Machines -> Codes \cup {0}]

(* The two halves of the page share nothing but the session.               *)
LEMMA SettingsTypes == SettingsTypeOK <=> FormTypeOK /\ DevicesTypeOK
  BY DEF SettingsTypeOK, FormTypeOK, DevicesTypeOK

FormInv    == FormTypeOK /\ FormSound
DevicesInv == DevicesTypeOK /\ DevicesSound

(* The form is empty when its page is opened or left.                      *)
LEMMA BlankForm ==
    ASSUME NEW p \in Pages, NEW b \in BOOLEAN, NEW now
    PROVE  /\ Blank \in Fields
           /\ Opened(p, b) \in Loaders({"mount", "saved"}, Connections)
           /\ Opened(p, b) \in Loaders({"mount", "poll", "removed"}, SUBSET Device)
           /\ Fresh(Opened(p, b), "saved", now) /\ ~UnderWay(Opened(p, b), "saved")
           /\ Opened(p, b).shown = Unknown
<1>1. Blank \in Fields
  BY MaxLimitAssumption DEF Blank, Fields, DefaultLimit
<1>2. NotLoaded.shown = Unknown
  BY DEF NotLoaded
<1>3. /\ NotLoaded \in Loaders({"mount", "saved"}, Connections)
      /\ NotLoaded \in Loaders({"mount", "poll", "removed"}, SUBSET Device)
  BY DEF NotLoaded, Loaders
<1>5. CASE p = "settings"
  <2>1. Opened(p, b) = Ask(NotLoaded, "mount", b)
    BY <1>5 DEF Opened
  <2>2. Opened(p, b).shown = Unknown
    BY <1>2, <2>1 DEF Ask, Read, NotLoaded
  <2>3. /\ Opened(p, b) \in Loaders({"mount", "saved"}, Connections)
        /\ Opened(p, b) \in Loaders({"mount", "poll", "removed"}, SUBSET Device)
    BY <1>3, <2>1, LoaderTyped
  <2>q. QED BY <1>1, <2>1, <2>2, <2>3, FreshOpened
<1>6. CASE p # "settings"
  BY <1>1, <1>2, <1>3, <1>6, NothingLoaded, FreshOpened DEF Opened
<1>q. QED BY <1>5, <1>6

(* The page is opened or left.                                             *)
LEMMA SettingsOpened ==
    ASSUME FormInv, DevicesInv, NEW p \in Pages, NEW b \in BOOLEAN, OpenOrLeave(p, b)
    PROVE  FormInv' /\ DevicesInv'
<1>1. /\ conn' = Opened(p, b) /\ list' = Opened(p, b) /\ fields' = Blank /\ edited' = {} /\ code' = 0
      /\ put' = IF put = NoPut THEN NoPut ELSE [put EXCEPT !.mounted = FALSE]
      /\ UNCHANGED <<connection, devices, codes, given, pairing>>
  BY DEF OpenOrLeave
<1>2. /\ FormTypeOK /\ FormSound /\ put \in Put \cup {NoPut} /\ connection \in Connections
  BY DEF FormInv, FormTypeOK, ConnectionTypeOK
<1>3. /\ put' \in Put \cup {NoPut} /\ (put' # NoPut => put # NoPut /\ ~put'.mounted)
      /\ put' # NoPut => /\ put'.to = put.to /\ put'.edited = put.edited
                         /\ put'.from = put.from /\ put'.late = put.late
  BY <1>1, <1>2 DEF Put, NoPut
<1>4. FormTypeOK'
  BY <1>1, <1>2, <1>3, BlankForm DEF FormTypeOK, ConnectionTypeOK
<1>5. FormSound'
  <2>1. Fresh(conn', "saved", connection') /\ conn'.shown = Unknown
    BY <1>1, BlankForm
  <2>2. put' # NoPut /\ put'.from # Unknown /\ ~put'.late =>
           \A f \in {"type", "limit"} \ put'.edited : put'.to[f] = connection'[f]
    BY <1>1, <1>2, <1>3 DEF FormSound
  <2>q. QED BY <1>3, <2>1, <2>2 DEF FormSound
<1>6. DevicesTypeOK'
  BY <1>1, BlankForm DEF DevicesInv, DevicesTypeOK
<1>7. DevicesSound'
  BY <1>1 DEF DevicesInv, DevicesSound, OneDevicePerCode
<1>q. QED BY <1>4, <1>5, <1>6, <1>7 DEF FormInv, DevicesInv

(* The API dies: the PUT and the pairings under way are lost.              *)
LEMMA SettingsCrash ==
    ASSUME FormInv, DevicesInv, SettingsLost
    PROVE  FormInv' /\ DevicesInv'
<1>1. /\ conn' = Lose(conn) /\ list' = Lose(list) /\ put' = NoPut /\ codes' = {}
      /\ pairing' = [m \in Machines |-> 0]
      /\ UNCHANGED <<connection, fields, edited, devices, code, given>>
  BY DEF SettingsLost
<1>2. /\ conn \in Loaders({"mount", "saved"}, Connections) /\ Fresh(conn, "saved", connection)
      /\ list \in Loaders({"mount", "poll", "removed"}, SUBSET Device)
  BY DEF FormInv, FormTypeOK, FormSound, DevicesInv, DevicesTypeOK
<1>3. FormTypeOK'
  BY <1>1, <1>2, LoaderTyped DEF FormInv, FormTypeOK, ConnectionTypeOK
<1>4. Fresh(conn', "saved", connection') /\ conn'.shown = conn.shown
  BY <1>1, <1>2, FreshLost
<1>5. FormSound'
  BY <1>1, <1>4 DEF FormInv, FormSound
<1>6. DevicesTypeOK'
  BY <1>1, <1>2, LoaderTyped DEF DevicesInv, DevicesTypeOK
<1>7. DevicesSound'
  <2>1. \A m \in Machines : pairing'[m] = 0
    BY <1>1
  <2>2. \A d \in devices : d.code # 0
    BY DEF DevicesInv, DevicesTypeOK, Device, Codes
  <2>q. QED BY <1>1, <2>1, <2>2 DEF DevicesInv, DevicesSound, OneDevicePerCode
<1>q. QED BY <1>3, <1>5, <1>6, <1>7 DEF FormInv, DevicesInv

(* The form fills with what arrives.                                       *)
LEMMA ConnectionLoaded ==
    ASSUME FormInv, NEW k \in DOMAIN conn.answers, ConnectionArrives(k)
    PROVE  FormInv'
<1> DEFINE v == conn.answers[k].value
<1>0. /\ FormTypeOK /\ FormSound /\ conn \in Loaders({"mount", "saved"}, Connections)
      /\ fields \in Fields /\ edited \subseteq {"type", "limit"}
  BY DEF FormInv, FormTypeOK
<1>1. /\ conn' = Arrive(conn, k)
      /\ fields' = IF v = Refused THEN fields ELSE Filled(fields, v)
      /\ edited' = IF v = Refused THEN edited ELSE {}
      /\ connection' = connection /\ put' = put
  BY DEF ConnectionArrives
<1>2. v \in Connections \cup {Refused}
  BY <1>0, AnswerTyped
<1> HIDE DEF v
<1>3. /\ Fresh(conn', "saved", connection') /\ \A g : UnderWay(conn', g) => UnderWay(conn, g)
      /\ conn'.shown = IF v = Refused THEN conn.shown ELSE v
  BY <1>0, <1>1, FreshArrived DEF FormSound, v
<1>4. conn' \in Loaders({"mount", "saved"}, Connections)
  BY <1>0, <1>1, LoaderTyped
<1>5. CASE v = Refused
  BY <1>0, <1>1, <1>3, <1>4, <1>5 DEF FormInv, FormTypeOK, FormSound, ConnectionTypeOK
<1>6. CASE v # Refused
  <2>1. v \in Connections
    BY <1>2, <1>6
  <2>2. fields' \in Fields /\ \A f \in {"type", "limit"} : fields'[f] = v[f]
    BY <1>0, <1>1, <1>6, <2>1 DEF Filled, Fields, Connections
  <2>q. QED BY <1>0, <1>1, <1>3, <1>4, <1>6, <2>2
            DEF FormInv, FormTypeOK, FormSound, ConnectionTypeOK
<1>q. QED BY <1>5, <1>6

(* The user works on the form.                                             *)
LEMMA FormEdited ==
    ASSUME FormInv, NEW f \in {"type", "limit", "key"}, NEW value,
           [fields EXCEPT ![f] = value] \in Fields, Edit(f, value)
    PROVE  FormInv'
<1>0. FormTypeOK /\ FormSound /\ fields \in Fields /\ edited \subseteq {"type", "limit"}
  BY DEF FormInv, FormTypeOK
<1>1. /\ fields' = [fields EXCEPT ![f] = value] /\ edited' = edited \cup ({f} \ {"key"})
      /\ UNCHANGED <<connection, conn, put>>
  BY DEF Edit
<1>2. fields' \in Fields /\ edited' \subseteq {"type", "limit"}
  BY <1>0, <1>1
<1>3. \A g \in {"type", "limit"} \ edited' : g # f /\ g \in {"type", "limit"} \ edited
  BY <1>1
<1>4. \A g \in {"type", "limit"} \ edited' : fields'[g] = fields[g]
  BY <1>0, <1>1, <1>3 DEF Fields
<1>q. QED BY <1>0, <1>1, <1>2, <1>3, <1>4 DEF FormInv, FormTypeOK, FormSound, ConnectionTypeOK

(* A PUT is sent with the form as it is.                                   *)
LEMMA FormSaved ==
    ASSUME FormInv, Save
    PROVE  FormInv'
<1>0. /\ FormTypeOK /\ FormSound /\ fields \in Fields /\ edited \subseteq {"type", "limit"}
      /\ conn \in Loaders({"mount", "saved"}, Connections)
  BY DEF FormInv, FormTypeOK
<1>1. /\ put' = [st |-> "sent", to |-> fields, edited |-> edited,
                 from |-> conn.shown, late |-> conn.late, mounted |-> TRUE]
      /\ ~UnderWay(conn, "saved") /\ UNCHANGED <<connection, conn, fields, edited>>
  BY DEF Save
<1>2. put' \in Put /\ FormTypeOK'
  BY <1>0, <1>1 DEF Put, Loaders, FormTypeOK, ConnectionTypeOK
<1>3. /\ put'.to = fields /\ put'.edited = edited /\ put'.from = conn.shown
      /\ put'.late = conn.late /\ put'.mounted
  BY <1>1
<1>4. conn.shown # Unknown /\ ~conn.late =>
         \A f \in {"type", "limit"} \ edited : fields[f] = connection[f]
  BY <1>0, <1>1 DEF FormSound, Fresh
<1>5. FormSound'
  BY <1>0, <1>1, <1>3, <1>4 DEF FormSound
<1>q. QED BY <1>2, <1>5 DEF FormInv

(* What is saved is a connection.                                          *)
LEMMA SavedConnection ==
    ASSUME ConnectionTypeOK, NEW type, NEW limit, NEW key \in BOOLEAN, SaveConnection(type, limit, key)
    PROVE  connection' \in Connections
  BY ModesAssumption, LimitsAssumption DEF ConnectionTypeOK, SaveConnection, Connections

(* The PUT is applied, and the page asks again or never hears of it.       *)
LEMMA FormApplied ==
    ASSUME FormInv, cookie \in BOOLEAN, NEW heard \in BOOLEAN, PutApplied(heard)
    PROVE  FormInv'
<1>0. /\ FormTypeOK /\ FormSound /\ fields \in Fields /\ edited \subseteq {"type", "limit"}
      /\ conn \in Loaders({"mount", "saved"}, Connections) /\ put \in Put \cup {NoPut}
      /\ ConnectionTypeOK /\ AskedOnce(conn, "saved")
  BY DEF FormInv, FormTypeOK, FormSound, Fresh
<1>1. /\ put # NoPut /\ put' = NoPut /\ (heard => put.mounted) /\ edited' = edited
      /\ SaveConnection(put.to.type, put.to.limit, put.to.key)
      /\ conn' = IF heard THEN Ask(conn, "saved", cookie) ELSE Changed(conn)
      /\ fields' = IF heard THEN [fields EXCEPT !.key = FALSE] ELSE fields
  BY DEF PutApplied
<1>2. connection' \in Connections
  <2>1. put \in Put
    BY <1>0, <1>1
  <2>2. put.to.key \in BOOLEAN
    BY <2>1 DEF Put, Fields
  <2>q. QED BY <1>0, <1>1, <2>2, SavedConnection
<1>3. fields' \in Fields /\ \A f \in {"type", "limit"} : fields'[f] = fields[f]
  BY <1>0, <1>1 DEF Fields
<1>4. /\ conn' \in Loaders({"mount", "saved"}, Connections) /\ Fresh(conn', "saved", connection')
      /\ conn'.shown = conn.shown
  <2>1. CASE heard
    <3>1. conn' = Ask(conn, "saved", cookie) /\ ~UnderWay(conn, "saved")
      BY <1>0, <1>1, <2>1 DEF FormSound
    <3>2. conn'.shown = conn.shown
      BY <1>0, <3>1 DEF Ask, Read, Loaders
    <3>q. QED BY <1>0, <3>1, <3>2, LoaderTyped, FreshAsked
  <2>2. CASE ~heard
    BY <1>0, <1>1, <2>2, LoaderTyped, FreshChanged
  <2>q. QED BY <2>1, <2>2
<1>5. FormTypeOK' /\ FormSound'
  BY <1>0, <1>1, <1>2, <1>3, <1>4 DEF FormTypeOK, FormSound, ConnectionTypeOK
<1>q. QED BY <1>5 DEF FormInv

(* Another tab saves: what the page has and what it has sent is late.      *)
LEMMA FormOvertaken ==
    ASSUME FormInv, NEW type, NEW limit, SaveElsewhere(type, limit)
    PROVE  FormInv'
<1>0. /\ FormTypeOK /\ FormSound /\ conn \in Loaders({"mount", "saved"}, Connections)
      /\ put \in Put \cup {NoPut} /\ ConnectionTypeOK /\ AskedOnce(conn, "saved")
  BY DEF FormInv, FormTypeOK, FormSound, Fresh
<1>1. /\ SaveConnection(type, limit, FALSE) /\ conn' = Changed(conn)
      /\ put' = IF put = NoPut THEN NoPut ELSE [put EXCEPT !.late = TRUE]
      /\ UNCHANGED <<fields, edited>>
  BY DEF SaveElsewhere
<1>2. connection' \in Connections
  BY <1>0, <1>1, SavedConnection
<1>3. /\ put' \in Put \cup {NoPut}
      /\ put' # NoPut => put # NoPut /\ put'.late /\ put'.mounted = put.mounted
  BY <1>0, <1>1 DEF Put, NoPut
<1>4. /\ conn' \in Loaders({"mount", "saved"}, Connections) /\ Fresh(conn', "saved", connection')
      /\ conn'.shown = conn.shown /\ \A g : UnderWay(conn', g) <=> UnderWay(conn, g)
  BY <1>0, <1>1, LoaderTyped, FreshChanged
<1>5. FormTypeOK' /\ FormSound'
  BY <1>0, <1>1, <1>2, <1>3, <1>4 DEF FormTypeOK, FormSound, ConnectionTypeOK
<1>q. QED BY <1>5 DEF FormInv

(* What is done in the form, and what comes of it.                         *)
LEMMA FormStep ==
    ASSUME FormInv, DevicesInv, cookie \in BOOLEAN,
           \/ \E get \in conn.asked : GetConnection(get)
           \/ \E k \in DOMAIN conn.answers : ConnectionArrives(k)
           \/ \E type \in Modes : Edit("type", type)
           \/ \E limit \in Limits : Edit("limit", limit)
           \/ \E key \in BOOLEAN : Edit("key", key)
           \/ Save
           \/ \E heard \in BOOLEAN : PutApplied(heard)
           \/ \E type \in Modes, limit \in Limits : SaveElsewhere(type, limit)
    PROVE  FormInv' /\ DevicesInv'
<1>1. deviceVars' = deviceVars
  BY DEF GetConnection, ConnectionArrives, Edit, Save, PutApplied, SaveElsewhere
<1>2. DevicesInv'
  BY <1>1 DEF deviceVars, DevicesInv, DevicesTypeOK, DevicesSound, OneDevicePerCode
<1>3. ASSUME NEW get \in conn.asked, GetConnection(get) PROVE FormInv'
  <2>1. /\ FormTypeOK /\ FormSound /\ conn \in Loaders({"mount", "saved"}, Connections)
        /\ connection \in Connections /\ conn.asked \subseteq {"mount", "saved"}
    BY DEF FormInv, FormTypeOK, ConnectionTypeOK, Loaders
  <2>2. conn' = Read(conn, get, connection) /\ UNCHANGED <<connection, fields, edited, put>>
    BY <1>3 DEF GetConnection
  <2>3. conn' \in Loaders({"mount", "saved"}, Connections)
    BY <2>1, <2>2, LoaderTyped
  <2>4. /\ Fresh(conn', "saved", connection')
        /\ UnderWay(conn', "saved") => UnderWay(conn, "saved") \/ get = "saved"
    BY <2>1, <2>2, FreshRead DEF FormSound
  <2>5. conn'.shown = conn.shown /\ (get = "saved" => UnderWay(conn, "saved"))
    BY <2>1, <2>2, AnswerAdded DEF UnderWay
  <2>q. QED BY <2>1, <2>2, <2>3, <2>4, <2>5 DEF FormInv, FormTypeOK, FormSound, ConnectionTypeOK
<1>4. fields \in Fields
  BY DEF FormInv, FormTypeOK
<1>5. ASSUME NEW type \in Modes, Edit("type", type) PROVE FormInv'
  <2>1. [fields EXCEPT !["type"] = type] \in Fields
    BY <1>4, ModesAssumption DEF Fields
  <2>q. QED BY <1>5, <2>1, FormEdited
<1>6. ASSUME NEW limit \in Limits, Edit("limit", limit) PROVE FormInv'
  <2>1. [fields EXCEPT !["limit"] = limit] \in Fields
    BY <1>4, LimitsAssumption DEF Fields
  <2>q. QED BY <1>6, <2>1, FormEdited
<1>7. ASSUME NEW key \in BOOLEAN, Edit("key", key) PROVE FormInv'
  <2>1. [fields EXCEPT !["key"] = key] \in Fields
    BY <1>4 DEF Fields
  <2>q. QED BY <1>7, <2>1, FormEdited
<1>q. QED BY <1>2, <1>3, <1>5, <1>6, <1>7, ConnectionLoaded, FormSaved, FormApplied, FormOvertaken

(* What is done about the devices, on the page and on the machines.        *)
LEMMA DevicesStep ==
    ASSUME FormInv, DevicesInv, cookie \in BOOLEAN,
           \/ StartPairing
           \/ \E c \in Codes : Expire(c) \/ \E m \in Machines : Confirm(m, c)
           \/ \E m \in Machines : InsertDevice(m)
           \/ \E get \in list.asked : GetDevices(get)
           \/ \E k \in DOMAIN list.answers : ListArrives(k)
           \/ Poll
           \/ \E d \in devices : RemoveDevice(d)
    PROVE  FormInv' /\ DevicesInv'
<1>0. /\ DevicesTypeOK /\ DevicesSound
      /\ list \in Loaders({"mount", "poll", "removed"}, SUBSET Device)
      /\ list.asked \subseteq {"mount", "poll", "removed"}
      /\ devices \subseteq Device /\ codes \subseteq Codes /\ given \in 0..MaxCodes
      /\ pairing \in [Machines -> Codes \cup {0}] /\ code \in Codes \cup {0}
  BY DEF DevicesInv, DevicesTypeOK, Loaders
<1>1. formVars' = formVars
  BY DEF StartPairing, Expire, Confirm, InsertDevice, GetDevices, ListArrives, Poll, LoadAgain, RemoveDevice
<1>2. FormInv'
  BY <1>1 DEF formVars, FormInv, FormTypeOK, FormSound, ConnectionTypeOK
<1>3. CASE StartPairing
  <2>1. /\ given < MaxCodes /\ given' = given + 1 /\ codes' = codes \cup {given + 1} /\ code' = given + 1
        /\ UNCHANGED <<devices, list, pairing>>
    BY <1>3 DEF StartPairing
  <2>2. given + 1 \in Codes /\ given + 1 \notin 1..given /\ 1..given \subseteq 1..given + 1
        /\ given + 1 \in 1..given + 1 /\ given' \in 0..MaxCodes
    BY <1>0, <2>1, MaxCodesAssumption DEF Codes
  <2>3. DevicesTypeOK'
    BY <1>0, <2>1, <2>2 DEF DevicesTypeOK
  <2>4. DevicesSound'
    BY <1>0, <2>1, <2>2 DEF DevicesSound, OneDevicePerCode
  <2>q. QED BY <1>2, <2>3, <2>4 DEF DevicesInv
<1>4. ASSUME NEW c \in Codes, Expire(c) PROVE DevicesInv'
  <2>1. codes' = codes \ {c} /\ UNCHANGED <<devices, list, code, given, pairing>>
    BY <1>4 DEF Expire
  <2>q. QED BY <1>0, <2>1 DEF DevicesInv, DevicesTypeOK, DevicesSound, OneDevicePerCode
<1>5. ASSUME NEW c \in Codes, NEW m \in Machines, Confirm(m, c) PROVE DevicesInv'
  <2>1. /\ pairing[m] = 0 /\ c \in codes /\ codes' = codes \ {c}
        /\ pairing' = [pairing EXCEPT ![m] = c] /\ UNCHANGED <<devices, list, code, given>>
    BY <1>5 DEF Confirm, Taken
  <2>2. DevicesTypeOK'
    BY <1>0, <2>1 DEF DevicesTypeOK
  <2>3. pairing'[m] = c /\ \A n \in Machines : n # m => pairing'[n] = pairing[n]
    BY <1>0, <2>1
  <2>4. DevicesSound'
    BY <1>0, <2>1, <2>3 DEF DevicesSound, OneDevicePerCode
  <2>q. QED BY <2>2, <2>4 DEF DevicesInv
<1>6. ASSUME NEW m \in Machines, InsertDevice(m) PROVE DevicesInv'
  <2> DEFINE e == [code |-> pairing[m], machine |-> m]
  <2>1. /\ pairing[m] # 0 /\ devices' = devices \cup {e}
        /\ pairing' = [pairing EXCEPT ![m] = 0] /\ list' = Changed(list)
        /\ UNCHANGED <<code, codes, given>>
    BY <1>6 DEF InsertDevice
  <2>2. e \in Device /\ e.code = pairing[m] /\ pairing[m] \in (1..given) \ codes
    BY <1>0, <2>1 DEF Device, DevicesSound
  <2>3. DevicesTypeOK'
    BY <1>0, <2>1, <2>2, LoaderTyped DEF DevicesTypeOK
  <2>4. pairing'[m] = 0 /\ \A n \in Machines : n # m => pairing'[n] = pairing[n]
    BY <1>0, <2>1
  <2> HIDE DEF e
  <2>5. \A d \in devices : d.code # e.code /\ d.code # 0
    BY <1>0, <2>2 DEF DevicesSound
  <2>6. \A n \in Machines : pairing'[n] # e.code
    BY <1>0, <2>1, <2>2, <2>4 DEF DevicesSound
  <2>7. DevicesSound'
    <3>1. codes' \subseteq 1..given' /\ \A n \in Machines : pairing'[n] # 0 => pairing'[n] \in (1..given') \ codes'
      BY <1>0, <2>1, <2>4 DEF DevicesSound
    <3>2. \A n, o \in Machines : pairing'[n] # 0 /\ pairing'[n] = pairing'[o] => n = o
      BY <1>0, <2>4 DEF DevicesSound
    <3>3. ASSUME NEW d \in devices', NEW n \in Machines
          PROVE  d.code \in (1..given') \ codes' /\ pairing'[n] # d.code
      BY <1>0, <2>1, <2>2, <2>4, <2>5, <2>6 DEF DevicesSound
    <3>4. \A d \in devices' : d.code \in (1..given') \ codes'
      BY <1>0, <2>1, <2>2 DEF DevicesSound
    <3>5. OneDevicePerCode'
      BY <1>0, <2>1, <2>5 DEF DevicesSound, OneDevicePerCode
    <3>q. QED BY <3>1, <3>2, <3>3, <3>4, <3>5 DEF DevicesSound
  <2>q. QED BY <2>3, <2>7 DEF DevicesInv
<1>7. ASSUME list' \in Loaders({"mount", "poll", "removed"}, SUBSET Device),
             devices' \subseteq devices, UNCHANGED <<code, codes, given, pairing>>
      PROVE  DevicesInv'
  BY <1>0, <1>7 DEF DevicesInv, DevicesTypeOK, DevicesSound, OneDevicePerCode
<1>8. ASSUME NEW get \in list.asked, GetDevices(get) PROVE DevicesInv'
  BY <1>0, <1>7, <1>8, LoaderTyped DEF GetDevices
<1>9. ASSUME NEW k \in DOMAIN list.answers, ListArrives(k) PROVE DevicesInv'
  BY <1>0, <1>7, <1>9, LoaderTyped DEF ListArrives
<1>10. CASE Poll
  <2>1. list' = Ask(list, "poll", cookie) /\ UNCHANGED <<devices, code, codes, given, pairing>>
    BY <1>10 DEF Poll, LoadAgain
  <2>2. list' \in Loaders({"mount", "poll", "removed"}, SUBSET Device)
    BY <1>0, <2>1, LoaderTyped
  <2>q. QED BY <1>2, <1>7, <2>1, <2>2
<1>11. ASSUME NEW d \in devices, RemoveDevice(d) PROVE DevicesInv'
  BY <1>0, <1>7, <1>11, LoaderTyped DEF RemoveDevice
<1>q. QED BY <1>2, <1>3, <1>4, <1>5, <1>6, <1>8, <1>9, <1>10, <1>11

(* Whatever is done on the page.                                           *)
LEMMA SettingsKept ==
    ASSUME FormInv, DevicesInv, cookie \in BOOLEAN, SettingsStep
    PROVE  FormInv' /\ DevicesInv'
  BY FormStep, DevicesStep DEF SettingsStep

(* At the start there is no device, no code and no form under way.         *)
LEMMA SettingsInvInit ==
    ASSUME SettingsInit, page \in Pages, cookie \in BOOLEAN
    PROVE  FormInv /\ DevicesInv
<1>1. connection \in Connections
  BY MaxLimitAssumption DEF SettingsInit, ConnectionInit, Connections, DefaultLimit
<1>2. /\ conn \in Loaders({"mount", "saved"}, Connections)
      /\ list \in Loaders({"mount", "poll", "removed"}, SUBSET Device) /\ fields \in Fields
      /\ Fresh(conn, "saved", connection) /\ conn.shown = Unknown
  BY BlankForm DEF SettingsInit
<1>3. FormTypeOK /\ FormSound
  BY <1>1, <1>2 DEF SettingsInit, FormTypeOK, ConnectionTypeOK, FormSound
<1>5. DevicesTypeOK
  BY <1>2, MaxCodesAssumption DEF SettingsInit, DevicesTypeOK
<1>4. DevicesSound
  BY DEF SettingsInit, DevicesSound, OneDevicePerCode
<1>q. QED BY <1>3, <1>4, <1>5 DEF FormInv, DevicesInv

-----------------------------------------------------------------------------
(* The projects.                                                           *)

(* A number that is taken from a set of numbers is the least of them.      *)
LEMMA MinOfNats ==
    ASSUME NEW S, S \subseteq Nat, S # {}
    PROVE  Min(S) \in S
<1>1. \E x \in S : \A y \in S : ~(<<y, x>> \in OpToRel(<, Nat))
  BY NatLessThanWellFounded, WFMin
<1>2. PICK x \in S : \A y \in S : ~(<<y, x>> \in OpToRel(<, Nat))
  BY <1>1
<1>3. \A y \in S : x <= y
  <2>1. TAKE y \in S
  <2>2. <<y, x>> \in Nat \X Nat /\ <<y, x>>[1] = y /\ <<y, x>>[2] = x
    OBVIOUS
  <2>3. ~(y < x)
    <3> DEFINE t == <<y, x>>
    <3>1. t \in Nat \X Nat /\ t[1] = y /\ t[2] = x /\ ~(t \in OpToRel(<, Nat))
      BY <1>2, <2>2
    <3> HIDE DEF t
    <3>q. QED BY <3>1 DEF OpToRel
  <2>q. QED BY <2>3
<1>q. QED BY <1>3 DEF Min

(* There are more numbers than projects, so one of them is free.           *)
LEMMA DirectoryFree ==
    ASSUME ProjectsTypeOK, NEW slug \in Slugs
    PROVE  FirstFree(slug) \in Directories /\ FirstFree(slug) \notin Used
<1> DEFINE N    == 1..Cardinality(Slots) + 1
           Free == {n \in N : <<slug, n>> \notin Used}
<1>1. Cardinality(Slots) \in Nat
  BY SlotsAssumption, FS_CardinalityType
<1>2. Free # {}
  <2>1. SUFFICES ASSUME Free = {} PROVE FALSE
    OBVIOUS
  <2> DEFINE f == [n \in N |-> CHOOSE p \in Existing : project[p] = <<slug, n>>]
  <2>2. \A n \in N : f[n] \in Existing /\ project[f[n]] = <<slug, n>>
    <3>1. \A n \in N : \E p \in Existing : project[p] = <<slug, n>>
      BY <2>1 DEF Used
    <3>q. QED BY <3>1
  <2>3. /\ IsFiniteSet(Existing) /\ Cardinality(Existing) <= Cardinality(Slots)
        /\ Cardinality(Existing) \in Nat
    BY SlotsAssumption, FS_Subset, FS_CardinalityType DEF Existing
  <2>4. IsFiniteSet(N) /\ Cardinality(N) = Cardinality(Slots) + 1
    BY <1>1, FS_Interval
  <2>5. f \in [N -> Existing]
    BY <2>2
  <2> HIDE DEF f, N
  <2>6. Cardinality(Existing) < Cardinality(N)
    BY <1>1, <2>3, <2>4
  <2>7. PICK m, n \in N : m # n /\ f[m] = f[n]
    BY <2>3, <2>4, <2>5, <2>6, FS_PigeonHole
  <2>8. <<slug, m>> = <<slug, n>>
    BY <2>2, <2>7
  <2>q. QED BY <2>7, <2>8
<1>3. Min(Free) \in Free
  <2>1. Free \subseteq Nat
    OBVIOUS
  <2> HIDE DEF Free
  <2>q. QED BY <1>2, <2>1, MinOfNats
<1>q. QED BY <1>3 DEF FirstFree, Directories

(* The list of projects is right, save for what is late or under way, and  *)
(* the form asks again only once.                                          *)
ProjectsSound ==
    /\ Fresh(known, "created", project)
    /\ creating["here"] # NoPost => ~UnderWay(known, "created")

ProjectsInv == ProjectsTypeOK /\ ProjectsSound

(* What is known of the list when its page is opened or left.              *)
LEMMA ListOpened ==
    ASSUME NEW p, NEW b \in BOOLEAN, NEW now
    PROVE  /\ OpenedList(p, b) \in Loaders({"mount", "created"}, ProjectRows)
           /\ Fresh(OpenedList(p, b), "created", now) /\ ~UnderWay(OpenedList(p, b), "created")
<1>1. NotLoaded \in Loaders({"mount", "created"}, ProjectRows)
  BY DEF NotLoaded, Loaders
<1>2. CASE p = "projects"
  <2>1. OpenedList(p, b) = Ask(NotLoaded, "mount", b)
    BY <1>2 DEF OpenedList
  <2>2. OpenedList(p, b) \in Loaders({"mount", "created"}, ProjectRows)
    BY <1>1, <2>1, LoaderTyped
  <2>q. QED BY <2>1, <2>2, FreshOpened
<1>3. CASE p # "projects"
  BY <1>1, <1>3, NothingLoaded, FreshOpened DEF OpenedList
<1>q. QED BY <1>2, <1>3

(* At the start there is no project.                                       *)
LEMMA ProjectsInvInit ==
    ASSUME ProjectsInit, cookie \in BOOLEAN
    PROVE  ProjectsInv
<1>1. /\ known \in Loaders({"mount", "created"}, ProjectRows)
      /\ Fresh(known, "created", project) /\ ~UnderWay(known, "created")
  BY ListOpened DEF ProjectsInit
<1>2. \A c \in Senders : creating[c] = NoPost
  BY DEF ProjectsInit
<1>q. QED BY <1>1, <1>2 DEF ProjectsInit, ProjectsInv, ProjectsTypeOK, ProjectsSound, ProjectRows

(* The page is opened or left; a POST under way is nobody's form any more. *)
LEMMA ProjectsOpened ==
    ASSUME ProjectsInv, NEW p, NEW b \in BOOLEAN, OpenOrLeaveList(p, b)
    PROVE  ProjectsInv'
<1>1. /\ known' = OpenedList(p, b) /\ project' = project
      /\ creating' = IF creating["here"] = NoPost THEN creating
                     ELSE [creating EXCEPT !["there"] = creating["here"], !["here"] = NoPost]
  BY DEF OpenOrLeaveList
<1>2. creating \in [Senders -> Post \cup {NoPost}] /\ project \in ProjectRows /\ ProjectsSound
  BY DEF ProjectsInv, ProjectsTypeOK
<1>3. /\ known' \in Loaders({"mount", "created"}, ProjectRows)
      /\ Fresh(known', "created", project') /\ ~UnderWay(known', "created")
  BY <1>1, ListOpened
<1>4. creating' \in [Senders -> Post \cup {NoPost}]
  BY <1>1, <1>2 DEF Senders
<1>q. QED BY <1>1, <1>2, <1>3, <1>4 DEF ProjectsInv, ProjectsTypeOK, ProjectsSound

(* The API dies, and the POSTs with it.                                    *)
LEMMA ProjectsCrash ==
    ASSUME ProjectsInv, ProjectsLost
    PROVE  ProjectsInv'
<1>1. creating' = [c \in Senders |-> NoPost] /\ known' = Lose(known) /\ project' = project
  BY DEF ProjectsLost
<1>2. /\ known \in Loaders({"mount", "created"}, ProjectRows) /\ Fresh(known, "created", project)
      /\ project \in ProjectRows
  BY DEF ProjectsInv, ProjectsTypeOK, ProjectsSound
<1>3. known' \in Loaders({"mount", "created"}, ProjectRows) /\ Fresh(known', "created", project')
  BY <1>1, <1>2, LoaderTyped, FreshLost
<1>4. \A c \in Senders : creating'[c] = NoPost
  BY <1>1
<1>q. QED BY <1>1, <1>2, <1>3, <1>4 DEF ProjectsInv, ProjectsTypeOK, ProjectsSound, Senders

(* Whatever is done on the page and elsewhere.                             *)
LEMMA ProjectsKept ==
    ASSUME ProjectsInv, cookie \in BOOLEAN, ProjectsStep
    PROVE  ProjectsInv'
<1>0. /\ creating \in [Senders -> Post \cup {NoPost}] /\ project \in ProjectRows /\ ProjectsSound
      /\ known \in Loaders({"mount", "created"}, ProjectRows)
      /\ Fresh(known, "created", project) /\ AskedOnce(known, "created")
      /\ known.asked \subseteq {"mount", "created"}
  BY DEF ProjectsInv, ProjectsTypeOK, ProjectsSound, Fresh, Loaders
<1>1. Slugs \X Wanted \subseteq Directories
  BY WantedAssumption DEF Directories
<1>2. ASSUME UNCHANGED <<project, known>>, NEW c \in Senders, NEW post \in Post,
             creating' = [creating EXCEPT ![c] = post],
             c = "here" => ~UnderWay(known, "created")
      PROVE  ProjectsInv'
  <2>1. creating' \in [Senders -> Post \cup {NoPost}]
    BY <1>0, <1>2
  <2>2. creating'[c] = post /\ \A d \in Senders : d # c => creating'[d] = creating[d]
    BY <1>0, <1>2
  <2>5. creating'["here"] # NoPost => ~UnderWay(known', "created")
    BY <1>0, <1>2, <2>2 DEF ProjectsSound, Senders
  <2>q. QED BY <1>0, <1>2, <2>1, <2>5 DEF ProjectsInv, ProjectsTypeOK, ProjectsSound
<1>3. ASSUME NEW slug \in Slugs, CreateHere(slug) PROVE ProjectsInv'
  <2>1. [st |-> "choose", slug |-> slug] \in Post
    BY DEF Post
  <2>q. QED BY <1>2, <1>3, <2>1 DEF CreateHere, Senders
<1>4. ASSUME NEW slug \in Slugs, CreateThere([st |-> "choose", slug |-> slug]) PROVE ProjectsInv'
  <2>1. [st |-> "choose", slug |-> slug] \in Post
    BY DEF Post
  <2>q. QED BY <1>2, <1>4, <2>1 DEF CreateThere, Senders
<1>5. ASSUME NEW dir \in Slugs \X Wanted, CreateThere([st |-> "insert", dir |-> dir])
      PROVE  ProjectsInv'
  <2>1. [st |-> "insert", dir |-> dir] \in Post
    BY <1>1 DEF Post
  <2>q. QED BY <1>2, <1>5, <2>1 DEF CreateThere, Senders
<1>6. ASSUME NEW c \in Senders, ChooseDirectory(c) PROVE ProjectsInv'
  <2>1. creating[c] \in Post /\ creating[c].st = "choose" /\ creating[c] # NoPost
    BY <1>0, <1>6 DEF ChooseDirectory, NoPost
  <2>2. creating[c].slug \in Slugs
    BY <2>1 DEF Post
  <2>3. FirstFree(creating[c].slug) \in Directories
    BY <2>2, DirectoryFree DEF ProjectsInv
  <2> DEFINE post == [st |-> "insert", dir |-> FirstFree(creating[c].slug)]
  <2>4. post \in Post
    BY <2>3 DEF Post
  <2>5. c = "here" => ~UnderWay(known, "created")
    BY <1>0, <2>1 DEF ProjectsSound
  <2>6. creating' = [creating EXCEPT ![c] = post] /\ UNCHANGED <<project, known>>
    BY <1>6 DEF ChooseDirectory
  <2> HIDE DEF post
  <2>q. QED BY <1>2, <2>4, <2>5, <2>6
<1>7. ASSUME NEW c \in Senders, InsertProject(c) PROVE ProjectsInv'
  <2>1. /\ creating[c] \in Post /\ creating[c].st = "insert" /\ creating[c] # NoPost
        /\ creating[c].dir \in Directories
    <3>1. creating[c] \in Post /\ creating[c].st = "insert" /\ creating[c] # NoPost
      BY <1>0, <1>7 DEF InsertProject, NoPost
    <3>q. QED BY <3>1 DEF Post
  <2>2. PICK p \in Slots \ Existing : project' = [project EXCEPT ![p] = creating[c].dir]
    BY <1>7 DEF InsertProject
  <2>3. /\ creating' = [creating EXCEPT ![c] = NoPost]
        /\ known' = IF c = "here" THEN Ask(known, "created", cookie) ELSE Changed(known)
    BY <1>7 DEF InsertProject
  <2>4. project' \in ProjectRows
    BY <1>0, <2>1, <2>2 DEF ProjectRows
  <2>5. /\ creating' \in [Senders -> Post \cup {NoPost}] /\ creating'[c] = NoPost
        /\ \A d \in Senders : creating'[d] # NoPost => creating[d] # NoPost
    BY <1>0, <2>3
  <2>6. /\ known' \in Loaders({"mount", "created"}, ProjectRows) /\ Fresh(known', "created", project')
        /\ c # "here" => (UnderWay(known', "created") <=> UnderWay(known, "created"))
    <3>1. CASE c = "here"
      BY <1>0, <2>1, <2>3, <3>1, LoaderTyped, FreshAsked DEF ProjectsSound
    <3>2. CASE c # "here"
      BY <1>0, <2>3, <3>2, LoaderTyped, FreshChanged
    <3>q. QED BY <3>1, <3>2
  <2>7. ProjectsSound'
    <3>1. creating'["here"] # NoPost => ~UnderWay(known', "created")
      BY <1>0, <2>5, <2>6 DEF ProjectsSound, Senders
    <3>q. QED BY <2>5, <2>6, <3>1 DEF ProjectsSound
  <2>q. QED BY <2>4, <2>5, <2>6, <2>7 DEF ProjectsInv, ProjectsTypeOK
<1>8. ASSUME known' = Changed(known) PROVE
             /\ known' \in Loaders({"mount", "created"}, ProjectRows) /\ Fresh(known', "created", project')
             /\ UnderWay(known', "created") <=> UnderWay(known, "created")
  BY <1>0, <1>8, LoaderTyped, FreshChanged
<1>9. ASSUME NEW p \in Slots, NEW dir \in Slugs \X Wanted, MoveProject(p, dir) PROVE ProjectsInv'
  <2>1. /\ project' = [project EXCEPT ![p] = dir] /\ known' = Changed(known)
        /\ creating' = creating
    BY <1>9 DEF MoveProject
  <2>2. project' \in ProjectRows
    BY <1>0, <1>1, <2>1 DEF ProjectRows
  <2>4. ProjectsSound'
    BY <1>0, <1>8, <2>1 DEF ProjectsSound, Senders
  <2>q. QED BY <1>0, <1>8, <2>1, <2>2, <2>4 DEF ProjectsInv, ProjectsTypeOK
<1>10. ASSUME NEW p \in Slots, RemoveProject(p) PROVE ProjectsInv'
  <2>1. /\ project' = [project EXCEPT ![p] = NoProject] /\ known' = Changed(known)
        /\ creating' = creating
    BY <1>10 DEF RemoveProject
  <2>2. project' \in ProjectRows
    BY <1>0, <2>1 DEF ProjectRows
  <2>3. ProjectsSound'
    BY <1>0, <1>8, <2>1 DEF ProjectsSound, Senders
  <2>q. QED BY <1>0, <1>8, <2>1, <2>2, <2>3 DEF ProjectsInv, ProjectsTypeOK
<1>11. ASSUME UNCHANGED <<project, creating>>, known' \in Loaders({"mount", "created"}, ProjectRows),
              Fresh(known', "created", project'),
              UnderWay(known', "created") => UnderWay(known, "created")
       PROVE  ProjectsInv'
  BY <1>0, <1>11 DEF ProjectsInv, ProjectsTypeOK, ProjectsSound
<1>12. ASSUME NEW get \in known.asked, GetProjects(get) PROVE ProjectsInv'
  <2>1. known' = Read(known, get, project) /\ UNCHANGED <<project, creating>>
    BY <1>12 DEF GetProjects
  <2>2. /\ known' \in Loaders({"mount", "created"}, ProjectRows) /\ Fresh(known', "created", project')
        /\ UnderWay(known', "created") => UnderWay(known, "created") \/ get = "created"
    BY <1>0, <2>1, LoaderTyped, FreshRead
  <2>3. UnderWay(known, get)
    BY DEF UnderWay
  <2>q. QED BY <1>11, <2>1, <2>2, <2>3
<1>13. ASSUME NEW k \in DOMAIN known.answers, ProjectsArrive(k) PROVE ProjectsInv'
  <2>1. known' = Arrive(known, k) /\ UNCHANGED <<project, creating>>
    BY <1>13 DEF ProjectsArrive
  <2>2. /\ known' \in Loaders({"mount", "created"}, ProjectRows) /\ Fresh(known', "created", project')
        /\ UnderWay(known', "created") => UnderWay(known, "created")
    BY <1>0, <2>1, LoaderTyped, FreshArrived
  <2>q. QED BY <1>11, <2>1, <2>2
<1>q. QED BY <1>3, <1>4, <1>5, <1>6, <1>7, <1>9, <1>10, <1>12, <1>13 DEF ProjectsStep

-----------------------------------------------------------------------------
(* The log.                                                                *)

OnWire(n)  == n \in telling \/ \E i \in DOMAIN wire : wire[i] = n
History(m) == [n \in 1..m |-> n]

(* What is in an answer is the log as it was; the lines since then are on  *)
(* their way, or it is late.                                               *)
Told(l) ==
    \A k \in DOMAIN l.answers :
       \/ l.answers[k].value = Refused
       \/ \E m \in 0..stored : /\ l.answers[k].value = History(m)
                               /\ l.answers[k].late \/ \A n \in m + 1..stored : OnWire(n)

(* The window has lines of the log, each once, and those it has not are on *)
(* their way, unless it is late or has yet to hear from the server.        *)
LogSound ==
    /\ telling \subseteq 1..stored /\ \A i \in DOMAIN wire : wire[i] \in 1..stored
    /\ page = "logs" =>
          /\ lines.shown \in Seq(1..stored)
          /\ Told(lines)
          /\ ~lines.late => \A i, j \in DOMAIN lines.shown : lines.shown[i] = lines.shown[j] => i = j
          /\ ~lines.late /\ Settled(lines) => \A n \in 1..stored : Shows(n) \/ OnWire(n)

LogInv == LogTypeOK /\ LogSound

Windows == Loaders({"mount"}, Seq(1..MaxLines))

(* What is empty is a sequence, of anything.                               *)
LEMMA NothingThere ==
    ASSUME NEW S, NEW s, s = <<>>
    PROVE  s \in Seq(S) /\ DOMAIN s = {}
  OBVIOUS

(* The window when it is opened or left.                                   *)
LEMMA LogOpened ==
    ASSUME NEW p, NEW b \in BOOLEAN
    PROVE  /\ OpenedLog(p, b) \in Windows
           /\ p = "logs" => /\ OpenedLog(p, b).shown = <<>> /\ ~Settled(OpenedLog(p, b))
                            /\ \A k \in DOMAIN OpenedLog(p, b).answers :
                                  OpenedLog(p, b).answers[k].value = Refused
<1>1. NotLoaded \in Windows
  BY DEF NotLoaded, Loaders, Windows
<1>2. CASE p = "logs"
  <2> DEFINE g == Given(NotLoaded, <<>>)
  <2>1. <<>> \in Seq(1..MaxLines)
    OBVIOUS
  <2>2. g \in Windows /\ OpenedLog(p, b) = Ask(g, "mount", b)
    BY <1>1, <1>2, <2>1, LoaderTyped DEF OpenedLog, Windows
  <2>3. g.shown = <<>> /\ g.asked = {} /\ DOMAIN g.answers = {}
    BY DEF Given, Changed, NotLoaded
  <2> HIDE DEF g
  <2>4. OpenedLog(p, b) \in Windows
    BY <2>2, LoaderTyped DEF Windows
  <2>5. CASE b
    <3>1. /\ OpenedLog(p, b).shown = g.shown /\ OpenedLog(p, b).answers = g.answers
          /\ OpenedLog(p, b).asked = g.asked \cup {"mount"}
      BY <2>2, <2>5 DEF Ask, Windows, Loaders
    <3>q. QED BY <2>3, <2>4, <3>1 DEF Settled
  <2>6. CASE ~b
    <3>1. OpenedLog(p, b) = Read(g, "mount", Refused)
      BY <2>2, <2>6 DEF Ask
    <3>2. /\ OpenedLog(p, b).shown = g.shown /\ ~Settled(OpenedLog(p, b))
          /\ \A k \in DOMAIN OpenedLog(p, b).answers :
                k \in DOMAIN g.answers \/ OpenedLog(p, b).answers[k].value = Refused
      BY <2>2, <3>1, AnswerAdded DEF Windows
    <3>q. QED BY <2>3, <2>4, <3>2
  <2>q. QED BY <2>5, <2>6
<1>3. CASE p # "logs"
  BY <1>1, <1>3 DEF OpenedLog
<1>q. QED BY <1>2, <1>3

(* At the start the log is empty.                                          *)
LEMMA LogInvInit ==
    ASSUME LogInit, cookie \in BOOLEAN
    PROVE  LogInv
<1>1. stored = 0 /\ telling = {} /\ wire = <<>> /\ lines = OpenedLog(page, cookie)
  BY DEF LogInit
<1>2. LogTypeOK
  BY <1>1, LogOpened, MaxLinesAssumption DEF LogTypeOK, Windows
<1>3. LogSound
  <2>1. page = "logs" => lines.shown = <<>> /\ ~Settled(lines) /\ Told(lines)
    BY <1>1, LogOpened DEF Told
  <2>2. telling \subseteq 1..stored /\ DOMAIN wire = {}
    BY <1>1, NothingThere
  <2>3. page = "logs" => lines.shown \in Seq(1..stored) /\ DOMAIN lines.shown = {}
    BY <2>1, NothingThere
  <2>q. QED BY <2>1, <2>2, <2>3 DEF LogSound
<1>q. QED BY <1>2, <1>3 DEF LogInv

(* The window is opened or left; the lines that are on their way stay so   *)
(* if the tab keeps its socket.                                            *)
LEMMA LogKeptOpen ==
    ASSUME LogInv, OpenOrLeaveLog(page', cookie), cookie \in BOOLEAN
    PROVE  LogInv'
<1>1. /\ lines' = OpenedLog(page', cookie) /\ stored' = stored /\ telling' = telling
      /\ wire' \in {wire, <<>>}
  BY DEF OpenOrLeaveLog
<1>2. /\ stored \in 0..MaxLines /\ telling \subseteq 1..MaxLines /\ wire \in Seq(1..MaxLines) /\ LogSound
  BY DEF LogInv, LogTypeOK
<1>3. LogTypeOK'
  <2>1. wire' \in Seq(1..MaxLines)
    BY <1>1, <1>2, NothingThere
  <2>2. lines' \in Windows
    BY <1>1, LogOpened
  <2>q. QED BY <1>1, <1>2, <2>1, <2>2 DEF LogTypeOK, Windows
<1>4. LogSound'
  <2>1. page' = "logs" => lines'.shown = <<>> /\ ~Settled(lines') /\ Told(lines)'
    BY <1>1, LogOpened DEF Told
  <2>2. telling' \subseteq 1..stored' /\ \A i \in DOMAIN wire' : wire'[i] \in 1..stored'
    BY <1>1, <1>2, NothingThere DEF LogSound
  <2>3. page' = "logs" => lines'.shown \in Seq(1..stored') /\ DOMAIN lines'.shown = {}
    BY <2>1, NothingThere
  <2>q. QED BY <2>1, <2>2, <2>3 DEF LogSound
<1>q. QED BY <1>3, <1>4 DEF LogInv

(* A loader of which nothing counts as current any more.                   *)
AllLate(m, l) ==
    /\ m.late /\ m.shown = l.shown
    /\ \A k \in DOMAIN m.answers : /\ m.answers[k].late
                                   /\ \E i \in DOMAIN l.answers : m.answers[k].value = l.answers[i].value

(* That is so after a change, after a crash with a GET under way and after *)
(* a refusal.                                                              *)
LEMMA MarkedLate ==
    ASSUME NEW Gets, NEW Values, NEW l \in Loaders(Gets, Values)
    PROVE  /\ AllLate(Changed(l), l)
           /\ Lose(l) = l \/ AllLate(Lose(l), l)
           /\ AllLate(Changed(Lose(l)), l)
           /\ \A k \in DOMAIN l.answers :
                 l.answers[k].value = Refused => AllLate(Arrive(l, k), l)
<1>1. ASSUME NEW n \in Loaders(Gets, Values)
      PROVE  /\ Changed(n).late /\ Changed(n).shown = n.shown /\ Changed(n).answers \in Seq(Answer(Gets, Values))
             /\ DOMAIN Changed(n).answers = DOMAIN n.answers
             /\ \A k \in DOMAIN n.answers : /\ Changed(n).answers[k].late
                                            /\ Changed(n).answers[k].value = n.answers[k].value
  <2>1. \A k \in DOMAIN n.answers : n.answers[k] \in Answer(Gets, Values)
    <3>1. n.answers \in Seq(Answer(Gets, Values))
      BY DEF Loaders, Answer
    <3>q. QED BY <3>1, ElementOfSeq, LenProperties
  <2>2. Changed(n) \in Loaders(Gets, Values)
    BY LoaderTyped
  <2>3. /\ Changed(n).late /\ Changed(n).shown = n.shown
        /\ Changed(n).answers = [j \in DOMAIN n.answers |-> Late(n.answers[j])]
    BY DEF Changed, Loaders
  <2>4. Changed(n).answers \in Seq(Answer(Gets, Values))
    BY <2>2 DEF Loaders, Answer
  <2>q. QED BY <2>1, <2>3, <2>4 DEF Late, Answer
<1>2. AllLate(Changed(l), l)
  BY <1>1 DEF AllLate
<1> DEFINE lost == Lose(l)
<1>3. lost \in Loaders(Gets, Values) /\ (lost = l \/ AllLate(lost, l))
  <2>1. CASE l.asked = {}
    BY <2>1 DEF Lose
  <2>2. CASE l.asked # {}
    <3> DEFINE c == Changed(l)
    <3>1. c \in Loaders(Gets, Values) /\ lost \in Loaders(Gets, Values) /\ AllLate(c, l)
      BY <1>2, LoaderTyped
    <3> HIDE DEF c
    <3>2. lost.late = c.late /\ lost.shown = c.shown /\ lost.answers = c.answers
      BY <2>2, <3>1 DEF Lose, Loaders, c
    <3> HIDE DEF lost
    <3>3. AllLate(lost, l)
      BY <3>1, <3>2 DEF AllLate
    <3>q. QED BY <3>1, <3>3
  <2>q. QED BY <2>1, <2>2, LoaderTyped
<1> HIDE DEF lost
<1>4. AllLate(Changed(lost), l)
  BY <1>1, <1>3 DEF AllLate
<1>5. ASSUME NEW k \in DOMAIN l.answers, l.answers[k].value = Refused
      PROVE  AllLate(Arrive(l, k), l)
  <2> DEFINE t == Changed(l).answers
             m == Arrive(l, k)
  <2>1. m.late /\ m.shown = l.shown /\ m.answers = RemoveAt(t, k)
    <3>1. Changed(l) \in Loaders(Gets, Values)
      BY LoaderTyped
    <3>q. QED BY <1>1, <1>5, <3>1 DEF Arrive, Loaders
  <2>2. t \in Seq(Answer(Gets, Values)) /\ k \in DOMAIN t
    BY <1>1
  <2>3. \A j \in DOMAIN t : t[j].late /\ t[j].value = l.answers[j].value /\ j \in DOMAIN l.answers
    BY <1>1
  <2> HIDE DEF t, m
  <2>4. \A j \in DOMAIN m.answers : Shift(k, j) \in DOMAIN t /\ m.answers[j] = t[Shift(k, j)]
    BY <2>1, <2>2, RemoveAtSeq
  <2>5. AllLate(m, l)
    BY <2>1, <2>3, <2>4 DEF AllLate
  <2>q. QED BY <2>5 DEF m
<1>q. QED BY <1>2, <1>3, <1>4, <1>5 DEF lost

(* An answer that arrives leaves the others, some of them late.            *)
LEMMA AnswersLeft ==
    ASSUME NEW Gets, NEW Values, NEW l \in Loaders(Gets, Values), NEW k \in DOMAIN l.answers,
           l.answers[k].value # Refused
    PROVE  /\ Arrive(l, k).shown = l.answers[k].value /\ Arrive(l, k).late = l.answers[k].late
           /\ \A j \in DOMAIN Arrive(l, k).answers :
                 \E i \in DOMAIN l.answers :
                    /\ Arrive(l, k).answers[j].value = l.answers[i].value
                    /\ Arrive(l, k).answers[j].late \/ Arrive(l, k).answers[j] = l.answers[i]
<1> DEFINE t == [j \in DOMAIN l.answers |-> IF j < k THEN Late(l.answers[j]) ELSE l.answers[j]]
           m == Arrive(l, k)
<1>1. l.answers \in Seq(Answer(Gets, Values)) /\ DOMAIN l.answers = 1..Len(l.answers)
  BY LenProperties DEF Loaders, Answer
<1>2. \A j \in DOMAIN l.answers : l.answers[j] \in Answer(Gets, Values)
  BY <1>1, ElementOfSeq, LenProperties
<1>3. \A j \in DOMAIN l.answers : /\ Late(l.answers[j]) \in Answer(Gets, Values)
                                  /\ Late(l.answers[j]).late
                                  /\ Late(l.answers[j]).value = l.answers[j].value
  BY <1>2 DEF Late, Answer
<1>4. m.shown = l.answers[k].value /\ m.late = l.answers[k].late /\ m.answers = RemoveAt(t, k)
  BY DEF Arrive, Loaders
<1>5. t \in Seq(Answer(Gets, Values)) /\ DOMAIN t = DOMAIN l.answers
  <2>1. \A j \in DOMAIN l.answers : t[j] \in Answer(Gets, Values)
    BY <1>2, <1>3
  <2>2. t = [j \in DOMAIN l.answers |-> t[j]]
    OBVIOUS
  <2> HIDE DEF t
  <2>q. QED BY <1>1, <2>1, <2>2, MappedSeq
<1>6. \A j \in DOMAIN t : t[j].value = l.answers[j].value /\ (t[j].late \/ t[j] = l.answers[j])
  BY <1>3
<1> HIDE DEF m, t
<1>7. \A j \in DOMAIN m.answers : Shift(k, j) \in DOMAIN t /\ m.answers[j] = t[Shift(k, j)]
  BY <1>4, <1>5, RemoveAtSeq
<1>8. \A j \in DOMAIN m.answers :
         \E i \in DOMAIN l.answers : /\ m.answers[j].value = l.answers[i].value
                                     /\ m.answers[j].late \/ m.answers[j] = l.answers[i]
  BY <1>5, <1>6, <1>7
<1>q. QED BY <1>4, <1>8 DEF m

(* A window that is late all over has nothing to be right about.           *)
LEMMA LateWindow ==
    ASSUME LogTypeOK, LogSound, UNCHANGED <<page, stored>>, lines' \in Windows, AllLate(lines', lines),
           telling' \subseteq telling, wire' \in Seq(1..MaxLines),
           \A i \in DOMAIN wire' : wire'[i] \in 1..stored
    PROVE  LogInv'
<1>1. LogTypeOK'
  BY DEF LogTypeOK, Windows
<1>2. page = "logs" => Told(lines)'
  <2>1. SUFFICES ASSUME page = "logs", NEW k \in DOMAIN lines'.answers, lines'.answers[k].value # Refused
                 PROVE  \E m \in 0..stored : lines'.answers[k].value = History(m) /\ lines'.answers[k].late
    BY DEF Told
  <2>2. PICK i \in DOMAIN lines.answers : lines'.answers[k].value = lines.answers[i].value
    BY DEF AllLate
  <2>3. \E m \in 0..stored : lines.answers[i].value = History(m)
    BY <2>1, <2>2 DEF LogSound, Told
  <2>q. QED BY <2>2, <2>3 DEF AllLate
<1>3. LogSound'
  BY <1>2 DEF LogSound, AllLate
<1>q. QED BY <1>1, <1>3 DEF LogInv

(* A line is stored: it has yet to be sent.                                *)
LEMMA LineStored ==
    ASSUME LogInv, StoreLine
    PROVE  LogInv'
<1>1. /\ stored \in 0..MaxLines /\ telling \subseteq 1..MaxLines /\ LogSound
      /\ stored < MaxLines /\ stored' = stored + 1 /\ telling' = telling \cup {stored + 1}
      /\ UNCHANGED <<page, wire, lines>>
  BY DEF LogInv, LogTypeOK, StoreLine
<1>2. stored' \in 0..MaxLines /\ stored' \in 1..stored' /\ 1..stored \subseteq 1..stored' /\ stored' \in 1..MaxLines
  BY <1>1, MaxLinesAssumption
<1>3. LogTypeOK'
  BY <1>1, <1>2 DEF LogInv, LogTypeOK
<1>4. \A n : OnWire(n) \/ n = stored + 1 => OnWire(n)'
  BY <1>1 DEF OnWire
<1>5. Told(lines) => Told(lines)'
  <2>1. SUFFICES ASSUME Told(lines), NEW k \in DOMAIN lines.answers, lines.answers[k].value # Refused
                 PROVE  \E m \in 0..stored' :
                           /\ lines.answers[k].value = History(m)
                           /\ lines.answers[k].late \/ \A n \in m + 1..stored' : OnWire(n)'
    BY <1>1 DEF Told
  <2>2. PICK m \in 0..stored : /\ lines.answers[k].value = History(m)
                               /\ lines.answers[k].late \/ \A n \in m + 1..stored : OnWire(n)
    BY <2>1 DEF Told
  <2>3. m \in 0..stored' /\ \A n \in m + 1..stored' : n \in m + 1..stored \/ n = stored + 1
    BY <1>1, <2>2
  <2>q. QED BY <1>4, <2>2, <2>3
<1>6. ASSUME page = "logs" PROVE lines.shown \in Seq(1..stored')
  <2>1. lines.shown \in Seq(1..stored)
    BY <1>1, <1>6 DEF LogSound
  <2>q. QED BY <1>2, <2>1, SeqMonotonic
<1>7. \A n \in 1..stored' : n \in 1..stored \/ n = stored + 1
  BY <1>1
<1>8. \A n : Shows(n)' <=> Shows(n)
  BY <1>1 DEF Shows
<1>9. LogSound'
  <2>1. telling' \subseteq 1..stored' /\ \A i \in DOMAIN wire' : wire'[i] \in 1..stored'
    BY <1>1, <1>2 DEF LogSound
  <2>2. ASSUME page' = "logs", ~lines'.late, Settled(lines'), NEW n \in 1..stored'
        PROVE  Shows(n)' \/ OnWire(n)'
    <3>1. n \in 1..stored => Shows(n) \/ OnWire(n)
      BY <1>1, <2>2 DEF LogSound
    <3>q. QED BY <1>4, <1>7, <1>8, <3>1
  <2>q. QED BY <1>1, <1>5, <1>6, <2>1, <2>2 DEF LogSound
<1>q. QED BY <1>3, <1>9 DEF LogInv

(* A line is sent: to the tab, or past it.                                 *)
LEMMA LineEmitted ==
    ASSUME LogInv, NEW n \in telling, EmitLine(n)
    PROVE  LogInv'
<1>1. /\ LogTypeOK /\ LogSound /\ telling \subseteq 1..MaxLines /\ wire \in Seq(1..MaxLines)
      /\ telling \subseteq 1..stored /\ stored \in 0..MaxLines /\ lines \in Windows
      /\ telling' = telling \ {n}
      /\ wire' = IF sock = "live" THEN Append(wire, n) ELSE wire
      /\ lines' = IF sock = "live" THEN lines ELSE Changed(lines)
      /\ UNCHANGED <<page, stored>>
  BY DEF LogInv, LogTypeOK, LogSound, Windows, EmitLine, accountVars
<1>2. CASE sock # "live"
  BY <1>1, <1>2, LateWindow, LoaderTyped, MarkedLate DEF Windows, LogSound
<1>3. CASE sock = "live"
  <2>1. /\ wire' \in Seq(1..MaxLines) /\ n \in 1..stored
        /\ \A i \in DOMAIN wire' : (i \in DOMAIN wire /\ wire'[i] = wire[i]) \/ wire'[i] = n
        /\ \A i \in DOMAIN wire : i \in DOMAIN wire' /\ wire'[i] = wire[i]
        /\ \E i \in DOMAIN wire' : wire'[i] = n
    BY <1>1, <1>3, AppendProperties, LenProperties
  <2>2. LogTypeOK'
    BY <1>1, <1>3, <2>1 DEF LogTypeOK, Windows
  <2>3. \A o : OnWire(o) => OnWire(o)'
    BY <1>1, <2>1 DEF OnWire
  <2>4. lines' = lines /\ stored' = stored /\ page' = page
    BY <1>1, <1>3
  <2>5. Told(lines) => Told(lines)'
    BY <2>3, <2>4 DEF Told
  <2>6. \A o : Shows(o)' <=> Shows(o)
    BY <2>4 DEF Shows
  <2>7. LogSound'
    BY <1>1, <2>1, <2>3, <2>4, <2>5, <2>6 DEF LogSound
  <2>q. QED BY <2>2, <2>7 DEF LogInv
<1>q. QED BY <1>2, <1>3

(* A line arrives: it goes after what the window shows, which is right     *)
(* unless it is there already or an answer without it is on its way.       *)
LEMMA LineShown ==
    ASSUME LogInv, OnLine
    PROVE  LogInv'
<1> DEFINE n == Head(wire)
           t == [k \in DOMAIN lines.answers |->
                    IF Lacks(lines.answers[k], n) THEN Late(lines.answers[k]) ELSE lines.answers[k]]
<1>1. /\ LogTypeOK /\ LogSound /\ telling \subseteq 1..MaxLines /\ wire \in Seq(1..MaxLines)
      /\ telling \subseteq 1..stored /\ stored \in 0..MaxLines /\ lines \in Windows
      /\ wire # <<>> /\ wire' = Tail(wire)
      /\ UNCHANGED <<page, stored, telling>>
  BY DEF LogInv, LogTypeOK, LogSound, Windows, OnLine, accountVars
<1>2. /\ wire' \in Seq(1..MaxLines) /\ n \in 1..stored /\ n \in 1..MaxLines
      /\ \A i \in DOMAIN wire' : i + 1 \in DOMAIN wire /\ wire'[i] = wire[i + 1]
      /\ \A i \in DOMAIN wire : wire[i] = n \/ \E j \in DOMAIN wire' : wire'[j] = wire[i]
  <2>1. /\ Len(wire) \in Nat /\ DOMAIN wire = 1..Len(wire) /\ 1 \in 1..Len(wire) /\ n = wire[1]
        /\ wire' \in Seq(1..MaxLines) /\ DOMAIN wire' = 1..Len(wire) - 1
        /\ \A i \in 1..Len(wire) - 1 : wire'[i] = wire[i + 1]
    BY <1>1, HeadTailProperties, LenProperties, EmptySeq
  <2>2. n \in 1..stored /\ n \in 1..MaxLines
    <3>1. wire[1] \in 1..stored
      BY <1>1, <2>1 DEF LogSound
    <3>2. 1..stored \subseteq 1..MaxLines
      BY <1>1, MaxLinesAssumption
    <3>q. QED BY <2>1, <3>1, <3>2
  <2>3. \A i \in 1..Len(wire) - 1 : i + 1 \in 1..Len(wire)
    BY <2>1
  <2>4. \A i \in 1..Len(wire) : i = 1 \/ (i - 1 \in 1..Len(wire) - 1 /\ wire'[i - 1] = wire[i])
    BY <2>1
  <2> HIDE DEF n
  <2>q. QED BY <2>1, <2>2, <2>3, <2>4
<1>3. \A o : OnWire(o) => o = n \/ OnWire(o)'
  BY <1>1, <1>2 DEF OnWire
<1>4. \A i \in DOMAIN wire' : wire'[i] \in 1..stored'
  BY <1>1, <1>2 DEF LogSound
<1>5. CASE page # "logs"
  <2>1. lines' = lines
    BY <1>5 DEF OnLine
  <2>2. LogTypeOK' /\ LogSound'
    BY <1>1, <1>2, <1>4, <1>5, <2>1 DEF LogTypeOK, LogSound, Windows
  <2>q. QED BY <2>2 DEF LogInv
<1>6. CASE page = "logs"
  <2> DEFINE A == Answer({"mount"}, Seq(1..MaxLines))
  <2>1. /\ lines'.shown = Append(lines.shown, n) /\ lines'.late = (lines.late \/ Shows(n))
        /\ lines'.asked = lines.asked /\ lines'.answers = t
        /\ lines' = [shown |-> lines'.shown, late |-> lines'.late, asked |-> lines'.asked,
                     answers |-> lines'.answers]
    BY <1>1, <1>6 DEF OnLine, Windows, Loaders
  <2>2. /\ lines.answers \in Seq(A) /\ \A k \in DOMAIN lines.answers : lines.answers[k] \in A
        /\ lines.asked \subseteq {"mount"} /\ lines.late \in BOOLEAN
    <3>1. lines.answers \in Seq(A) /\ lines.asked \subseteq {"mount"} /\ lines.late \in BOOLEAN
      BY <1>1 DEF Windows, Loaders, Answer
    <3>q. QED BY <3>1, ElementOfSeq, LenProperties
  <2>3. \A a \in A : Late(a) \in A /\ Late(a).late /\ Late(a).value = a.value
    BY DEF Answer, Late
  <2>4. t \in Seq(A) /\ DOMAIN t = DOMAIN lines.answers
    <3>1. \A k \in DOMAIN lines.answers : t[k] \in A
      BY <2>2, <2>3
    <3>2. t = [k \in DOMAIN lines.answers |-> t[k]]
      OBVIOUS
    <3> DEFINE s == lines.answers
    <3>3. t = [k \in DOMAIN s |-> t[k]] /\ s \in Seq(A) /\ \A k \in DOMAIN s : t[k] \in A
      BY <2>2, <3>1, <3>2
    <3> HIDE DEF t, s, A
    <3>4. t \in Seq(A) /\ DOMAIN t = DOMAIN s
      BY <3>3, MappedSeq
    <3>q. QED BY <3>4 DEF s
  <2>5. \A k \in DOMAIN lines.answers : /\ t[k].value = lines.answers[k].value
                                        /\ Lacks(lines.answers[k], n) => t[k].late
                                        /\ t[k].late \/ t[k] = lines.answers[k]
    BY <2>2, <2>3
  <2> HIDE DEF t, n
  <2>6. /\ lines'.shown \in Seq(1..stored) /\ lines'.shown \in Seq(1..MaxLines)
        /\ \A i \in DOMAIN lines.shown : i \in DOMAIN lines'.shown /\ lines'.shown[i] = lines.shown[i]
        /\ \A i \in DOMAIN lines'.shown :
              \/ i \in DOMAIN lines.shown
              \/ i = Len(lines.shown) + 1 /\ lines'.shown[i] = n
        /\ Len(lines.shown) + 1 \in DOMAIN lines'.shown /\ lines'.shown[Len(lines.shown) + 1] = n
    <3>1. lines.shown \in Seq(1..stored)
      BY <1>1, <1>6 DEF LogSound
    <3>2. 1..stored \subseteq 1..MaxLines
      BY <1>1, MaxLinesAssumption
    <3>3. /\ lines'.shown \in Seq(1..stored)
          /\ DOMAIN lines'.shown = 1..Len(lines.shown) + 1 /\ DOMAIN lines.shown = 1..Len(lines.shown)
          /\ Len(lines.shown) \in Nat
          /\ \A i \in 1..Len(lines.shown) : lines'.shown[i] = lines.shown[i]
          /\ lines'.shown[Len(lines.shown) + 1] = n
      BY <1>2, <2>1, <3>1, AppendProperties, LenProperties
    <3>4. lines'.shown \in Seq(1..MaxLines)
      BY <3>2, <3>3, SeqMonotonic
    <3>q. QED BY <3>3, <3>4
  <2>7. lines' \in Windows
    <3>1. lines'.late \in BOOLEAN
      BY <2>1, <2>2
    <3>q. QED BY <2>1, <2>2, <2>4, <2>6, <3>1 DEF Windows, Loaders, Answer
  <2>8. LogTypeOK'
    BY <1>1, <1>2, <2>7 DEF LogTypeOK, Windows
  <2>9. Settled(lines') => Settled(lines)
    BY <2>1, <2>2, <2>4, LenProperties, EmptySeq DEF Settled
  <2>10. Told(lines)'
    <3>1. SUFFICES ASSUME NEW k \in DOMAIN lines.answers, lines.answers[k].value # Refused
                   PROVE  \E m \in 0..stored : /\ t[k].value = History(m)
                                               /\ t[k].late \/ \A o \in m + 1..stored : OnWire(o)'
      BY <1>1, <2>1, <2>4, <2>5 DEF Told
    <3>2. PICK m \in 0..stored : /\ lines.answers[k].value = History(m)
                                 /\ lines.answers[k].late \/ \A o \in m + 1..stored : OnWire(o)
      BY <1>1, <1>6, <3>1 DEF LogSound, Told
    <3>3. CASE m < n
      <4>1. Len(History(m)) = m
        BY DEF History
      <4>2. Lacks(lines.answers[k], n)
        BY <3>1, <3>2, <3>3, <4>1 DEF Lacks
      <4>q. QED BY <2>5, <3>2, <4>2
    <3>4. CASE ~(m < n)
      <4>1. \A o \in m + 1..stored : o # n
        BY <1>1, <1>2, <3>4
      <4>q. QED BY <1>3, <2>5, <3>2, <4>1
    <3>q. QED BY <3>3, <3>4
  <2>11. ~lines'.late => \A i, j \in DOMAIN lines'.shown : lines'.shown[i] = lines'.shown[j] => i = j
    <3>1. SUFFICES ASSUME ~lines'.late, NEW i \in DOMAIN lines'.shown, NEW j \in DOMAIN lines'.shown,
                          lines'.shown[i] = lines'.shown[j]
                   PROVE  i = j
      OBVIOUS
    <3>2. ~lines.late /\ ~Shows(n)
      BY <2>1, <3>1
    <3>3. \A h \in DOMAIN lines.shown : lines.shown[h] # n
      BY <3>2 DEF Shows
    <3>4. \A g, h \in DOMAIN lines.shown : lines.shown[g] = lines.shown[h] => g = h
      BY <1>1, <1>6, <3>2 DEF LogSound
    <3>q. QED BY <2>6, <3>1, <3>3, <3>4
  <2>12. ~lines'.late /\ Settled(lines') => \A o \in 1..stored : Shows(o)' \/ OnWire(o)'
    <3>1. SUFFICES ASSUME ~lines'.late, Settled(lines'), NEW o \in 1..stored
                   PROVE  Shows(o)' \/ OnWire(o)'
      OBVIOUS
    <3>2. Shows(o) \/ OnWire(o)
      BY <1>1, <1>6, <2>1, <2>9, <3>1 DEF LogSound
    <3>3. Shows(o) \/ o = n => Shows(o)'
      BY <2>6 DEF Shows
    <3>q. QED BY <1>3, <3>2, <3>3
  <2>13. LogSound'
    BY <1>1, <1>4, <2>6, <2>10, <2>11, <2>12 DEF LogSound
  <2>q. QED BY <2>8, <2>13 DEF LogInv
<1>q. QED BY <1>5, <1>6

(* The history is read: all that has been stored so far.                   *)
LEMMA HistoryRead ==
    ASSUME LogInv, GetLog
    PROVE  LogInv'
<1> DEFINE n == Len(lines.answers) + 1
<1>1. /\ LogTypeOK /\ LogSound /\ stored \in 0..MaxLines /\ lines \in Windows
      /\ lines' = Read(lines, "mount", [i \in 1..stored |-> i])
      /\ UNCHANGED <<page, stored, telling, wire>>
  BY DEF LogInv, LogTypeOK, Windows, GetLog, accountVars
<1>2. History(stored) \in Seq(1..MaxLines) /\ lines' = Read(lines, "mount", History(stored))
  <2>1. \A i \in 1..stored : i \in 1..MaxLines
    BY <1>1, MaxLinesAssumption
  <2>2. History(stored) \in [1..stored -> 1..MaxLines] /\ stored \in Nat
    BY <1>1, <2>1 DEF History
  <2>q. QED BY <1>1, <2>2, IsASeq DEF History
<1>3. lines' \in Windows
  BY <1>1, <1>2, LoaderTyped DEF Windows
<1>4. /\ lines'.shown = lines.shown /\ lines'.late = lines.late /\ ~Settled(lines')
      /\ \A k \in DOMAIN lines'.answers :
            \/ lines'.answers[k].value = History(stored)
            \/ k \in DOMAIN lines.answers /\ lines'.answers[k] = lines.answers[k]
  BY <1>1, <1>2, AnswerAdded DEF Windows
<1>5. LogTypeOK'
  BY <1>1, <1>3 DEF LogTypeOK, Windows
<1>6. \A o : OnWire(o)' <=> OnWire(o)
  BY <1>1 DEF OnWire
<1>7. stored \in 0..stored /\ stored + 1..stored = {}
  BY <1>1
<1>8. Told(lines) => Told(lines)'
  BY <1>1, <1>4, <1>6, <1>7 DEF Told
<1>9. LogSound'
  BY <1>1, <1>4, <1>8 DEF LogSound
<1>q. QED BY <1>5, <1>9 DEF LogInv

(* The history arrives: the lines it has not are on their way, or it is    *)
(* late.                                                                   *)
LEMMA HistoryArrived ==
    ASSUME LogInv, NEW k \in DOMAIN lines.answers, LogArrives(k)
    PROVE  LogInv'
<1>1. /\ LogTypeOK /\ LogSound /\ stored \in 0..MaxLines /\ lines \in Windows
      /\ lines' = Arrive(lines, k) /\ wire \in Seq(1..MaxLines)
      /\ UNCHANGED <<page, stored, telling, wire>>
  BY DEF LogInv, LogTypeOK, Windows, LogArrives, accountVars
<1>2. lines' \in Windows
  BY <1>1, LoaderTyped DEF Windows
<1>3. LogTypeOK'
  BY <1>1, <1>2 DEF LogTypeOK, Windows
<1>4. CASE lines.answers[k].value = Refused
  <2>1. AllLate(lines', lines)
    BY <1>1, <1>4, MarkedLate DEF Windows
  <2>q. QED BY <1>1, <1>2, <2>1, LateWindow DEF LogSound
<1>5. CASE lines.answers[k].value # Refused /\ page = "logs"
  <2>1. /\ lines'.shown = lines.answers[k].value /\ lines'.late = lines.answers[k].late
        /\ \A j \in DOMAIN lines'.answers :
              \E i \in DOMAIN lines.answers :
                 /\ lines'.answers[j].value = lines.answers[i].value
                 /\ lines'.answers[j].late \/ lines'.answers[j] = lines.answers[i]
    BY <1>1, <1>5, AnswersLeft DEF Windows
  <2>2. Told(lines)
    BY <1>1, <1>5 DEF LogSound
  <2>3. \A o : OnWire(o)' <=> OnWire(o)
    BY <1>1 DEF OnWire
  <2>4. Told(lines)'
    <3>1. SUFFICES ASSUME NEW j \in DOMAIN lines'.answers, lines'.answers[j].value # Refused
                   PROVE  \E m \in 0..stored :
                             /\ lines'.answers[j].value = History(m)
                             /\ lines'.answers[j].late \/ \A o \in m + 1..stored : OnWire(o)
      BY <1>1, <2>3 DEF Told
    <3>2. PICK i \in DOMAIN lines.answers :
             /\ lines'.answers[j].value = lines.answers[i].value
             /\ lines'.answers[j].late \/ lines'.answers[j] = lines.answers[i]
      BY <2>1
    <3>q. QED BY <2>2, <3>1, <3>2 DEF Told
  <2>5. PICK m \in 0..stored : /\ lines'.shown = History(m)
                               /\ lines'.late \/ \A o \in m + 1..stored : OnWire(o)
    BY <1>5, <2>1, <2>2 DEF Told
  <2>6. /\ lines'.shown \in Seq(1..stored) /\ DOMAIN lines'.shown = 1..m
        /\ \A i \in 1..m : lines'.shown[i] = i
    <3>1. \A i \in 1..m : i \in 1..stored
      BY <1>1
    <3>2. History(m) \in [1..m -> 1..stored] /\ m \in Nat
      BY <1>1, <3>1 DEF History
    <3>q. QED BY <2>5, <3>2, IsASeq DEF History
  <2>7. \A o \in 1..stored : o \in 1..m \/ o \in m + 1..stored
    BY <1>1
  <2>8. ~lines'.late => \A o \in 1..stored : Shows(o)' \/ OnWire(o)'
    <3>1. \A o \in 1..m : Shows(o)'
      BY <2>6 DEF Shows
    <3>q. QED BY <2>3, <2>5, <2>7, <3>1
  <2>9. LogSound'
    <3>1. \A i, j \in DOMAIN lines'.shown : lines'.shown[i] = lines'.shown[j] => i = j
      BY <2>6
    <3>q. QED BY <1>1, <2>4, <2>6, <2>8, <3>1 DEF LogSound
  <2>q. QED BY <1>3, <2>9 DEF LogInv
<1>6. CASE page # "logs"
  BY <1>1, <1>3, <1>6 DEF LogInv, LogSound
<1>q. QED BY <1>4, <1>5, <1>6

(* Whatever happens to the log and to its window.                          *)
LEMMA LogKept ==
    ASSUME LogInv, LogStep
    PROVE  LogInv'
  BY LineStored, LineEmitted, LineShown, HistoryRead, HistoryArrived DEF LogStep

(* The API dies, and with it what was on its way.                          *)
LEMMA LogCrash ==
    ASSUME LogInv, LogLost, page' = page
    PROVE  LogInv'
<1>1. /\ LogTypeOK /\ LogSound /\ stored \in 0..MaxLines /\ lines \in Windows
      /\ lines' = IF wire = <<>> /\ telling = {} THEN Lose(lines) ELSE Changed(Lose(lines))
      /\ wire' = <<>> /\ telling' = {} /\ stored' = stored
  BY DEF LogInv, LogTypeOK, Windows, LogLost
<1>2. lines' \in Windows
  <2>1. Lose(lines) \in Windows
    BY <1>1, LoaderTyped DEF Windows
  <2>2. Changed(Lose(lines)) \in Windows
    BY <2>1, LoaderTyped DEF Windows
  <2>q. QED BY <1>1, <2>1, <2>2
<1>3. CASE AllLate(lines', lines)
  BY <1>1, <1>2, <1>3, LateWindow, NothingThere
<1>4. CASE wire = <<>> /\ telling = {} /\ lines' = lines
  BY <1>1, <1>4 DEF LogInv, LogTypeOK, LogSound, Told, OnWire, Shows
<1>q. QED BY <1>1, <1>3, <1>4, MarkedLate DEF Windows

(* A window that misses nothing, with no line twice, has as many as there  *)
(* are.                                                                    *)
LEMMA WindowFull ==
    ASSUME LogInv
    PROVE  WindowShowsLog
<1>1. SUFFICES ASSUME page = "logs", Settled(lines), ~lines.late, telling = {}, wire = <<>>
               PROVE  Len(lines.shown) = stored /\ \A n \in 1..stored : Shows(n)
  BY DEF WindowShowsLog
<1>2. /\ lines.shown \in Seq(1..stored) /\ stored \in Nat
      /\ \A i, j \in DOMAIN lines.shown : lines.shown[i] = lines.shown[j] => i = j
      /\ \A n \in 1..stored : Shows(n) \/ OnWire(n)
  BY <1>1 DEF LogInv, LogTypeOK, LogSound
<1>3. \A n : ~OnWire(n)
  BY <1>1, NothingThere DEF OnWire
<1>4. Len(lines.shown) \in Nat /\ lines.shown \in [1..Len(lines.shown) -> 1..stored]
  BY <1>2, LenProperties
<1>5. lines.shown \in Bijection(1..Len(lines.shown), 1..stored)
  <2> DEFINE f == lines.shown
             l == Len(lines.shown)
  <2>1. /\ f \in [1..l -> 1..stored] /\ DOMAIN f = 1..l
        /\ \A i, j \in 1..l : f[i] = f[j] => i = j
        /\ \A n \in 1..stored : \E i \in 1..l : f[i] = n
    BY <1>2, <1>3, <1>4 DEF Shows
  <2> HIDE DEF f, l
  <2>2. f \in Bijection(1..l, 1..stored)
    BY <2>1 DEF Bijection, Injection, Surjection, IsInjective
  <2>q. QED BY <2>2 DEF f, l
<1>6. ExistsBijection(1..Len(lines.shown), 1..stored)
  BY <1>5 DEF ExistsBijection
<1>7. /\ IsFiniteSet(1..Len(lines.shown)) /\ Cardinality(1..Len(lines.shown)) = Len(lines.shown)
      /\ Cardinality(1..stored) = stored
  <2>1. \A n \in Nat : IsFiniteSet(1..n) /\ Cardinality(1..n) = n
    <3>1. TAKE n \in Nat
    <3>2. 1 \in Int /\ n \in Int /\ ~(1 > n /\ n # 0) /\ n - 1 + 1 = n
      OBVIOUS
    <3>q. QED BY <3>2, FS_Interval
  <2>q. QED BY <1>2, <1>4, <2>1
<1>8. Cardinality(1..stored) = Cardinality(1..Len(lines.shown))
  BY <1>6, <1>7, FS_Bijection
<1>q. QED BY <1>2, <1>3, <1>7, <1>8

-----------------------------------------------------------------------------
(* The client as a whole.                                                  *)

WebInv == /\ AccountsInv /\ FormInv /\ DevicesInv /\ ProjectsInv /\ LogInv
          /\ crashes \in 0..MaxCrashes

(* It starts right, whoever opens it and on whichever page.                *)
LEMMA WebInvInit == WebInit => WebInv
<1>1. SUFFICES ASSUME WebInit PROVE WebInv
  OBVIOUS
<1>2. AccountsInv /\ cookie \in BOOLEAN /\ page \in Pages
  <2>1. AccountsInv
    BY <1>1, AccountsInvInit DEF WebInit
  <2>q. QED BY <2>1 DEF AccountsInv, AccountsTypeOK
<1>3. crashes \in 0..MaxCrashes
  BY <1>1, MaxCrashesAssumption DEF WebInit
<1>q. QED BY <1>1, <1>2, <1>3, SettingsInvInit, ProjectsInvInit, LogInvInit DEF WebInit, WebInv

(* And stays so, whatever the user, the other tab, the server and the      *)
(* network do.                                                             *)
LEMMA WebInvStep == WebInv /\ [WebNext]_webVars => WebInv'
<1>1. SUFFICES ASSUME WebInv, [WebNext]_webVars PROVE WebInv'
  OBVIOUS
<1>2. /\ AccountsInv /\ FormInv /\ DevicesInv /\ ProjectsInv /\ LogInv
      /\ crashes \in 0..MaxCrashes /\ cookie \in BOOLEAN /\ AccountsTypeOK
  BY <1>1 DEF WebInv, AccountsInv, AccountsTypeOK
<1>3. UNCHANGED settingsVars => FormInv' /\ DevicesInv'
  BY <1>2 DEF settingsVars, FormInv, FormTypeOK, FormSound, ConnectionTypeOK, DevicesInv, DevicesTypeOK,
     DevicesSound, OneDevicePerCode
<1>4. UNCHANGED projectVars => ProjectsInv'
  BY <1>2 DEF projectVars, ProjectsInv, ProjectsTypeOK, ProjectsSound
<1>5. UNCHANGED <<logVars, page>> => LogInv'
  <2> SUFFICES ASSUME UNCHANGED <<logVars, page>> PROVE LogInv'
    OBVIOUS
  <2>1. UNCHANGED stored /\ UNCHANGED telling /\ UNCHANGED wire /\ UNCHANGED lines /\ UNCHANGED page
    BY DEF logVars
  <2>2. LogTypeOK'
    BY <1>2, <2>1 DEF LogInv, LogTypeOK
  <2>3. /\ \A n : OnWire(n)' <=> OnWire(n)
        /\ \A n : Shows(n)' <=> Shows(n)
    BY <2>1 DEF OnWire, Shows
  <2>4. Told(lines)' <=> Told(lines)
    BY <2>1, <2>3 DEF Told
  <2>5. LogSound'
    BY <1>2, <2>1, <2>3, <2>4 DEF LogInv, LogSound
  <2>q. QED BY <2>2, <2>5 DEF LogInv
<1>6. CASE TurnPage
  <2>1. /\ OpenOrLeave(page', cookie) /\ OpenOrLeaveList(page', cookie) /\ OpenOrLeaveLog(page', cookie)
        /\ crashes' = crashes
    BY <1>6 DEF TurnPage
  <2>2. AccountsInv' /\ page' \in Pages
    <3>1. AccountsInv'
      BY <1>2, <1>6, TurnPageAccounts
    <3>q. QED BY <3>1 DEF AccountsInv, AccountsTypeOK
  <2>3. FormInv' /\ DevicesInv'
    BY <1>2, <2>1, <2>2, SettingsOpened
  <2>4. ProjectsInv' /\ LogInv'
    BY <1>2, <2>1, ProjectsOpened, LogKeptOpen
  <2>q. QED BY <1>2, <2>1, <2>2, <2>3, <2>4 DEF WebInv
<1>7. CASE StayOnPage
  <2>1. AccountsInv' /\ page' = page
    BY <1>2, <1>7, StayOnPageAccounts
  <2>2. UNCHANGED <<settingsVars, projectVars, logVars, crashes>>
    BY <1>7 DEF StayOnPage
  <2>q. QED BY <1>2, <1>3, <1>4, <1>5, <2>1, <2>2 DEF WebInv
<1>8. ASSUME SettingsStep \/ ProjectsStep \/ LogStep, UNCHANGED crashes PROVE AccountsInv' /\ page' = page
  <2>1. AccountKept
    BY <1>2, <1>8, PagesKeepAccount
  <2>q. QED BY <1>2, <1>8, <2>1, PageKeepsAccounts DEF AccountKept
<1>9. CASE SettingsStep /\ UNCHANGED <<projectVars, logVars, crashes>>
  BY <1>2, <1>4, <1>5, <1>8, <1>9, SettingsKept DEF WebInv
<1>10. CASE ProjectsStep /\ UNCHANGED <<settingsVars, logVars, crashes>>
  BY <1>2, <1>3, <1>5, <1>8, <1>10, ProjectsKept DEF WebInv
<1>11. CASE LogStep /\ UNCHANGED <<settingsVars, projectVars, crashes>>
  BY <1>2, <1>3, <1>4, <1>8, <1>11, LogKept DEF WebInv
<1>12. CASE Crash
  <2>1. /\ crashes < MaxCrashes /\ crashes' = crashes + 1
        /\ SettingsLost /\ ProjectsLost /\ LogLost
    BY <1>12 DEF Crash
  <2>2. AccountsInv' /\ page' = page
    BY <1>2, <1>12, CrashAccounts
  <2>3. crashes' \in 0..MaxCrashes
    BY <1>2, <2>1, MaxCrashesAssumption
  <2>q. QED BY <1>2, <2>1, <2>2, <2>3, SettingsCrash, ProjectsCrash, LogCrash DEF WebInv
<1>13. CASE UNCHANGED webVars
  <2>1. UNCHANGED <<accountVars, settingsVars, projectVars, logVars, crashes>>
    BY <1>13 DEF webVars
  <2>2. AccountsInv' /\ page' = page
    BY <1>2, <2>1 DEF accountVars, AccountsInv, AccountsTypeOK, MeSound, ConfiguredUnlessCrashed
  <2>q. QED BY <1>2, <1>3, <1>4, <1>5, <2>1, <2>2 DEF WebInv
<1>q. QED BY <1>1, <1>6, <1>7, <1>9, <1>10, <1>11, <1>12, <1>13 DEF WebNext

(* It is what the states of every behaviour satisfy.                       *)
LEMMA WebInvariance == WebSpec => []WebInv
  BY WebInvInit, WebInvStep, PTL DEF WebSpec

(* The tab, its other tab, the server's tables and what is on its way      *)
(* between them keep their types.                                          *)
THEOREM WebTypeCorrect == WebSpec => []WebTypeOK
<1>1. WebInv => WebTypeOK
  BY SettingsTypes DEF WebInv, WebTypeOK, AccountsInv, FormInv, DevicesInv, ProjectsInv, LogInv
<1>q. QED BY <1>1, WebInvariance, PTL

(* What a page shows is what the server has, once nothing is on its way    *)
(* and unless it is marked as late.                                        *)
THEOREM WebShownIsCurrent == WebSpec => []ShownIsCurrent
<1>1. WebInv => ShownIsCurrent
  <2>1. SUFFICES ASSUME WebInv PROVE ShownIsCurrent
    OBVIOUS
  <2>2. \A l, get : Settled(l) => ~UnderWay(l, get)
    <3>1. TAKE l, get
    <3>2. l.answers = <<>> => DOMAIN l.answers = {}
      BY NothingThere
    <3>q. QED BY <3>2 DEF Settled, UnderWay
  <2>3. Current(me, cookie)
    BY <2>1 DEF WebInv, AccountsInv, MeSound
  <2>4. FormShowsRow
    <3>1. SUFFICES ASSUME Settled(conn), ~conn.late, conn.shown # Unknown
                   PROVE  /\ conn.shown = connection
                          /\ \A f \in {"type", "limit"} \ edited : fields[f] = connection[f]
      BY DEF FormShowsRow
    <3>2. Fresh(conn, "saved", connection) /\ \A f \in {"type", "limit"} \ edited : fields[f] = conn.shown[f]
      BY <2>1, <3>1 DEF WebInv, FormInv, FormSound
    <3>3. conn.shown = connection
      BY <2>2, <3>1, <3>2 DEF Fresh
    <3>q. QED BY <3>2, <3>3
  <2>5. known.shown # Unknown => Current(known, project)
    <3>1. Fresh(known, "created", project)
      BY <2>1 DEF WebInv, ProjectsInv, ProjectsSound
    <3>q. QED BY <2>2, <3>1 DEF Fresh, Current
  <2>6. WindowShowsLog
    BY <2>1, WindowFull DEF WebInv
  <2>q. QED BY <2>3, <2>4, <2>5, <2>6 DEF ShownIsCurrent
<1>q. QED BY <1>1, WebInvariance, PTL

(* Whoever has registered has a connection, or gets one on looking at the  *)
(* settings, unless the API died between the two inserts.                  *)
THEOREM WebConfigured == WebSpec => []ConfiguredUnlessCrashed
<1>1. WebInv => ConfiguredUnlessCrashed
  BY DEF WebInv, AccountsInv
<1>q. QED BY <1>1, WebInvariance, PTL

(* A code pairs one device, however many machines confirm it.              *)
THEOREM WebOneDevicePerCode == WebSpec => []OneDevicePerCode
<1>1. WebInv => OneDevicePerCode
  BY DEF WebInv, DevicesInv, DevicesSound
<1>q. QED BY <1>1, WebInvariance, PTL

(* Saving the form changes what the user has set and nothing else, unless  *)
(* it is saved before it has been filled or filled with what is late.      *)
THEOREM WebSaveChangesOnlyEdits == WebSpec => SaveChangesOnlyEdits
<1> DEFINE Saved == \A f \in {"type", "limit"} :
                       put # NoPut /\ put' = NoPut /\ connection'[f] # connection[f]
                          => f \in put.edited \/ put.from = Unknown \/ put.late
<1>1. WebInv /\ [WebNext]_webVars => [Saved]_<<settingsVars, accountVars>>
  <2>1. SUFFICES ASSUME WebInv, [WebNext]_webVars, NEW f \in {"type", "limit"},
                        put # NoPut, put' = NoPut, connection'[f] # connection[f],
                        put.from # Unknown, ~put.late
                 PROVE  f \in put.edited
    OBVIOUS
  <2>2. FormTypeOK /\ FormSound /\ put \in Put
    BY <2>1 DEF WebInv, FormInv, FormTypeOK
  <2>3. CASE SettingsStep
    <3>1. ASSUME NEW type \in Modes, NEW limit \in Limits, SaveElsewhere(type, limit) PROVE FALSE
      <4>1. put' = [put EXCEPT !.late = TRUE]
        BY <2>1, <3>1 DEF SaveElsewhere
      <4>2. put'.st = "sent"
        BY <2>2, <4>1 DEF Put
      <4>q. QED BY <2>1, <4>2 DEF NoPut
    <3>2. PICK heard \in BOOLEAN : PutApplied(heard)
      BY <2>1, <2>3, <3>1 DEF SettingsStep, GetConnection, ConnectionArrives, Edit, Save, StartPairing,
         Expire, Confirm, InsertDevice, GetDevices, ListArrives, Poll, RemoveDevice, formVars, NoPut
    <3>3. SaveConnection(put.to.type, put.to.limit, put.to.key)
      BY <3>2 DEF PutApplied
    <3>4. connection'[f] = put.to[f]
      BY <3>3 DEF SaveConnection
    <3>q. QED BY <2>1, <2>2, <3>4 DEF FormSound
  <2>4. CASE TurnPage \/ Crash \/ UNCHANGED settingsVars
    BY <2>1, <2>4 DEF TurnPage, OpenOrLeave, Crash, SettingsLost, settingsVars
  <2>q. QED BY <2>1, <2>3, <2>4 DEF WebNext, webVars, StayOnPage
<1>q. QED BY <1>1, WebInvariance, PTL DEF WebSpec, SaveChangesOnlyEdits

=============================================================================
