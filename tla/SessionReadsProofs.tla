-------------------------- MODULE SessionReadsProofs --------------------------
(***************************************************************************)
(* Proofs about SessionReads, for every window, prompt and page size, every *)
(* number of readers and sessions and every set of queries.                *)
(***************************************************************************)
EXTENDS SessionReads, SequenceTheorems, FiniteSetTheorems, TLAPS

-----------------------------------------------------------------------------
(* The conversation.  Go's append leaves alone what lies before the end of *)
(* the history, and no reader's slice reaches beyond that end.             *)

Element == Message \cup {Blank}

\* A slice lies within its array.
Fits(elements, s) == End(s) <= Len(elements) + 1

ReaderFits(r) ==
    IF snapshot[r].array = Shared
    THEN End(snapshot[r].place) <= End(history)
    ELSE Fits(snapshot[r].array, snapshot[r].place)

HistoryInv ==
    /\ HistoryTypeOK
    /\ Fits(array, history)
    /\ \A r \in Reader : ReaderFits(r)

\* A slice shows the part of the array where it lies.
LEMMA ElementsAre ==
    ASSUME NEW elements \in Seq(Element), NEW s \in Place, Fits(elements, s)
    PROVE  /\ Elements(elements, s) \in Seq(Element)
           /\ Len(Elements(elements, s)) = s.len
           /\ \A i \in 1 .. s.len :
                  /\ s.first + i - 1 \in 1 .. Len(elements)
                  /\ Elements(elements, s)[i] = elements[s.first + i - 1]
<1> DEFINE m == s.first
           n == s.first + s.len - 1
<1>1. m \in Nat \ {0} /\ s.len \in Nat /\ n \in Int /\ m <= n + 1 /\ n - m + 1 = s.len
  BY HistoryAssumption DEF Place
<1>2. n <= Len(elements) /\ Len(elements) \in Nat
  BY <1>1, LenProperties DEF Fits, End
<1>3. \A i \in m .. n : i \in 1 .. Len(elements)
  BY <1>1, <1>2
<1>4. \A i \in m .. n : elements[i] \in Element
  BY <1>3, ElementOfSeq
<1> HIDE DEF m, n
<1>5. /\ SubSeq(elements, m, n) \in Seq(Element)
      /\ Len(SubSeq(elements, m, n)) = IF m <= n THEN n - m + 1 ELSE 0
      /\ \A i \in 1 .. n - m + 1 : SubSeq(elements, m, n)[i] = elements[m + i - 1]
  BY <1>1, <1>4, SubSeqProperties
<1>6. Elements(elements, s) = SubSeq(elements, m, n)
  BY DEF Elements, m, n
<1>7. \A i \in 1 .. s.len : m + i - 1 \in m .. n
  BY <1>1
<1> QED
  BY <1>1, <1>3, <1>5, <1>6, <1>7 DEF m

\* What a reader sees, when he fits.
LEMMA SliceEqual ==
    ASSUME NEW e \in Seq(Element), NEW s \in Place, Fits(e, s),
           NEW f \in Seq(Element), NEW t \in Place, Fits(f, t),
           s.len = t.len,
           \A i \in 1 .. s.len : e[s.first + i - 1] = f[t.first + i - 1]
    PROVE  Elements(e, s) = Elements(f, t)
<1>1. /\ Elements(e, s) \in Seq(Element) /\ Elements(f, t) \in Seq(Element)
      /\ Len(Elements(e, s)) = s.len /\ Len(Elements(f, t)) = s.len
      /\ \A i \in 1 .. s.len : Elements(e, s)[i] = Elements(f, t)[i]
  BY ElementsAre
<1> QED
  BY <1>1, SeqEqual

\* The last n elements of a sequence that has more.
LEMMA LatestAre ==
    ASSUME NEW S, NEW s \in Seq(S), NEW n \in Nat, Len(s) > n
    PROVE  /\ Conversation!Latest(s, n) \in Seq(S)
           /\ Len(Conversation!Latest(s, n)) = n
           /\ \A i \in 1 .. n : Conversation!Latest(s, n)[i] = s[Len(s) - n + i]
<1> DEFINE a == Len(s) - n + 1
           b == Len(s)
<1>1. Len(s) \in Nat /\ \A i \in 1 .. Len(s) : s[i] \in S
  BY LenProperties, ElementOfSeq
<1>2. a \in Int /\ b \in Int /\ b - a + 1 = n /\ (a <= b <=> n > 0) /\ \A i \in a .. b : s[i] \in S
  BY <1>1
<1>3. Conversation!Latest(s, n) = SubSeq(s, a, b)
  BY <1>1 DEF Conversation!Latest
<1>4. \A i \in 1 .. n : a + i - 1 = Len(s) - n + i
  BY <1>1
<1> HIDE DEF a, b
<1>5. /\ SubSeq(s, a, b) \in Seq(S)
      /\ Len(SubSeq(s, a, b)) = IF a <= b THEN b - a + 1 ELSE 0
      /\ \A i \in 1 .. b - a + 1 : SubSeq(s, a, b)[i] = s[a + i - 1]
  BY <1>2, SubSeqProperties
<1>6. Len(SubSeq(s, a, b)) = n
  BY <1>2, <1>5
<1>7. \A i \in 1 .. n : SubSeq(s, a, b)[i] = s[a + i - 1]
  BY <1>2, <1>5
<1> QED
  BY <1>3, <1>4, <1>5, <1>6, <1>7

\* What the constants say of the types.
LEMMA EmptyFits ==
    /\ <<>> \in Seq(Element) /\ Len(<<>>) = 0
    /\ [first |-> 1, len |-> 0] \in Place
    /\ Fits(<<>>, [first |-> 1, len |-> 0])
    /\ <<>> # Shared
<1>1. <<>> \in Seq(Element) /\ Len(<<>>) = 0
  BY EmptySeq
<1>2. [first |-> 1, len |-> 0] \in Place
  BY HistoryAssumption DEF Place
<1>3. Fits(<<>>, [first |-> 1, len |-> 0])
  BY <1>1 DEF Fits, End
<1>4. Shared \notin Seq(Element)
  BY HistoryAssumption DEF Element
<1> QED
  BY <1>1, <1>2, <1>3, <1>4

LEMMA HistoryInvInit == HistoryInit => HistoryInv
<1> SUFFICES ASSUME HistoryInit PROVE HistoryInv
  OBVIOUS
<1>1. HistoryTypeOK
  BY EmptyFits, HistoryAssumption DEF HistoryInit, HistoryTypeOK, NoSnapshot, Element
<1>2. Fits(array, history) /\ \A r \in Reader : ReaderFits(r)
  BY EmptyFits DEF HistoryInit, NoSnapshot, ReaderFits
<1> QED
  BY <1>1, <1>2 DEF HistoryInv

\* The window after a message m: the array e holds it behind the elements of
\* the history, which lie in e from first on.
LEMMA WindowIsLatest ==
    ASSUME HistoryInv, NEW e \in Seq(Element), Len(e) <= MaxCap,
           NEW first \in 1 .. MaxCap, NEW m \in Message,
           first + history.len <= Len(e), e[first + history.len] = m,
           \A i \in 1 .. history.len : e[first + i - 1] = Elements(array, history)[i]
    PROVE  /\ Window(first) \in Place /\ Fits(e, Window(first))
           /\ End(Window(first)) = first + history.len + 1
           /\ Elements(e, Window(first))
                  = Conversation!Latest(Append(Elements(array, history), m), maxConversationHistory)
<1> DEFINE old == Elements(array, history)
           all == Append(old, m)
           len == history.len
           size == maxConversationHistory
           w == Window(first)
<1>1. /\ len \in Nat /\ len <= size /\ size \in Nat \ {0}
      /\ MaxCap \in Nat /\ Len(e) \in Nat /\ m \in Element
  BY HistoryAssumption, LenProperties DEF HistoryInv, HistoryTypeOK, Place, Element
<1>2. old \in Seq(Element) /\ Len(old) = len
  BY ElementsAre DEF HistoryInv, HistoryTypeOK, Element
<1>3. \A i \in 1 .. len : e[first + i - 1] = old[i]
  OBVIOUS
<1> HIDE DEF old
<1>4. /\ all \in Seq(Element) /\ Len(all) = len + 1
      /\ \A i \in 1 .. len : all[i] = old[i]
      /\ all[len + 1] = m
  BY <1>1, <1>2, AppendProperties
<1>5. e[first + len] = m
  OBVIOUS
<1> HIDE DEF all, len
<1>5a. ASSUME NEW i \in 1 .. len + 1 PROVE all[i] = e[first + i - 1]
  <2>1. CASE i = len + 1
    <3>1. first + i - 1 = first + len
      BY <1>1, <2>1
    <3> QED
      BY <1>4, <1>5, <2>1, <3>1
  <2>2. CASE i # len + 1
    <3>1. i \in 1 .. len
      BY <1>1, <2>2
    <3> QED
      BY <1>3, <1>4, <3>1
  <2> QED
    BY <2>1, <2>2
<1>6. CASE len < size
  <2>1. w = [first |-> first, len |-> len + 1]
    BY <1>1, <1>6 DEF Window, len
  <2>2. w \in Place /\ Fits(e, w) /\ End(w) = first + len + 1
    <3>1. first \in 1 .. MaxCap + 1 /\ len + 1 \in 0 .. size
      BY <1>1, <1>6
    <3>2. w \in Place /\ w.first = first /\ w.len = len + 1
      BY <2>1, <3>1 DEF Place
    <3>3. End(w) = first + len + 1
      BY <1>1, <3>2 DEF End
    <3> QED
      BY <1>1, <3>2, <3>3 DEF Fits, len
  <2> HIDE DEF w
  <2>3. /\ Elements(e, w) \in Seq(Element) /\ Len(Elements(e, w)) = len + 1
        /\ \A i \in 1 .. len + 1 : Elements(e, w)[i] = e[first + i - 1]
    BY <2>1, <2>2, ElementsAre
  <2>4. Elements(e, w) = all
    BY <1>4, <1>5a, <2>3, SeqEqual
  <2>5. Conversation!Latest(all, size) = all
    BY <1>1, <1>4, <1>6 DEF Conversation!Latest
  <2> QED
    BY <2>2, <2>4, <2>5 DEF all, len, w, old
<1>7. CASE len = size
  <2>1. w = [first |-> first + 1, len |-> len]
    BY <1>1, <1>7 DEF Window, len
  <2>2. w \in Place /\ Fits(e, w) /\ End(w) = first + len + 1
    BY <1>1, <1>7, <2>1 DEF Place, Fits, End, len
  <2> HIDE DEF w
  <2>3. /\ Elements(e, w) \in Seq(Element) /\ Len(Elements(e, w)) = len
        /\ \A i \in 1 .. len : Elements(e, w)[i] = e[first + 1 + i - 1]
    BY <2>1, <2>2, ElementsAre
  <2>4. /\ Conversation!Latest(all, len) \in Seq(Element) /\ Len(Conversation!Latest(all, len)) = len
        /\ \A i \in 1 .. len : Conversation!Latest(all, len)[i] = all[Len(all) - len + i]
    BY <1>1, <1>4, LatestAre
  <2>5. ASSUME NEW i \in 1 .. len
        PROVE  Elements(e, w)[i] = Conversation!Latest(all, len)[i]
    <3>1. /\ Len(all) - len + i = i + 1 /\ i + 1 \in 1 .. len + 1
          /\ first + 1 + i - 1 = first + (i + 1) - 1
      BY <1>1, <1>4
    <3>2. Conversation!Latest(all, len)[i] = all[i + 1]
      BY <2>4, <3>1
    <3>3. Elements(e, w)[i] = e[first + (i + 1) - 1]
      BY <2>3, <3>1
    <3> QED
      BY <1>5a, <3>1, <3>2, <3>3
  <2>6. Elements(e, w) = Conversation!Latest(all, len)
    BY <2>3, <2>4, <2>5, SeqEqual
  <2> QED
    BY <1>7, <2>2, <2>6 DEF all, len, w, old
<1> QED
  BY <1>1, <1>6, <1>7

\* What HistoryInv says of one reader.
LEMMA ReaderTypes ==
    ASSUME HistoryInv, NEW r \in Reader
    PROVE  /\ snapshot[r].place \in Place
           /\ snapshot[r].array # Shared => snapshot[r].array \in Seq(Element)
           /\ snapshot[r].array = Shared =>
                  /\ Snapshot(r) = Elements(array, snapshot[r].place)
                  /\ End(snapshot[r].place) <= End(history)
                  /\ Fits(array, snapshot[r].place)
           /\ snapshot[r].array # Shared =>
                  /\ Snapshot(r) = Elements(snapshot[r].array, snapshot[r].place)
                  /\ Fits(snapshot[r].array, snapshot[r].place)
<1>1. /\ snapshot[r].place \in Place
      /\ snapshot[r].array # Shared => snapshot[r].array \in Seq(Element)
  BY DEF HistoryInv, HistoryTypeOK, Element
<1>2. /\ snapshot[r].array = Shared => End(snapshot[r].place) <= End(history)
      /\ snapshot[r].array # Shared => Fits(snapshot[r].array, snapshot[r].place)
  BY DEF HistoryInv, ReaderFits
<1>3. snapshot[r].array = Shared => Fits(array, snapshot[r].place)
  <2>1. End(snapshot[r].place) \in Int /\ End(history) \in Int /\ Len(array) \in Nat
        /\ End(history) <= Len(array) + 1
    BY <1>1, LenProperties DEF HistoryInv, HistoryTypeOK, Place, End, Fits
  <2> QED
    BY <1>2, <2>1 DEF Fits
<1> QED
  BY <1>1, <1>2, <1>3 DEF Snapshot

\* A message that is written behind the history, where append finds room.
LEMMA AddMessageStep ==
    ASSUME HistoryInv, NEW m \in Message, AddMessage(m)
    PROVE  HistoryInv' /\ Conversation!Say(m)
<1> DEFINE n == End(history)
<1>1. /\ n <= Len(array) /\ array' = [array EXCEPT ![n] = m]
      /\ history' = Window(history.first) /\ snapshot' = snapshot
  BY DEF AddMessage, Trimmed
<1>2. /\ history \in Place /\ array \in Seq(Element) /\ Len(array) \in Nat /\ Len(array) <= MaxCap
      /\ MaxCap \in Nat /\ m \in Element
      /\ history.first \in Nat \ {0} /\ history.len \in Nat /\ n = history.first + history.len
  BY LenProperties, HistoryAssumption DEF HistoryInv, HistoryTypeOK, Place, End, Element
<1> HIDE DEF n
<1>3. n \in 1 .. Len(array) /\ history.first \in 1 .. MaxCap /\ n \in Nat
  BY <1>1, <1>2
<1>4. /\ array' \in Seq(Element) /\ Len(array') = Len(array)
      /\ \A i \in 1 .. Len(array) : array'[i] = IF i = n THEN m ELSE array[i]
  BY <1>1, <1>2, <1>3, ExceptSeq
<1>5. \A i \in 1 .. history.len :
          /\ history.first + i - 1 \in 1 .. Len(array)
          /\ history.first + i - 1 # n
          /\ array[history.first + i - 1] = Elements(array, history)[i]
  <2>1. \A i \in 1 .. history.len : history.first + i - 1 # n
    BY <1>2
  <2> QED
    BY <1>2, <2>1, ElementsAre DEF HistoryInv
<1>6. \A i \in 1 .. history.len : array'[history.first + i - 1] = Elements(array, history)[i]
  BY <1>4, <1>5
<1>7. /\ history' \in Place /\ Fits(array', history') /\ End(history') = n + 1
      /\ Elements(array', history')
             = Conversation!Latest(Append(Elements(array, history), m), maxConversationHistory)
  <2>1. array'[history.first + history.len] = m /\ history.first + history.len <= Len(array')
    BY <1>1, <1>2, <1>3, <1>4
  <2>2. Len(array') <= MaxCap
    BY <1>2, <1>4
  <2> QED
    BY <1>1, <1>2, <1>3, <1>4, <1>6, <2>1, <2>2, WindowIsLatest
<1>8. ASSUME NEW r \in Reader
      PROVE  ReaderFits(r)' /\ Snapshot(r)' = Snapshot(r)
  <2> DEFINE place == snapshot[r].place
  <2>1. /\ place \in Place /\ place.first \in Nat \ {0} /\ place.len \in Nat
        /\ End(place) = place.first + place.len
    BY ReaderTypes DEF Place, End
  <2>2. CASE snapshot[r].array = Shared
    <3>1. Snapshot(r) = Elements(array, place) /\ End(place) <= n /\ Fits(array, place)
      BY <2>2, ReaderTypes DEF n
    <3>2. Snapshot(r)' = Elements(array', place)
      BY <1>1, <2>2 DEF Snapshot
    <3>3. Fits(array', place)
      BY <1>4, <3>1 DEF Fits
    <3>4. \A i \in 1 .. place.len :
              place.first + i - 1 \in 1 .. Len(array) /\ place.first + i - 1 # n
      <4> HIDE DEF place
      <4> TAKE i \in 1 .. place.len
      <4>1. place.first + i - 1 < place.first + place.len /\ place.first + i - 1 >= 1
        BY <2>1
      <4>2. place.first + place.len <= n
        BY <2>1, <3>1
      <4> QED
        BY <1>2, <1>3, <2>1, <4>1, <4>2
    <3>5. \A i \in 1 .. place.len : array'[place.first + i - 1] = array[place.first + i - 1]
      BY <1>4, <3>4
    <3>6. Elements(array', place) = Elements(array, place)
      <4> HIDE DEF place
      <4> QED
        BY <1>2, <1>4, <2>1, <3>1, <3>3, <3>5, SliceEqual
    <3>7. End(place) <= n + 1
      BY <1>3, <2>1, <3>1
    <3> QED
      BY <1>1, <1>7, <2>2, <3>1, <3>2, <3>6, <3>7 DEF ReaderFits
  <2>3. CASE snapshot[r].array # Shared
    <3>1. Snapshot(r)' = Snapshot(r)
      BY <1>1, <2>3 DEF Snapshot
    <3>2. Fits(snapshot[r].array, place)
      BY <2>3, ReaderTypes
    <3> QED
      BY <1>1, <2>3, <3>1, <3>2 DEF ReaderFits
  <2> QED
    BY <2>2, <2>3
<1>9. HistoryTypeOK'
  BY <1>1, <1>2, <1>4, <1>7 DEF HistoryInv, HistoryTypeOK, Element
<1>10. HistoryInv'
  BY <1>7, <1>8, <1>9 DEF HistoryInv
<1>11. Conversation!Say(m)
  BY <1>7, <1>8 DEF Conversation!Say
<1> QED
  BY <1>10, <1>11

\* A message for which append makes a new array: readers keep the old one.
LEMMA AddMessageToNewStep ==
    ASSUME HistoryInv, NEW m \in Message, AddMessageToNew(m)
    PROVE  HistoryInv' /\ Conversation!Say(m)
<1> DEFINE old == Elements(array, history)
           len == history.len
<1>1. PICK room \in len + 1 .. MaxCap :
          array' = [i \in 1 .. room |-> IF i <= len THEN old[i] ELSE IF i = len + 1 THEN m ELSE Blank]
  BY DEF AddMessageToNew
<1>2. /\ history' = Window(1)
      /\ snapshot' = [r \in Reader |->
             IF snapshot[r].array = Shared THEN [snapshot[r] EXCEPT !.array = array] ELSE snapshot[r]]
  BY DEF AddMessageToNew
<1>3. /\ history \in Place /\ array \in Seq(Element) /\ MaxCap \in Nat \ {0} /\ len \in Nat
      /\ m \in Element /\ Blank \in Element
  BY HistoryAssumption DEF HistoryInv, HistoryTypeOK, Place, Element
<1>4. old \in Seq(Element) /\ Len(old) = len /\ \A i \in 1 .. len : old[i] \in Element
  <2>1. old \in Seq(Element) /\ Len(old) = len
    BY <1>3, ElementsAre DEF HistoryInv
  <2> QED
    BY <2>1, ElementOfSeq
<1> HIDE DEF old, len
<1>5. /\ array' \in Seq(Element) /\ Len(array') = room /\ room \in Nat /\ room <= MaxCap
      /\ array'[len + 1] = m /\ len + 1 <= room
      /\ \A i \in 1 .. len : array'[i] = old[i]
  <2>1. room \in Nat /\ room <= MaxCap /\ len + 1 <= room /\ len + 1 \in 1 .. room
    BY <1>3
  <2>2. array' \in [1 .. room -> Element]
    BY <1>1, <1>3, <1>4, <2>1
  <2>3. array' \in Seq(Element) /\ Len(array') = room
    BY <2>1, <2>2
  <2>4. array'[len + 1] = m
    BY <1>1, <1>3, <2>1
  <2>5. \A i \in 1 .. len : array'[i] = old[i]
    BY <1>1, <1>3, <2>1
  <2> QED
    BY <2>1, <2>3, <2>4, <2>5
<1>6. /\ history' \in Place /\ Fits(array', history')
      /\ Elements(array', history') = Conversation!Latest(Append(old, m), maxConversationHistory)
  <2>1. /\ 1 \in 1 .. MaxCap /\ 1 + history.len <= Len(array') /\ array'[1 + history.len] = m
        /\ Len(array') <= MaxCap
    BY <1>3, <1>5 DEF len
  <2>2. \A i \in 1 .. history.len : array'[1 + i - 1] = Elements(array, history)[i]
    BY <1>5 DEF len, old
  <2> QED
    BY <1>2, <1>5, <2>1, <2>2, WindowIsLatest DEF old
<1>7. ASSUME NEW r \in Reader
      PROVE  /\ ReaderFits(r)' /\ Snapshot(r)' = Snapshot(r)
             /\ snapshot'[r] \in [array : Seq(Element) \cup {Shared}, place : Place]
  <2>1. snapshot[r] \in [array : Seq(Element) \cup {Shared}, place : Place] /\ array # Shared
    BY <1>3, HistoryAssumption DEF HistoryInv, HistoryTypeOK, Element
  <2>2. CASE snapshot[r].array = Shared
    <3>1. snapshot'[r] = [snapshot[r] EXCEPT !.array = array]
      BY <1>2, <2>2
    <3>2. snapshot'[r].array = array /\ snapshot'[r].place = snapshot[r].place
          /\ snapshot'[r] \in [array : Seq(Element) \cup {Shared}, place : Place]
      BY <1>3, <2>1, <3>1
    <3>3. Snapshot(r) = Elements(array, snapshot[r].place) /\ Fits(array, snapshot[r].place)
      BY <2>2, ReaderTypes
    <3> QED
      BY <2>1, <3>2, <3>3 DEF Snapshot, ReaderFits
  <2>3. CASE snapshot[r].array # Shared
    <3>1. snapshot'[r] = snapshot[r]
      BY <1>2, <2>3
    <3>2. Fits(snapshot[r].array, snapshot[r].place)
      BY <2>3, ReaderTypes
    <3> QED
      BY <2>1, <2>3, <3>1, <3>2 DEF Snapshot, ReaderFits
  <2> QED
    BY <2>2, <2>3
<1>8. HistoryTypeOK'
  <2>1. snapshot' \in [Reader -> [array : Seq(Element) \cup {Shared}, place : Place]]
    BY <1>2, <1>7
  <2> QED
    BY <1>5, <1>6, <2>1 DEF HistoryTypeOK, Element
<1>9. HistoryInv'
  BY <1>6, <1>7, <1>8 DEF HistoryInv
<1>10. Conversation!Say(m)
  BY <1>6, <1>7 DEF Conversation!Say, old
<1> QED
  BY <1>9, <1>10

\* A step that gives one reader an array and a place in it, and leaves the
\* conversation alone.
LEMMA ReadStep ==
    ASSUME HistoryInv, NEW r \in Reader, NEW e \in Seq(Element) \cup {Shared}, NEW s \in Place,
           snapshot' = [snapshot EXCEPT ![r] = [array |-> e, place |-> s]],
           UNCHANGED <<array, history>>,
           IF e = Shared THEN s = history ELSE Fits(e, s),
           NEW n \in Nat,
           Elements(IF e = Shared THEN array ELSE e, s) = Conversation!Latest(Elements(array, history), n)
    PROVE  HistoryInv' /\ Conversation!Read(r, n)
<1>1. /\ \A q \in Reader : snapshot'[q] = IF q = r THEN [array |-> e, place |-> s] ELSE snapshot[q]
      /\ snapshot' \in [Reader -> [array : Seq(Element) \cup {Shared}, place : Place]]
  BY DEF HistoryInv, HistoryTypeOK, Element
<1>2. HistoryTypeOK'
  BY <1>1 DEF HistoryInv, HistoryTypeOK, Element
<1>3. ASSUME NEW q \in Reader
      PROVE  /\ ReaderFits(q)'
             /\ Snapshot(q)' = IF q = r THEN Conversation!Latest(Elements(array, history), n)
                               ELSE Snapshot(q)
  <2>1. CASE q = r
    <3>1. snapshot'[q].array = e /\ snapshot'[q].place = s
      BY <1>1, <2>1
    <3>2. CASE e = Shared
      <4>1. End(history) \in Int
        BY DEF HistoryInv, HistoryTypeOK, Place, End
      <4>2. s = history /\ Elements(array, s) = Conversation!Latest(Elements(array, history), n)
        BY <3>2
      <4>3. Snapshot(q)' = Elements(array, s)
        BY <2>1, <3>1, <3>2 DEF Snapshot
      <4>4. ReaderFits(q)'
        BY <2>1, <3>1, <3>2, <4>1, <4>2 DEF ReaderFits
      <4> QED
        BY <2>1, <4>2, <4>3, <4>4
    <3>3. CASE e # Shared
      BY <2>1, <3>1, <3>3 DEF Snapshot, ReaderFits
    <3> QED
      BY <3>2, <3>3
  <2>2. CASE q # r
    <3>1. snapshot'[q] = snapshot[q]
      BY <1>1, <2>2
    <3> QED
      BY <2>2, <3>1 DEF Snapshot, ReaderFits, HistoryInv
  <2> QED
    BY <2>1, <2>2
<1>4. HistoryInv'
  BY <1>2, <1>3 DEF HistoryInv
<1>5. Conversation!Read(r, n)
  BY <1>3 DEF Conversation!Read
<1> QED
  BY <1>4, <1>5

\* A snapshot of the whole window.
LEMMA GetSessionSnapshotStep ==
    ASSUME HistoryInv, NEW r \in Reader, GetSessionSnapshot(r)
    PROVE  HistoryInv' /\ Conversation!Read(r, maxConversationHistory)
<1>1. /\ snapshot' = [snapshot EXCEPT ![r] = [array |-> Shared, place |-> history]]
      /\ UNCHANGED <<array, history>>
  BY DEF GetSessionSnapshot
<1>2. /\ history \in Place /\ maxConversationHistory \in Nat
      /\ Len(Elements(array, history)) <= maxConversationHistory
  <2>1. history \in Place /\ array \in Seq(Element)
    BY DEF HistoryInv, HistoryTypeOK, Element
  <2>2. Len(Elements(array, history)) = history.len
    BY <2>1, ElementsAre DEF HistoryInv
  <2> QED
    BY <2>1, <2>2, HistoryAssumption DEF Place
<1>3. Elements(array, history) = Conversation!Latest(Elements(array, history), maxConversationHistory)
  BY <1>2 DEF Conversation!Latest
<1>4. Shared \in Seq(Element) \cup {Shared}
  OBVIOUS
<1> QED
  BY <1>1, <1>2, <1>3, <1>4, ReadStep

\* An answer that is sent.
LEMMA SentStep ==
    ASSUME HistoryInv, NEW r \in Reader, Sent(r)
    PROVE  HistoryInv' /\ Conversation!Read(r, 0)
<1> DEFINE s == [first |-> 1, len |-> 0]
           old == Elements(array, history)
<1>1. /\ snapshot' = [snapshot EXCEPT ![r] = [array |-> <<>>, place |-> s]]
      /\ UNCHANGED <<array, history>>
  BY DEF Sent, NoSnapshot
<1>2. Elements(<<>>, s) = <<>>
  <2>1. Elements(<<>>, s) \in Seq(Element) /\ Len(Elements(<<>>, s)) = 0
    BY EmptyFits, ElementsAre
  <2> QED
    BY <2>1, EmptySeq
<1>3. Conversation!Latest(old, 0) = <<>>
  <2>1. old \in Seq(Element) /\ Len(old) \in Nat
    BY ElementsAre, LenProperties DEF HistoryInv, HistoryTypeOK, Element
  <2> HIDE DEF old
  <2>2. CASE Len(old) = 0
    BY <2>1, <2>2, EmptySeq DEF Conversation!Latest
  <2>3. CASE Len(old) > 0
    <3>1. Conversation!Latest(old, 0) \in Seq(Element) /\ Len(Conversation!Latest(old, 0)) = 0
      BY <2>1, <2>3, LatestAre
    <3> QED
      BY <3>1, EmptySeq
  <2> QED
    BY <2>1, <2>2, <2>3
<1> HIDE DEF s
<1> QED
  BY <1>1, <1>2, <1>3, EmptyFits, ReadStep DEF s

\* A prompt gets a copy of the last messages.
LEMMA BuildContextStep ==
    ASSUME HistoryInv, NEW r \in Reader, BuildContextForGemini(r)
    PROVE  HistoryInv' /\ Conversation!Read(r, maxContextMessages)
<1> DEFINE old == Elements(array, history)
           len == history.len
           start == IF len > maxContextMessages THEN len - maxContextMessages ELSE 0
           lines == SubSeq(old, start + 1, len)
           s == [first |-> 1, len |-> len - start]
<1>1. /\ snapshot' = [snapshot EXCEPT ![r] = [array |-> lines, place |-> s]]
      /\ UNCHANGED <<array, history>>
  BY DEF BuildContextForGemini
<1>2. /\ old \in Seq(Element) /\ Len(old) = len /\ len \in 0 .. maxConversationHistory
      /\ maxConversationHistory \in Nat /\ MaxCap \in Nat /\ maxContextMessages \in Nat
  BY ElementsAre, HistoryAssumption DEF HistoryInv, HistoryTypeOK, Element, Place
<1>3. start \in 0 .. len
  BY <1>2
<1> HIDE DEF old, len
<1>4. lines = Conversation!Latest(old, maxContextMessages)
  <2>1. CASE len > maxContextMessages
    BY <1>2, <2>1 DEF Conversation!Latest
  <2>2. CASE ~(len > maxContextMessages)
    <3>1. lines = SubSeq(old, 1, Len(old))
      BY <1>2, <2>2
    <3>2. Conversation!Latest(old, maxContextMessages) = old
      BY <1>2, <2>2 DEF Conversation!Latest
    <3> QED
      BY <1>2, <3>1, <3>2, SubSeqFull
  <2> QED
    BY <2>1, <2>2
<1> HIDE DEF start
<1>5. lines \in Seq(Element) /\ Len(lines) = len - start
  <2>1. \A i \in start + 1 .. len : old[i] \in Element
    <3> TAKE i \in start + 1 .. len
    <3>1. i \in 1 .. Len(old)
      BY <1>2, <1>3
    <3> QED
      BY <1>2, <3>1, ElementOfSeq
  <2>2. start + 1 \in Int /\ len \in Int
    BY <1>2, <1>3
  <2>3. /\ SubSeq(old, start + 1, len) \in Seq(Element)
        /\ Len(SubSeq(old, start + 1, len)) = IF start + 1 <= len THEN len - (start + 1) + 1 ELSE 0
    BY <2>1, <2>2, SubSeqProperties
  <2> QED
    BY <1>2, <1>3, <2>3
<1> HIDE DEF lines
<1>6. s \in Place /\ Fits(lines, s) /\ s.first = 1 /\ s.len = len - start
  <2>1. len - start \in 0 .. maxConversationHistory /\ 1 \in 1 .. MaxCap + 1
    BY <1>2, <1>3
  <2>2. s \in Place
    BY <2>1 DEF Place
  <2> QED
    BY <1>2, <1>3, <1>5, <2>2 DEF Fits, End
<1> HIDE DEF s
<1>7. Elements(lines, s) = lines
  <2>1. Elements(lines, s) = SubSeq(lines, 1, Len(lines))
    BY <1>2, <1>3, <1>5, <1>6 DEF Elements
  <2> QED
    BY <1>5, <2>1, SubSeqFull
<1>8. lines # Shared
  BY <1>5, HistoryAssumption DEF Element
<1> QED
  BY <1>1, <1>2, <1>4, <1>5, <1>6, <1>7, <1>8, ReadStep DEF old

LEMMA HistoryStep ==
    HistoryInv /\ [HistoryNext]_historyVars
        => HistoryInv' /\ [Conversation!Next]_Conversation!window
<1> SUFFICES ASSUME HistoryInv, [HistoryNext]_historyVars
             PROVE  HistoryInv' /\ [Conversation!Next]_Conversation!window
  OBVIOUS
<1>1. ASSUME NEW m \in Message, AddMessage(m) PROVE HistoryInv' /\ Conversation!Next
  BY <1>1, AddMessageStep DEF Conversation!Next
<1>2. ASSUME NEW m \in Message, AddMessageToNew(m) PROVE HistoryInv' /\ Conversation!Next
  BY <1>2, AddMessageToNewStep DEF Conversation!Next
<1>3. ASSUME NEW r \in Reader, GetSessionSnapshot(r) PROVE HistoryInv' /\ Conversation!Next
  BY <1>3, GetSessionSnapshotStep DEF Conversation!Next
<1>4. ASSUME NEW r \in Reader, BuildContextForGemini(r) PROVE HistoryInv' /\ Conversation!Next
  BY <1>4, BuildContextStep DEF Conversation!Next
<1>5. ASSUME NEW r \in Reader, Sent(r) PROVE HistoryInv' /\ Conversation!Next
  BY <1>5, SentStep DEF Conversation!Next
<1>6. CASE UNCHANGED historyVars
  <2>1. array' = array /\ history' = history /\ snapshot' = snapshot
    BY <1>6 DEF historyVars
  <2>2. HistoryInv'
    BY <2>1 DEF HistoryInv, HistoryTypeOK, ReaderFits, Fits
  <2>3. UNCHANGED Conversation!window
    BY <2>1 DEF Conversation!window, Elements, Snapshot
  <2> QED
    BY <2>2, <2>3
<1> QED
  BY <1>1, <1>2, <1>3, <1>4, <1>5, <1>6 DEF HistoryNext

\* A step of the reads is a step, or none, of each of the two parts.
LEMMA Parts == [Next]_vars => [HistoryNext]_historyVars /\ [ListingNext]_listingVars
  BY DEF Next, vars

\* The Go slices implement SlidingWindow: readers and prompts get the last
\* messages in order, and AddMessage never changes what a reader still uses,
\* whatever capacities append chooses.
THEOREM HistoryAlwaysKept == Spec => HistoryKept
<1>1. Init => HistoryInv
  BY HistoryInvInit DEF Init
<1>2. Init => Conversation!Init
  <2> SUFFICES ASSUME HistoryInit PROVE Conversation!Init
    BY DEF Init
  <2>1. Elements(<<>>, [first |-> 1, len |-> 0]) = <<>>
    <3>1. /\ Elements(<<>>, [first |-> 1, len |-> 0]) \in Seq(Element)
          /\ Len(Elements(<<>>, [first |-> 1, len |-> 0])) = 0
      BY EmptyFits, ElementsAre
    <3> QED
      BY <3>1, EmptySeq
  <2>2. \A r \in Reader : Snapshot(r) = <<>>
    BY <2>1, EmptyFits DEF HistoryInit, NoSnapshot, Snapshot
  <2> QED
    BY <2>1, <2>2 DEF HistoryInit, Conversation!Init
<1>3. HistoryInv /\ [Next]_vars => HistoryInv' /\ [Conversation!Next]_Conversation!window
  BY Parts, HistoryStep
<1>4. Spec => Conversation!Spec
  BY <1>1, <1>2, <1>3, PTL DEF Spec, Conversation!Spec
<1> QED
  BY <1>4 DEF HistoryKept

-----------------------------------------------------------------------------
(* Lists and pages.                                                        *)

LEMMA LesserOf ==
    ASSUME NEW a \in Int, NEW b \in Int
    PROVE  Min({a, b}) = IF a <= b THEN a ELSE b
<1>1. \E x \in {a, b} : \A y \in {a, b} : x <= y
  <2>1. CASE a <= b
    BY <2>1
  <2>2. CASE ~(a <= b)
    BY <2>2
  <2> QED
    BY <2>1, <2>2
<1>2. Min({a, b}) \in {a, b} /\ \A y \in {a, b} : Min({a, b}) <= y
  BY <1>1 DEF Min
<1> QED
  BY <1>2

\* A session's response.
LEMMA ResponseType ==
    ASSUME ListingTypeOK, NEW s \in DOMAIN sessions
    PROVE  toResponse(s) \in Response /\ toResponse(s).id = s /\ s \in Session
<1>1. s \in Session /\ sessions[s] \in Record
  BY DEF ListingTypeOK
<1> QED
  BY <1>1 DEF toResponse, Response

\* The sessions that match a query are responses, and no more than sessions.
LEMMA MatchesFinite ==
    ASSUME ListingTypeOK, NEW q
    PROVE  /\ filterSessions(q) \subseteq Response
           /\ \A r \in filterSessions(q) : r.id \in DOMAIN sessions /\ r = toResponse(r.id)
           /\ IsFiniteSet(filterSessions(q))
           /\ Cardinality(filterSessions(q)) \in Nat
           /\ Cardinality(filterSessions(q)) < IntLimit
<1>1. \A r \in filterSessions(q) :
          r \in Response /\ r.id \in DOMAIN sessions /\ r.id \in Session /\ r = toResponse(r.id)
  BY ResponseType DEF filterSessions
<1> DEFINE found == filterSessions(q)
           id == [r \in found |-> r.id]
<1> HIDE DEF found
<1>2. id \in Injection(found, Session)
  <2>1. id \in [found -> Session]
    BY <1>1 DEF found
  <2>2. \A r, t \in found : id[r] = id[t] => r = t
    BY <1>1 DEF found
  <2>3. DOMAIN id = found
    OBVIOUS
  <2> HIDE DEF id
  <2> QED
    BY <2>1, <2>2, <2>3 DEF Injection, IsInjective
<1> HIDE DEF id
<1>3. IsFiniteSet(found) /\ Cardinality(found) <= Cardinality(Session)
  BY <1>2, FS_Injection, ListingAssumption
<1>4. Cardinality(found) \in Nat /\ Cardinality(Session) \in Nat
  BY <1>3, FS_CardinalityType, ListingAssumption
<1>5. Cardinality(found) < IntLimit
  BY <1>3, <1>4, ListingAssumption
<1> QED
  BY <1>1, <1>3, <1>4, <1>5 DEF found

\* A list holds every session that matches once, and none that belongs before
\* one that is shown earlier.
LEMMA ListingIs ==
    ASSUME ListingTypeOK, NEW q, NEW list \in Listings(q)
    PROVE  /\ list \in Seq(Response) /\ Len(list) \in Nat /\ Len(list) < IntLimit
           /\ Len(list) = Cardinality(filterSessions(q))
           /\ \A i \in 1 .. Len(list) : list[i] \in filterSessions(q)
           /\ \A r \in filterSessions(q) : \E i \in 1 .. Len(list) : list[i] = r
           /\ \A i, j \in 1 .. Len(list) : i # j => list[i] # list[j]
           /\ \A i, j \in 1 .. Len(list) : i < j => ~Later(list[i], list[j], q)
<1> DEFINE found == filterSessions(q)
           n == Cardinality(found)
<1>1. n \in Nat /\ IsFiniteSet(found) /\ found \subseteq Response /\ n < IntLimit
  BY MatchesFinite
<1>2. list \in [1 .. n -> found] /\ \A i, j \in 1 .. n : i # j => list[i] # list[j]
  BY DEF Listings, SetToSeqs
<1>3. \A i, j \in 1 .. n : i < j => ~Later(list[i], list[j], q)
  BY <1>2 DEF Listings
<1> HIDE DEF n, found
<1>4. list \in Seq(Response) /\ Len(list) = n
  <2>1. list \in [1 .. n -> Response]
    BY <1>1, <1>2
  <2> QED
    BY <1>1, <2>1
<1>5. list \in Surjection(1 .. n, found)
  <2>1. list \in Injection(1 .. n, found)
    BY <1>2 DEF Injection, IsInjective
  <2>2. Cardinality(1 .. n) = n
    BY <1>1, FS_Interval
  <2> QED
    BY <1>1, <2>1, <2>2, FS_Injection DEF n
<1>6. \A r \in found : \E i \in 1 .. n : list[i] = r
  BY <1>5 DEF Surjection
<1>7. \A i \in 1 .. n : list[i] \in found
  BY <1>2
<1> QED
  BY <1>1, <1>2, <1>3, <1>4, <1>6, <1>7 DEF n, found

\* A page by its number, as far as numbers reach.
PageOf(list, size, p) ==
    IF (p - 1) * size >= Len(list) THEN <<>>
    ELSE SubSeq(list, (p - 1) * size + 1, Min({(p - 1) * size + size, Len(list)}))

\* What parsePagination makes of the parameters.
LEMMA Pagination ==
    ASSUME NEW q \in Query
    PROVE  Page(q) \in Nat \ {0} /\ PageSize(q) \in Nat \ {0} /\ Start(q) \in Int
<1>1. q.page \in Int /\ q.size \in Int
  <2>1. q \in Parameters
    BY ListingAssumption
  <2>2. q.page \in -IntLimit .. IntLimit - 1 /\ q.size \in -IntLimit .. IntLimit - 1
    BY <2>1 DEF Parameters
  <2> QED
    BY <2>2, ListingAssumption
<1>2. Page(q) \in Nat \ {0}
  BY <1>1 DEF Page
<1>3. PageSize(q) \in Nat \ {0}
  BY <1>1, ListingAssumption DEF PageSize
<1>4. Start(q) \in Int
  <2>1. \A n \in Int : Wrapped(n) \in Int
    BY ListingAssumption DEF Wrapped
  <2>2. (Page(q) - 1) * PageSize(q) \in Int
    BY <1>2, <1>3
  <2> QED
    BY <2>1, <2>2 DEF Start
<1> QED
  BY <1>2, <1>3, <1>4

\* A start that an int holds does not wrap.
LEMMA StartExact ==
    ASSUME NEW q \in Query, (Page(q) - 1) * PageSize(q) < IntLimit
    PROVE  Start(q) = (Page(q) - 1) * PageSize(q)
<1> DEFINE n == (Page(q) - 1) * PageSize(q)
<1>1. n \in Nat
  <2>1. \A a, b \in Nat : a * b \in Nat
    OBVIOUS
  <2>2. Page(q) - 1 \in Nat /\ PageSize(q) \in Nat
    BY Pagination
  <2> QED
    BY <2>1, <2>2
<1>2. n < IntLimit
  OBVIOUS
<1> HIDE DEF n
<1>3. n + IntLimit \in Nat /\ 2 * IntLimit \in Nat /\ n + IntLimit < 2 * IntLimit
  BY <1>1, <1>2, ListingAssumption
<1>4. \A a, b \in Nat : a < b => a % b = a
  OBVIOUS
<1>5. (n + IntLimit) % (2 * IntLimit) = n + IntLimit
  BY <1>3, <1>4
<1>6. Wrapped(n) = n
  BY <1>1, <1>5, ListingAssumption DEF Wrapped
<1> QED
  BY <1>6 DEF Start, n

\* A cut out of a list.
LEMMA CutIs ==
    ASSUME NEW S, NEW list \in Seq(S), NEW start \in Nat, NEW size \in Nat \ {0}, start < Len(list),
           NEW last, last = IF start + size <= Len(list) THEN start + size ELSE Len(list)
    PROVE  /\ SubSeq(list, start + 1, last) \in Seq(S)
           /\ last \in Nat /\ Len(SubSeq(list, start + 1, last)) = last - start
           /\ \A i \in 1 .. last - start : SubSeq(list, start + 1, last)[i] = list[start + i]
<1> DEFINE first == start + 1
           cut == SubSeq(list, first, last)
<1>1. Len(list) \in Nat
  BY LenProperties
<1>2. last \in Nat /\ first \in Nat \ {0} /\ first <= last /\ last <= Len(list) /\ last - first + 1 = last - start
  BY <1>1
<1>3. \A i \in first .. last : list[i] \in S
  <2> TAKE i \in first .. last
  <2>1. i \in 1 .. Len(list)
    BY <1>1, <1>2
  <2> QED
    BY <2>1, ElementOfSeq
<1>4. /\ cut \in Seq(S) /\ Len(cut) = last - first + 1
      /\ \A i \in 1 .. last - first + 1 : cut[i] = list[first + i - 1]
  <2> HIDE DEF first
  <2> QED
    BY <1>2, <1>3, SubSeqProperties
<1> HIDE DEF cut
<1>5. \A i \in 1 .. last - start : cut[i] = list[start + i]
  <2> TAKE i \in 1 .. last - start
  <2>1. i \in 1 .. last - first + 1 /\ first + i - 1 = start + i
    BY <1>2
  <2> HIDE DEF first
  <2> QED
    BY <1>4, <2>1
<1> QED
  BY <1>2, <1>4, <1>5 DEF cut

\* A set of natural numbers has a least element; intervals stand for numbers,
\* and the library orders finite sets.
LEMMA LeastNatural ==
    ASSUME NEW T \in SUBSET Nat, T # {}
    PROVE  \E m \in T : \A n \in T : m <= n
<1> DEFINE below == {0 .. (n - 1) : n \in T}
<1>1. below \subseteq FiniteSubsetsOf(Nat) /\ below # {}
  <2>1. ASSUME NEW n \in T PROVE 0 .. (n - 1) \in FiniteSubsetsOf(Nat)
    <3>1. n \in Nat
      OBVIOUS
    <3>2. IsFiniteSet(0 .. (n - 1)) /\ 0 .. (n - 1) \subseteq Nat
      BY <3>1, FS_Interval
    <3> QED
      BY <3>2 DEF FiniteSubsetsOf
  <2> QED
    BY <2>1
<1> HIDE DEF below
<1>2. PICK low \in below : \A b \in below : ~(<<b, low>> \in StrictSubsetOrdering(Nat))
  BY <1>1, WFMin, FS_StrictSubsetOrderingWellFounded
<1>3. PICK m \in T : low = 0 .. (m - 1)
  BY DEF below
<1>4. ASSUME NEW n \in T, n < m PROVE FALSE
  <2>1. n \in Nat /\ m \in Nat
    OBVIOUS
  <2>2. 0 .. (n - 1) \in below
    BY DEF below
  <2>3. 0 .. (n - 1) \subseteq low /\ 0 .. (n - 1) # low
    <3>1. n \in low /\ n \notin 0 .. (n - 1)
      BY <1>3, <1>4, <2>1
    <3>2. \A k \in 0 .. (n - 1) : k \in 0 .. (m - 1)
      BY <1>4, <2>1
    <3> QED
      BY <1>3, <3>1, <3>2
  <2>4. low \in SUBSET Nat /\ 0 .. (n - 1) \in SUBSET Nat
    BY <1>3, <2>1
  <2>5. <<0 .. (n - 1), low>> \in StrictSubsetOrdering(Nat)
    BY <2>3, <2>4 DEF StrictSubsetOrdering
  <2> QED
    BY <1>2, <2>2, <2>5
<1> QED
  BY <1>4

-----------------------------------------------------------------------------
(* Lists without ties.  The clock moves with every change, so no two       *)
(* sessions were created, or used last, at the same time, and a sort by    *)
(* time leaves one list.                                                   *)

DistinctTimes ==
    /\ \A s \in DOMAIN sessions : sessions[s].created <= time /\ sessions[s].active <= time
    /\ \A s, t \in DOMAIN sessions : s # t =>
           /\ sessions[s].created # sessions[t].created
           /\ sessions[s].active # sessions[t].active

\* Of two sessions, one is shown first.
LEMMA OneIsLater ==
    ASSUME ListingTypeOK, DistinctTimes, NEW q \in Query, q.sort # "status",
           NEW r \in filterSessions(q), NEW t \in filterSessions(q), r # t
    PROVE  Later(r, t, q) \/ Later(t, r, q)
<1>1. /\ r.id \in DOMAIN sessions /\ t.id \in DOMAIN sessions /\ r.id # t.id
      /\ r.data = sessions[r.id] /\ t.data = sessions[t.id]
  <2>1. /\ r.id \in DOMAIN sessions /\ t.id \in DOMAIN sessions
        /\ r = toResponse(r.id) /\ t = toResponse(t.id)
    BY MatchesFinite
  <2> QED
    BY <2>1 DEF toResponse
<1>2. /\ r.data.created \in Int /\ t.data.created \in Int /\ r.data.created # t.data.created
      /\ r.data.active \in Int /\ t.data.active \in Int /\ r.data.active # t.data.active
  <2>1. r.data \in Record /\ t.data \in Record
    BY <1>1 DEF ListingTypeOK
  <2>2. \A d \in Record : d.created \in Int /\ d.active \in Int
    BY ListingAssumption DEF Record
  <2> QED
    BY <1>1, <2>1, <2>2 DEF DistinctTimes
<1>3. q.sort = "created_at" \/ q.sort = "last_activity"
  BY ListingAssumption DEF Parameters
<1>4. CASE q.sort = "created_at"
  <2>1. /\ Before(r, t, q) <=> r.data.created < t.data.created
        /\ Before(t, r, q) <=> t.data.created < r.data.created
    BY <1>4 DEF Before
  <2>2. Before(r, t, q) \/ Before(t, r, q)
    BY <1>2, <2>1
  <2>3. CASE q.asc
    BY <2>2, <2>3 DEF Later
  <2>4. CASE ~q.asc
    BY <2>2, <2>4 DEF Later
  <2> QED
    BY <2>3, <2>4
<1>5. CASE q.sort = "last_activity"
  <2>1. /\ Before(r, t, q) <=> r.data.active < t.data.active
        /\ Before(t, r, q) <=> t.data.active < r.data.active
    BY <1>5 DEF Before
  <2>2. Before(r, t, q) \/ Before(t, r, q)
    BY <1>2, <2>1
  <2>3. CASE q.asc
    BY <2>2, <2>3 DEF Later
  <2>4. CASE ~q.asc
    BY <2>2, <2>4 DEF Later
  <2> QED
    BY <2>3, <2>4
<1> QED
  BY <1>3, <1>4, <1>5

\* There is one list: at the first place where two differed, each would show
\* behind the other what the other shows there.
LEMMA OneListing ==
    ASSUME ListingTypeOK, DistinctTimes, NEW q \in Query, q.sort # "status",
           NEW f \in Listings(q), NEW g \in Listings(q)
    PROVE  f = g
<1>1. /\ f \in Seq(Response) /\ g \in Seq(Response) /\ Len(f) = Len(g) /\ Len(f) \in Nat
  BY ListingIs
<1> DEFINE differ == {i \in 1 .. Len(f) : f[i] # g[i]}
<1>2. ASSUME differ # {} PROVE FALSE
  <2>1. differ \in SUBSET Nat
    BY <1>1
  <2>2. PICK n \in differ : \A k \in differ : n <= k
    <3> HIDE DEF differ
    <3> QED
      BY <1>2, <2>1, LeastNatural
  <2>3. n \in 1 .. Len(f) /\ f[n] # g[n] /\ \A k \in 1 .. Len(f) : k < n => f[k] = g[k]
    <3>1. n \in 1 .. Len(f) /\ f[n] # g[n]
      OBVIOUS
    <3>2. ASSUME NEW k \in 1 .. Len(f), k < n, f[k] # g[k] PROVE FALSE
      <4>1. k \in differ
        BY <3>2
      <4>2. n <= k
        BY <2>2, <4>1
      <4> QED
        BY <1>1, <3>2, <4>2
    <3> QED
      BY <3>1, <3>2
  <2> HIDE DEF differ
  <2>4. f[n] \in filterSessions(q) /\ g[n] \in filterSessions(q)
    BY <1>1, <2>3, ListingIs
  <2>5. PICK m \in 1 .. Len(f) : g[m] = f[n]
    BY <1>1, <2>4, ListingIs
  <2>6. PICK k \in 1 .. Len(f) : f[k] = g[n]
    BY <1>1, <2>4, ListingIs
  <2>7. m > n
    <3>1. m # n
      BY <2>3, <2>5
    <3>2. ASSUME m < n PROVE FALSE
      <4>1. f[m] = f[n]
        BY <2>3, <2>5, <3>2
      <4> QED
        BY <1>1, <2>3, <3>1, <4>1, ListingIs
    <3> QED
      BY <1>1, <2>3, <3>1, <3>2
  <2>8. k > n
    <3>1. k # n
      BY <2>3, <2>6
    <3>2. ASSUME k < n PROVE FALSE
      <4>1. g[k] = g[n]
        BY <2>3, <2>6, <3>2
      <4> QED
        BY <1>1, <2>3, <3>1, <4>1, ListingIs
    <3> QED
      BY <1>1, <2>3, <3>1, <3>2
  <2>9. ~Later(g[n], g[m], q) /\ ~Later(f[n], f[k], q)
    BY <1>1, <2>3, <2>7, <2>8, ListingIs
  <2>10. ~Later(g[n], f[n], q) /\ ~Later(f[n], g[n], q)
    BY <2>5, <2>6, <2>9
  <2> QED
    BY <2>3, <2>4, <2>10, OneIsLater
<1>3. \A i \in 1 .. Len(f) : f[i] = g[i]
  BY <1>2
<1> QED
  BY <1>1, <1>3, SeqEqual

-----------------------------------------------------------------------------
(* What a client holds.                                                    *)

\* A copy is what its ETag says, a page of a list or a session.
CopyMatches(c) ==
    \/ /\ c.query \in Session /\ c.etag \in Response
       /\ c.body = c.etag
    \/ /\ c.query \in Query /\ c.etag \in Seq(Response)
       /\ c.body = Body(c.etag, c.query)

\* The ETag is what the server would send now.
Vouched(c) ==
    \/ c.query \in Query /\ c.etag \in Listings(c.query)
    \/ c.query \in DOMAIN sessions /\ c.etag = toResponse(c.query)

\* The pages of a walk are those of the list that the copy was cut from.
Walked(c) ==
    /\ c.query \in Query /\ c.etag \in Listings(c.query)
    /\ c.query.sort # "status" =>
           \A p \in 1 .. Len(walk) :
               (p - 1) * PageSize(c.query) < IntLimit
                   => walk[p] = PageOf(c.etag, PageSize(c.query), p)

ListingInv ==
    /\ ListingTypeOK
    /\ DistinctTimes
    /\ \A c, d \in copy : c = d
    /\ \A c \in copy :
           /\ CopyMatches(c)
           /\ confirmed => Vouched(c)
           /\ walk # <<>> => Walked(c)

\* The type of a copy, from what it matches.
LEMMA CopyType ==
    ASSUME NEW c, CopyMatches(c)
    PROVE  IF c.query \in Session THEN c.etag \in Response
           ELSE c.query \in Query /\ c.etag \in Seq(Response)
  BY ListingAssumption DEF CopyMatches

\* There is at most one copy.
LEMMA OneCopy ==
    ASSUME NEW S, \A c, d \in S : c = d PROVE Cardinality(S) <= 1
<1>1. CASE S = {}
  BY <1>1, FS_EmptySet
<1>2. CASE S # {}
  <2>1. PICK c \in S : TRUE
    BY <1>2
  <2>2. S = {c}
    BY <2>1
  <2>3. Cardinality({c}) = 1
    BY FS_Singleton
  <2> QED
    BY <2>2, <2>3
<1> QED
  BY <1>1, <1>2

LEMMA ListingInvInit == ListingInit => ListingInv
<1> SUFFICES ASSUME ListingInit PROVE ListingInv
  OBVIOUS
<1>1. sessions = <<>> /\ DOMAIN sessions = {} /\ sessions = [s \in {} |-> sessions[s]]
  BY DEF ListingInit
<1>2. DistinctTimes
  BY <1>1 DEF DistinctTimes
<1>3. ListingTypeOK
  <2>1. Cardinality(copy) <= 1
    BY OneCopy DEF ListingInit
  <2>2. sessions \in [DOMAIN sessions -> Record] /\ DOMAIN sessions \subseteq Session
    BY <1>1
  <2>3. time \in 0 .. MaxTime /\ confirmed \in BOOLEAN /\ copy = {}
    <3>1. MaxTime \in Nat
      BY ListingAssumption
    <3>2. time = 0 /\ confirmed = FALSE /\ copy = {}
      BY DEF ListingInit
    <3>3. time \in 0 .. MaxTime
      BY <3>1, <3>2
    <3>4. confirmed \in BOOLEAN
      BY <3>2
    <3> QED
      BY <3>2, <3>3, <3>4
  <2>4. walk \in Seq(Seq(Response))
    BY EmptySeq DEF ListingInit
  <2> QED
    BY <2>1, <2>2, <2>3, <2>4 DEF ListingTypeOK
<1> QED
  BY <1>2, <1>3 DEF ListingInv, ListingInit

\* A change of one session: nothing is confirmed, no walk goes on, and the
\* times it sets are new.
LEMMA ChangeStep ==
    ASSUME ListingInv, Change, NEW s,
           DOMAIN sessions' \subseteq Session, sessions' \in [DOMAIN sessions' -> Record],
           \A t \in DOMAIN sessions' : t # s => t \in DOMAIN sessions /\ sessions'[t] = sessions[t],
           s \in DOMAIN sessions' =>
               /\ sessions'[s].active = time'
               /\ \/ sessions'[s].created = time'
                  \/ s \in DOMAIN sessions /\ sessions'[s].created = sessions[s].created
    PROVE  ListingInv'
<1>1. time' \in 0 .. MaxTime /\ confirmed' = FALSE /\ walk' = <<>> /\ copy' = copy
  BY ListingAssumption DEF Change, ListingInv, ListingTypeOK
<1>2. time' = time + 1 /\ time \in Int
  BY DEF Change, ListingInv, ListingTypeOK
<1>3. ListingTypeOK'
  <2>1. walk' \in Seq(Seq(Response))
    BY <1>1, EmptySeq
  <2>2. /\ \A c \in copy' : IF c.query \in Session THEN c.etag \in Response
                            ELSE c.query \in Query /\ c.etag \in Seq(Response)
        /\ Cardinality(copy') <= 1
    BY <1>1 DEF ListingInv, ListingTypeOK
  <2> QED
    BY <1>1, <2>1, <2>2 DEF ListingTypeOK
<1>4. DistinctTimes'
  <2>1. \A t \in DOMAIN sessions :
            /\ sessions[t].created \in Int /\ sessions[t].active \in Int
            /\ sessions[t].created <= time /\ sessions[t].active <= time
    <3> TAKE t \in DOMAIN sessions
    <3>1. sessions[t] \in Record
      BY DEF ListingInv, ListingTypeOK
    <3>2. sessions[t].created \in Int /\ sessions[t].active \in Int
      BY <3>1, ListingAssumption DEF Record
    <3> QED
      BY <3>2 DEF ListingInv, DistinctTimes
  <2>2. \A t, u \in DOMAIN sessions : t # u =>
            sessions[t].created # sessions[u].created /\ sessions[t].active # sessions[u].active
    BY DEF ListingInv, DistinctTimes
  <2>3. ASSUME NEW t \in DOMAIN sessions'
        PROVE  sessions'[t].created <= time' /\ sessions'[t].active <= time'
    <3>1. CASE t = s
      BY <1>2, <2>1, <3>1
    <3>2. CASE t # s
      BY <1>2, <2>1, <3>2
    <3> QED
      BY <3>1, <3>2
  <2>4. ASSUME NEW t \in DOMAIN sessions', t # s, s \in DOMAIN sessions'
        PROVE  sessions'[t].created # sessions'[s].created /\ sessions'[t].active # sessions'[s].active
    <3>1. t \in DOMAIN sessions /\ sessions'[t] = sessions[t]
      BY <2>4
    <3>2. sessions[t].active # time' /\ sessions[t].created # time'
      BY <1>2, <2>1, <3>1
    <3> QED
      BY <2>2, <2>4, <3>1, <3>2
  <2>5. ASSUME NEW t \in DOMAIN sessions', NEW u \in DOMAIN sessions', t # u
        PROVE  sessions'[t].created # sessions'[u].created /\ sessions'[t].active # sessions'[u].active
    <3>1. CASE t = s \/ u = s
      BY <2>4, <2>5, <3>1
    <3>2. CASE t # s /\ u # s
      BY <2>2, <2>5, <3>2
    <3> QED
      BY <3>1, <3>2
  <2> QED
    BY <2>3, <2>5 DEF DistinctTimes
<1> QED
  BY <1>1, <1>3, <1>4 DEF ListingInv, CopyMatches, Body, paginateSessions, totalPages

LEMMA CreateSessionStep ==
    ASSUME ListingInv, NEW s \in Session, NEW b \in Brand, CreateSession(s, b)
    PROVE  ListingInv'
<1> DEFINE new == [brand |-> b, problem |-> NoProblem, created |-> time', active |-> time']
<1>1. /\ Change
      /\ DOMAIN sessions' = DOMAIN sessions \cup {s}
      /\ \A t \in DOMAIN sessions' : sessions'[t] = IF t = s THEN new ELSE sessions[t]
      /\ sessions' = [t \in DOMAIN sessions' |-> sessions'[t]]
  BY DEF CreateSession
<1>2. time' \in 1 .. MaxTime
  BY <1>1, ListingAssumption DEF Change, ListingInv, ListingTypeOK
<1>3. new \in Record /\ new.active = time' /\ new.created = time'
  BY <1>2 DEF Record
<1> HIDE DEF new
<1>4. DOMAIN sessions' \subseteq Session /\ sessions' \in [DOMAIN sessions' -> Record]
  <2>1. DOMAIN sessions' \subseteq Session
    BY <1>1 DEF ListingInv, ListingTypeOK
  <2>2. \A t \in DOMAIN sessions' : sessions'[t] \in Record
    BY <1>1, <1>3 DEF ListingInv, ListingTypeOK
  <2> QED
    BY <1>1, <2>1, <2>2
<1> QED
  BY <1>1, <1>3, <1>4, ChangeStep

LEMMA RemoveSessionStep ==
    ASSUME ListingInv, NEW s \in Session, RemoveSession(s)
    PROVE  ListingInv'
<1>1. /\ Change
      /\ DOMAIN sessions' = DOMAIN sessions \ {s}
      /\ \A t \in DOMAIN sessions' : sessions'[t] = sessions[t]
      /\ sessions' = [t \in DOMAIN sessions' |-> sessions'[t]]
  BY DEF RemoveSession, Restrict
<1>2. DOMAIN sessions' \subseteq Session /\ sessions' \in [DOMAIN sessions' -> Record]
  BY <1>1 DEF ListingInv, ListingTypeOK
<1> QED
  BY <1>1, <1>2, ChangeStep

\* A session that is changed where it is.
LEMMA UpdateStep ==
    ASSUME ListingInv, NEW s \in DOMAIN sessions, Change, NEW r \in Record,
           sessions' = [sessions EXCEPT ![s] = r],
           r.active = time', r.created = sessions[s].created
    PROVE  ListingInv'
<1>1. /\ sessions' \in [DOMAIN sessions -> Record] /\ DOMAIN sessions' = DOMAIN sessions
      /\ \A t \in DOMAIN sessions : sessions'[t] = IF t = s THEN r ELSE sessions[t]
  BY DEF ListingInv, ListingTypeOK
<1>2. DOMAIN sessions \subseteq Session
  BY DEF ListingInv, ListingTypeOK
<1> QED
  BY <1>1, <1>2, ChangeStep

LEMMA TouchStep ==
    ASSUME ListingInv, NEW s \in Session, Touch(s)
    PROVE  ListingInv'
<1> DEFINE r == [sessions[s] EXCEPT !.active = time']
<1>1. s \in DOMAIN sessions /\ Change /\ sessions' = [sessions EXCEPT ![s] = r]
  BY DEF Touch
<1>2. time' \in 1 .. MaxTime /\ sessions[s] \in Record
  BY <1>1, ListingAssumption DEF Change, ListingInv, ListingTypeOK
<1>3. r \in Record /\ r.active = time' /\ r.created = sessions[s].created
  BY <1>2 DEF Record
<1> HIDE DEF r
<1> QED
  BY <1>1, <1>3, UpdateStep

LEMMA SetProblemDetectedStep ==
    ASSUME ListingInv, NEW s \in Session, NEW p \in Problem, SetProblemDetected(s, p)
    PROVE  ListingInv'
<1> DEFINE r == [sessions[s] EXCEPT !.active = time', !.problem = p]
<1>1. s \in DOMAIN sessions /\ Change
  BY DEF SetProblemDetected
<1>2. sessions' = [sessions EXCEPT ![s] = r]
  <2>1. sessions \in [DOMAIN sessions -> Record] /\ sessions[s] \in Record
    BY <1>1 DEF ListingInv, ListingTypeOK
  <2> QED
    BY <1>1, <2>1 DEF SetProblemDetected
<1>3. time' \in 1 .. MaxTime /\ sessions[s] \in Record
  BY <1>1, ListingAssumption DEF Change, ListingInv, ListingTypeOK
<1>4. r \in Record /\ r.active = time' /\ r.created = sessions[s].created
  BY <1>3 DEF Record
<1> HIDE DEF r
<1> QED
  BY <1>1, <1>2, <1>4, UpdateStep

\* Reads leave what would be read alone.
LEMMA SameListings ==
    ASSUME UNCHANGED sessions, NEW q
    PROVE  Listings(q)' = Listings(q) /\ filterSessions(q)' = filterSessions(q)
<1>1. filterSessions(q)' = filterSessions(q)
  BY DEF filterSessions, toResponse
<1> QED
  BY <1>1 DEF Listings

\* The page that a request gets.
LEMMA PageIs ==
    ASSUME NEW q \in Query, NEW list \in Seq(Response), Start(q) >= 0
    PROVE  /\ paginateSessions(list, q) \in Seq(Response)
           /\ (Page(q) - 1) * PageSize(q) < IntLimit
                  => paginateSessions(list, q) = PageOf(list, PageSize(q), Page(q))
<1>1. Start(q) \in Nat /\ PageSize(q) \in Nat \ {0} /\ Len(list) \in Nat
  BY Pagination, LenProperties
<1>2. paginateSessions(list, q) \in Seq(Response)
  <2>1. CASE Start(q) >= Len(list)
    BY <2>1, EmptySeq DEF paginateSessions
  <2>2. CASE ~(Start(q) >= Len(list))
    <3> DEFINE start == Start(q)
               size == PageSize(q)
               last == Min({start + size, Len(list)})
    <3>1. start \in Nat /\ size \in Nat \ {0} /\ start < Len(list)
      BY <1>1, <2>2
    <3>2. paginateSessions(list, q) = SubSeq(list, start + 1, last)
      BY <2>2 DEF paginateSessions
    <3> HIDE DEF start, size
    <3>3. last = IF start + size <= Len(list) THEN start + size ELSE Len(list)
      BY <1>1, <3>1, LesserOf
    <3> HIDE DEF last
    <3> QED
      BY <3>1, <3>2, <3>3, CutIs
  <2> QED
    BY <2>1, <2>2
<1>3. ASSUME (Page(q) - 1) * PageSize(q) < IntLimit
      PROVE  paginateSessions(list, q) = PageOf(list, PageSize(q), Page(q))
  <2>1. Start(q) = (Page(q) - 1) * PageSize(q)
    BY <1>3, StartExact
  <2> QED
    BY <2>1 DEF paginateSessions, PageOf
<1> QED
  BY <1>2, <1>3

\* Queries for the pages of one list.
LEMMA SameQuery ==
    ASSUME NEW q \in Query, NEW c \in Query, q = [c EXCEPT !.page = q.page]
    PROVE  PageSize(q) = PageSize(c) /\ q.sort = c.sort /\ Listings(q) = Listings(c)
<1>1. c \in Parameters
  BY ListingAssumption
<1>2. /\ q.size = c.size /\ q.sort = c.sort /\ q.asc = c.asc
      /\ q.status = c.status /\ q.brand = c.brand /\ q.problem = c.problem
  BY <1>1 DEF Parameters
<1>3. PageSize(q) = PageSize(c)
  BY <1>2 DEF PageSize
<1>4. \A r : Matches(r, q) <=> Matches(r, c)
  BY <1>2 DEF Matches
<1>5. filterSessions(q) = filterSessions(c)
  BY <1>4 DEF filterSessions
<1>6. \A r, t : Before(r, t, q) <=> Before(r, t, c)
  BY <1>2 DEF Before
<1>7. \A r, t : Later(r, t, q) <=> Later(r, t, c)
  BY <1>2, <1>6 DEF Later
<1>8. Listings(q) = Listings(c)
  BY <1>5, <1>7 DEF Listings
<1> QED
  BY <1>2, <1>3, <1>8

\* A 200 with a list: a walk begins, goes on with the list it was cut from, or
\* is over.
LEMMA ListSessionsStep ==
    ASSUME ListingInv, NEW q \in Query, ListSessions(q)
    PROVE  ListingInv'
<1>1. PICK list \in Listings(q) :
          /\ Start(q) >= 0
          /\ copy' = {[query |-> q, etag |-> list, body |-> Body(list, q)]}
          /\ confirmed' = FALSE
          /\ walk' = IF Page(q) = 1 THEN <<paginateSessions(list, q)>> ELSE
                     IF \E c \in copy : walk # <<>> /\ Page(q) = Len(walk) + 1 /\ q = [c.query EXCEPT !.page = q.page]
                     THEN Append(walk, paginateSessions(list, q)) ELSE <<>>
          /\ UNCHANGED <<sessions, time>>
  BY DEF ListSessions, sessionListETag
<1> DEFINE c1 == [query |-> q, etag |-> list, body |-> Body(list, q)]
           page == paginateSessions(list, q)
           goesOn == \E c \in copy : walk # <<>> /\ Page(q) = Len(walk) + 1 /\ q = [c.query EXCEPT !.page = q.page]
<1>2. list \in Seq(Response) /\ ListingTypeOK /\ DistinctTimes
  BY ListingIs DEF ListingInv
<1>3. c1.query = q /\ c1.etag = list /\ c1.body = Body(list, q)
  OBVIOUS
<1>4. copy' = {c1} /\ confirmed' = FALSE /\ sessions' = sessions /\ time' = time
  BY <1>1
<1>5. walk' = IF Page(q) = 1 THEN <<page>> ELSE IF goesOn THEN Append(walk, page) ELSE <<>>
  BY <1>1
<1> HIDE DEF c1
<1>6. Listings(q)' = Listings(q)
  BY <1>4, SameListings
<1>7. /\ page \in Seq(Response)
      /\ (Page(q) - 1) * PageSize(q) < IntLimit => page = PageOf(list, PageSize(q), Page(q))
  BY <1>1, <1>2, PageIs
<1>8. walk \in Seq(Seq(Response))
  BY <1>2 DEF ListingTypeOK
<1>9. CopyMatches(c1)
  BY <1>2, <1>3 DEF CopyMatches
<1>10. /\ walk' \in Seq(Seq(Response))
       /\ q.sort # "status" =>
              \A p \in 1 .. Len(walk') :
                  (p - 1) * PageSize(q) < IntLimit => walk'[p] = PageOf(list, PageSize(q), p)
  <2> HIDE DEF page
  <2>1. CASE Page(q) = 1
    <3>1. walk' = <<page>> /\ walk' \in Seq(Seq(Response)) /\ Len(walk') = 1 /\ walk'[1] = page
      BY <1>5, <1>7, <2>1
    <3>2. \A p \in 1 .. Len(walk') : p = Page(q) /\ walk'[p] = page
      BY <2>1, <3>1
    <3> QED
      BY <1>7, <3>1, <3>2
  <2>2. CASE Page(q) # 1 /\ goesOn
    <3>1. PICK c \in copy : walk # <<>> /\ Page(q) = Len(walk) + 1 /\ q = [c.query EXCEPT !.page = q.page]
      BY <2>2
    <3> HIDE DEF goesOn
    <3>2. Walked(c)
      BY <3>1 DEF ListingInv
    <3>3. PageSize(q) = PageSize(c.query) /\ q.sort = c.query.sort /\ Listings(q) = Listings(c.query)
      BY <3>1, <3>2, SameQuery DEF Walked
    <3>4. /\ walk' = Append(walk, page) /\ Len(walk) \in Nat
          /\ walk' \in Seq(Seq(Response)) /\ Len(walk') = Len(walk) + 1
          /\ walk'[Len(walk) + 1] = page /\ \A p \in 1 .. Len(walk) : walk'[p] = walk[p]
      BY <1>5, <1>7, <1>8, <2>2, AppendProperties, LenProperties
    <3>5. ASSUME q.sort # "status", NEW p \in 1 .. Len(walk'), (p - 1) * PageSize(q) < IntLimit
          PROVE  walk'[p] = PageOf(list, PageSize(q), p)
      <4>1. CASE p = Len(walk) + 1
        BY <1>7, <3>1, <3>4, <3>5, <4>1
      <4>2. CASE p # Len(walk) + 1
        <5>1. p \in 1 .. Len(walk)
          BY <3>4, <4>2
        <5>2. walk[p] = PageOf(c.etag, PageSize(q), p)
          BY <3>2, <3>3, <3>5, <5>1 DEF Walked
        <5>3. c.etag = list
          BY <1>2, <3>2, <3>3, <3>5, OneListing DEF Walked
        <5> QED
          BY <3>4, <5>1, <5>2, <5>3
      <4> QED
        BY <4>1, <4>2
    <3> QED
      BY <3>4, <3>5
  <2>3. CASE Page(q) # 1 /\ ~goesOn
    <3>1. walk' = <<>>
      BY <1>5, <2>3
    <3> QED
      BY <3>1, EmptySeq
  <2> QED
    BY <2>1, <2>2, <2>3
<1> HIDE DEF page, goesOn
<1>11. Walked(c1)'
  BY <1>3, <1>6, <1>10 DEF Walked
<1>12. ListingTypeOK'
  <2>1. Cardinality(copy') <= 1
    BY <1>4, OneCopy
  <2>2. \A c \in copy' : IF c.query \in Session THEN c.etag \in Response
                         ELSE c.query \in Query /\ c.etag \in Seq(Response)
    BY <1>4, <1>9, CopyType
  <2> QED
    BY <1>2, <1>4, <1>10, <2>1, <2>2 DEF ListingTypeOK
<1>13. CopyMatches(c1)'
  BY <1>9 DEF CopyMatches
<1> QED
  BY <1>2, <1>4, <1>11, <1>12, <1>13 DEF ListingInv, DistinctTimes

\* A 200 with a session.
LEMMA GetSessionStep ==
    ASSUME ListingInv, NEW s \in Session, GetSession(s)
    PROVE  ListingInv'
<1> DEFINE c1 == [query |-> s, etag |-> toResponse(s), body |-> toResponse(s)]
<1>1. s \in DOMAIN sessions /\ copy' = {c1} /\ confirmed' = FALSE /\ walk' = <<>>
      /\ UNCHANGED <<sessions, time>>
  BY DEF GetSession, sessionETag
<1>2. CopyMatches(c1)
  BY <1>1, ResponseType DEF CopyMatches, ListingInv
<1> HIDE DEF c1
<1>3. ListingTypeOK'
  <2>1. Cardinality(copy') <= 1
    BY <1>1, OneCopy
  <2>2. \A c \in copy' : IF c.query \in Session THEN c.etag \in Response
                         ELSE c.query \in Query /\ c.etag \in Seq(Response)
    BY <1>1, <1>2, CopyType
  <2>3. walk' \in Seq(Seq(Response))
    BY <1>1, EmptySeq
  <2> QED
    BY <1>1, <2>1, <2>2, <2>3 DEF ListingInv, ListingTypeOK
<1>4. \A c \in copy' : c = c1 /\ CopyMatches(c)
  BY <1>1, <1>2
<1> QED
  BY <1>1, <1>3, <1>4 DEF ListingInv, DistinctTimes, CopyMatches

\* A 304.
LEMMA NotModifiedStep ==
    ASSUME ListingInv, NotModified
    PROVE  ListingInv'
<1>1. /\ confirmed' = TRUE
      /\ sessions' = sessions /\ time' = time /\ copy' = copy /\ walk' = walk
  BY DEF NotModified
<1>2. PICK c \in copy :
          \/ c.query \in Query /\ c.etag \in Listings(c.query)
          \/ c.query \in DOMAIN sessions /\ c.etag = toResponse(c.query)
  BY DEF NotModified, sessionListETag, sessionETag
<1>3. \A d \in copy : Vouched(d)
  BY <1>2 DEF ListingInv, Vouched
<1>4. \A q : Listings(q)' = Listings(q)
  BY <1>1, SameListings
<1>5. \A d \in copy : Vouched(d)'
  BY <1>1, <1>3, <1>4 DEF Vouched, toResponse
<1>6. \A d \in copy : walk # <<>> => Walked(d)'
  BY <1>1, <1>4 DEF ListingInv, Walked
<1> QED
  BY <1>1, <1>5, <1>6 DEF ListingInv, ListingTypeOK, DistinctTimes, CopyMatches

LEMMA ListingStep == ListingInv /\ [ListingNext]_listingVars => ListingInv'
<1> SUFFICES ASSUME ListingInv, [ListingNext]_listingVars PROVE ListingInv'
  OBVIOUS
<1>1. CASE UNCHANGED listingVars
  <2>1. /\ sessions' = sessions /\ time' = time /\ copy' = copy /\ walk' = walk
        /\ confirmed' = confirmed
    BY <1>1 DEF listingVars
  <2>2. \A q : Listings(q)' = Listings(q)
    BY <2>1, SameListings
  <2>3. \A c \in copy : (confirmed => Vouched(c)') /\ (walk # <<>> => Walked(c)')
    BY <2>1, <2>2 DEF ListingInv, Vouched, Walked, toResponse
  <2> QED
    BY <2>1, <2>3 DEF ListingInv, ListingTypeOK, DistinctTimes, CopyMatches
<1> QED
  BY <1>1, CreateSessionStep, RemoveSessionStep, TouchStep, SetProblemDetectedStep,
     ListSessionsStep, GetSessionStep, NotModifiedStep DEF ListingNext

-----------------------------------------------------------------------------
(* A whole walk.                                                           *)

\* Division leaves a remainder.
LEMMA Division ==
    ASSUME NEW a \in Nat, NEW b \in Nat \ {0}
    PROVE  /\ a \div b \in Nat /\ a % b \in Nat /\ (a % b) < b
           /\ a = ((a \div b) * b) + (a % b)
<1>1. a \div b \in Nat /\ a % b \in Nat /\ (a % b) < b /\ a = (b * (a \div b)) + (a % b)
  OBVIOUS
<1>2. b * (a \div b) = (a \div b) * b
  BY <1>1
<1> QED
  BY <1>1, <1>2

\* More pages hold more.
LEMMA MorePages ==
    ASSUME NEW a \in Nat, NEW b \in Nat, NEW size \in Nat
    PROVE  /\ a * size \in Nat /\ b * size \in Nat
           /\ (a + 1) * size = (a * size) + size
           /\ a <= b => a * size <= b * size
<1>1. a * size \in Nat /\ b * size \in Nat
  OBVIOUS
<1>2. (a + 1) * size = (a * size) + size
  OBVIOUS
<1>3. a <= b => a * size <= b * size
  OBVIOUS
<1> QED
  BY <1>1, <1>2, <1>3

\* What the last page of a list is for.
LEMMA PagesCover ==
    ASSUME NEW n \in Nat \ {0}, NEW size \in Nat \ {0}, NEW pages,
           pages = n \div size + IF (n % size) # 0 THEN 1 ELSE 0
    PROVE  pages \in Nat \ {0} /\ (pages - 1) * size < n /\ n <= pages * size
<1> DEFINE d == n \div size
           m == n % size
           full == d * size
<1>1. d \in Nat /\ m \in Nat /\ m < size /\ n = full + m
  BY Division
<1>2. pages = d + IF m # 0 THEN 1 ELSE 0
  OBVIOUS
<1> HIDE DEF d, m
<1>3. full \in Nat /\ (d + 1) * size = full + size
  BY <1>1, MorePages
<1>4. CASE m = 0
  <2>1. pages = d /\ n = full
    <3> HIDE DEF full
    <3> QED
      BY <1>1, <1>2, <1>3, <1>4
  <2>2. d # 0
    <3>1. 0 * size = 0
      OBVIOUS
    <3> QED
      BY <2>1, <3>1
  <2>3. d - 1 \in Nat /\ (d - 1) + 1 = d
    BY <1>1, <2>2
  <2> DEFINE less == (d - 1) * size
  <2>4. less \in Nat /\ full = less + size
    BY <2>3, MorePages
  <2>5. pages \in Nat \ {0} /\ (pages - 1) * size = less /\ pages * size = full
    BY <1>1, <2>1, <2>2
  <2> HIDE DEF less, full
  <2> QED
    BY <2>1, <2>4, <2>5
<1>5. CASE m # 0
  <2>1. pages = d + 1 /\ pages - 1 = d
    BY <1>1, <1>2, <1>5
  <2>2. pages \in Nat \ {0} /\ (pages - 1) * size = full /\ pages * size = full + size
    BY <1>1, <1>3, <2>1
  <2> HIDE DEF full
  <2> QED
    BY <1>1, <1>3, <1>5, <2>2
<1> QED
  BY <1>4, <1>5

\* The place in the list of what is shown at a place of a walk.
At(x, size) == (x[1] - 1) * size + x[2]

\* What a page shows.
LEMMA PageShows ==
    ASSUME NEW list \in Seq(Response), NEW size \in Nat \ {0}, NEW start \in Nat, start < Len(list)
    PROVE  LET page == SubSeq(list, start + 1, Min({start + size, Len(list)}))
           IN  /\ \A i \in Nat : i \in DOMAIN page <=> i >= 1 /\ i <= size /\ start + i <= Len(list)
               /\ \A i \in DOMAIN page : i \in Nat /\ page[i] = list[start + i]
<1> DEFINE last == Min({start + size, Len(list)})
           page == SubSeq(list, start + 1, last)
<1>1. Len(list) \in Nat
  BY LenProperties
<1>2. last = IF start + size <= Len(list) THEN start + size ELSE Len(list)
  BY <1>1, LesserOf
<1> HIDE DEF last
<1>3. /\ page \in Seq(Response) /\ last \in Nat /\ Len(page) = last - start
      /\ \A i \in 1 .. last - start : page[i] = list[start + i]
  BY <1>2, CutIs
<1> HIDE DEF page
<1>4. DOMAIN page = 1 .. last - start
  BY <1>1, <1>3
<1>5. \A i \in Nat : i \in 1 .. last - start <=> i >= 1 /\ i <= size /\ start + i <= Len(list)
  BY <1>1, <1>2
<1>6. /\ \A i \in Nat : i \in DOMAIN page <=> i >= 1 /\ i <= size /\ start + i <= Len(list)
      /\ \A i \in DOMAIN page : i \in Nat /\ page[i] = list[start + i]
  BY <1>1, <1>3, <1>4, <1>5
<1> QED
  BY <1>6, Zenon DEF page, last

\* A complete walk shows the whole list: places and indices correspond.
LEMMA WalkShows ==
    ASSUME NEW list \in Seq(Response), NEW size \in Nat \ {0}, Len(list) < IntLimit,
           walk \in Seq(Seq(Response)),
           Len(walk) = IF list = <<>> THEN 1
                       ELSE Len(list) \div size + IF (Len(list) % size) # 0 THEN 1 ELSE 0,
           \A p \in 1 .. Len(walk) :
               (p - 1) * size < IntLimit => walk[p] = PageOf(list, size, p)
    PROVE  /\ \A x \in Places : /\ x[1] \in Nat \ {0} /\ x[2] \in 1 .. size
                                /\ At(x, size) \in 1 .. Len(list) /\ Shown(x) = list[At(x, size)]
           /\ \A n \in 1 .. Len(list) : \E x \in Places : At(x, size) = n
<1> DEFINE n == Len(list)
           pages == Len(walk)
<1>1. n \in Nat /\ pages \in Nat /\ DOMAIN walk = 1 .. pages /\ IntLimit \in Nat \ {0} /\ n < IntLimit
  BY LenProperties, ListingAssumption
<1>2. CASE list = <<>>
  <2>1. n = 0 /\ pages = 1
    BY <1>2
  <2>2. walk[1] = <<>>
    <3>1. 1 \in 1 .. Len(walk) /\ (1 - 1) * size = 0
      BY <2>1
    <3>2. walk[1] = PageOf(list, size, 1)
      BY <1>1, <3>1
    <3> QED
      BY <2>1, <3>1, <3>2 DEF PageOf
  <2>3. Places = {}
    BY <1>1, <2>1, <2>2 DEF Places
  <2> QED
    BY <2>1, <2>3
<1>3. CASE list # <<>>
  <2>1. n \in Nat \ {0}
    BY <1>1, <1>3, EmptySeq
  <2>2. pages \in Nat \ {0} /\ (pages - 1) * size < n /\ n <= pages * size
    <3>1. pages = n \div size + IF (n % size) # 0 THEN 1 ELSE 0
      BY <1>3
    <3> HIDE DEF n, pages
    <3> QED
      BY <2>1, <3>1, PagesCover
  <2>3. ASSUME NEW p \in 1 .. pages
        PROVE  /\ (p - 1) * size \in Nat
               /\ \A i \in Nat : i \in DOMAIN walk[p] <=> i >= 1 /\ i <= size /\ (p - 1) * size + i <= n
               /\ \A i \in DOMAIN walk[p] : i \in Nat /\ walk[p][i] = list[(p - 1) * size + i]
    <3> DEFINE start == (p - 1) * size
               end == (pages - 1) * size
    <3>1. start \in Nat /\ start < n
      <4> HIDE DEF n, pages
      <4>1. p - 1 \in Nat /\ pages - 1 \in Nat /\ p - 1 <= pages - 1
        BY <2>2, <2>3
      <4>2. start \in Nat /\ end \in Nat /\ start <= end
        BY <4>1, MorePages
      <4>3. end < n
        BY <2>2
      <4> HIDE DEF start, end
      <4> QED
        BY <1>1, <4>2, <4>3
    <3>2. start < IntLimit
      <4> HIDE DEF start, n, pages
      <4> QED
        BY <1>1, <3>1
    <3>3. walk[p] = PageOf(list, size, p)
      BY <3>2
    <3>4. walk[p] = SubSeq(list, start + 1, Min({start + size, Len(list)}))
      <4>1. ~(start >= Len(list))
        <5> HIDE DEF start
        <5> QED
          BY <1>1, <3>1
      <4> QED
        BY <3>3, <4>1 DEF PageOf
    <3> HIDE DEF start
    <3>5. start < Len(list)
      BY <3>1
    <3> HIDE DEF n, pages
    <3>6. LET page == SubSeq(list, start + 1, Min({start + size, Len(list)}))
          IN  /\ \A i \in Nat : i \in DOMAIN page <=> i >= 1 /\ i <= size /\ start + i <= Len(list)
              /\ \A i \in DOMAIN page : i \in Nat /\ page[i] = list[start + i]
      BY <3>1, <3>5, PageShows, Zenon
    <3>7. /\ \A i \in Nat : i \in DOMAIN walk[p] <=> i >= 1 /\ i <= size /\ start + i <= Len(list)
          /\ \A i \in DOMAIN walk[p] : i \in Nat /\ walk[p][i] = list[start + i]
      BY <3>4, <3>6, Zenon
    <3> QED
      BY <3>1, <3>7, Zenon DEF start, n
  <2> HIDE DEF n, pages
  <2>4. ASSUME NEW x \in Places
        PROVE  /\ x[1] \in Nat \ {0} /\ x[2] \in 1 .. size
               /\ At(x, size) \in 1 .. n /\ Shown(x) = list[At(x, size)]
    <3>1. PICK p \in 1 .. pages : x \in {p} \X DOMAIN walk[p]
      BY <1>1 DEF Places
    <3>2. x[1] = p /\ x[2] \in DOMAIN walk[p]
      BY <3>1
    <3>3. /\ x[2] \in Nat /\ x[2] >= 1 /\ x[2] <= size /\ (p - 1) * size + x[2] <= n
          /\ walk[p][x[2]] = list[(p - 1) * size + x[2]] /\ (p - 1) * size \in Nat
      BY <2>3, <3>2
    <3>4. At(x, size) = (p - 1) * size + x[2] /\ Shown(x) = walk[p][x[2]]
      BY <3>2 DEF At, Shown
    <3>5. (p - 1) * size + x[2] \in 1 .. n
      <4> DEFINE start == (p - 1) * size
      <4>1. start \in Nat /\ start + x[2] <= n /\ x[2] \in Nat /\ x[2] >= 1
        BY <3>3
      <4> HIDE DEF start
      <4>2. start + x[2] \in 1 .. n
        BY <1>1, <4>1
      <4> QED
        BY <4>2 DEF start
    <3> QED
      BY <3>2, <3>3, <3>4, <3>5
  <2>5. ASSUME NEW k \in 1 .. n
        PROVE  \E x \in Places : At(x, size) = k
    <3> DEFINE d == (k - 1) \div size
               m == (k - 1) % size
    <3>1. k - 1 \in Nat /\ k <= n
      BY <1>1
    <3> DEFINE start == d * size
    <3>2. d \in Nat /\ m \in Nat /\ m < size /\ k - 1 = start + m
      BY <3>1, Division
    <3> HIDE DEF d, m
    <3>3. start \in Nat
      BY <3>2, MorePages
    <3>4. d < pages
      <4>1. ASSUME pages <= d PROVE FALSE
        <5> DEFINE all == pages * size
        <5>1. all <= start /\ all \in Nat
          BY <2>2, <3>2, <4>1, MorePages
        <5>2. n <= all
          BY <2>2
        <5> HIDE DEF all, start
        <5> QED
          BY <1>1, <3>1, <3>2, <3>3, <5>1, <5>2
      <4> QED
        BY <2>2, <3>2, <4>1
    <3> DEFINE x == <<d + 1, m + 1>>
    <3>5. d + 1 \in 1 .. pages /\ (d + 1) - 1 = d /\ m + 1 \in Nat
      BY <2>2, <3>2, <3>4
    <3>6. start + (m + 1) = k
      <4> HIDE DEF start
      <4> QED
        BY <1>1, <3>1, <3>2, <3>3
    <3>7. m + 1 \in DOMAIN walk[d + 1]
      <4>1. m + 1 >= 1 /\ m + 1 <= size
        BY <3>2
      <4>2. ((d + 1) - 1) * size + (m + 1) <= n
        BY <3>1, <3>5, <3>6
      <4> QED
        BY <2>3, <3>5, <4>1, <4>2
    <3>8. x \in Places
      BY <1>1, <3>5, <3>7 DEF Places
    <3>9. At(x, size) = k
      BY <3>5, <3>6 DEF At
    <3> HIDE DEF x
    <3> QED
      BY <3>8, <3>9
  <2> QED
    BY <2>4, <2>5 DEF n
<1> QED
  BY <1>2, <1>3

\* What is shown later in a walk stands later in the list.
LEMMA LaterPlace ==
    ASSUME NEW size \in Nat \ {0}, NEW x, NEW y, Sooner(x, y),
           x[1] \in Nat \ {0}, x[2] \in 1 .. size, y[1] \in Nat \ {0}, y[2] \in 1 .. size
    PROVE  At(x, size) < At(y, size)
<1> DEFINE a == (x[1] - 1) * size
           b == (y[1] - 1) * size
<1>1. x[1] - 1 \in Nat /\ y[1] - 1 \in Nat /\ size \in Nat
  OBVIOUS
<1>2. a \in Nat /\ b \in Nat
  BY <1>1, MorePages
<1>3. At(x, size) = a + x[2] /\ At(y, size) = b + y[2]
  BY DEF At
<1>4. CASE x[1] < y[1]
  <2>1. (x[1] - 1) + 1 \in Nat /\ (x[1] - 1) + 1 <= y[1] - 1
    BY <1>1, <1>4
  <2>2. a + size <= b
    BY <1>1, <2>1, MorePages
  <2> HIDE DEF a, b
  <2> QED
    BY <1>2, <1>3, <2>2
<1>5. CASE x[1] = y[1] /\ x[2] < y[2]
  <2>1. a = b
    BY <1>5
  <2> HIDE DEF a, b
  <2> QED
    BY <1>2, <1>3, <1>5, <2>1
<1> QED
  BY <1>4, <1>5 DEF Sooner

\* What the invariant says of walks.
LEMMA InvWalkComplete == ListingInv => WalkComplete
<1> SUFFICES ASSUME ListingInv, NEW c \in copy,
                    walk # <<>>, c.query.sort # "status", Len(walk) = c.body.pages
             PROVE  /\ {Shown(x) : x \in Places} = filterSessions(c.query)
                    /\ \A x, y \in Places : Sooner(x, y) => Later(Shown(y), Shown(x), c.query)
  BY DEF WalkComplete
<1> DEFINE q == c.query
           list == c.etag
           size == PageSize(q)
           found == filterSessions(q)
<1>1. Walked(c) /\ CopyMatches(c) /\ ListingTypeOK /\ DistinctTimes
  BY DEF ListingInv
<1>2. q \in Query /\ list \in Listings(q) /\ size \in Nat \ {0}
  BY <1>1, Pagination DEF Walked
<1>3. list \in Seq(Response) /\ Len(list) \in Nat /\ Len(list) < IntLimit
  BY <1>1, <1>2, ListingIs
<1>4. walk \in Seq(Seq(Response))
  BY <1>1 DEF ListingTypeOK
<1>5. Len(walk) = IF list = <<>> THEN 1
                  ELSE Len(list) \div size + IF (Len(list) % size) # 0 THEN 1 ELSE 0
  <2>1. c.body = Body(list, q)
    BY <1>1, <1>2, ListingAssumption DEF CopyMatches
  <2>2. c.body.pages = totalPages(list, q)
    BY <2>1 DEF Body
  <2> QED
    BY <2>2 DEF totalPages
<1>6. \A p \in 1 .. Len(walk) : (p - 1) * size < IntLimit => walk[p] = PageOf(list, size, p)
  BY <1>1 DEF Walked
<1> HIDE DEF list, size
<1>7. /\ \A x \in Places : /\ x[1] \in Nat \ {0} /\ x[2] \in 1 .. size
                           /\ At(x, size) \in 1 .. Len(list) /\ Shown(x) = list[At(x, size)]
      /\ \A n \in 1 .. Len(list) : \E x \in Places : At(x, size) = n
  BY <1>2, <1>3, <1>4, <1>5, <1>6, WalkShows
<1>8. /\ \A i \in 1 .. Len(list) : list[i] \in found
      /\ \A r \in found : \E i \in 1 .. Len(list) : list[i] = r
      /\ \A i, j \in 1 .. Len(list) : i # j => list[i] # list[j]
      /\ \A i, j \in 1 .. Len(list) : i < j => ~Later(list[i], list[j], q)
  BY <1>1, <1>2, ListingIs
<1> HIDE DEF q, found
<1>9. {Shown(x) : x \in Places} = found
  <2>1. \A x \in Places : Shown(x) \in found
    BY <1>7, <1>8
  <2>2. \A r \in found : \E x \in Places : Shown(x) = r
    BY <1>7, <1>8
  <2> QED
    BY <2>1, <2>2
<1>10. ASSUME NEW x \in Places, NEW y \in Places, Sooner(x, y)
       PROVE  Later(Shown(y), Shown(x), q)
  <2> DEFINE i == At(x, size)
             j == At(y, size)
  <2>1. i < j
    BY <1>2, <1>7, <1>10, LaterPlace
  <2>2. i \in 1 .. Len(list) /\ j \in 1 .. Len(list) /\ Shown(x) = list[i] /\ Shown(y) = list[j]
    BY <1>7
  <2> HIDE DEF i, j
  <2>3. list[i] # list[j] /\ ~Later(list[i], list[j], q) /\ list[i] \in found /\ list[j] \in found
    BY <1>3, <1>8, <2>1, <2>2
  <2>4. Later(list[i], list[j], q) \/ Later(list[j], list[i], q)
    BY <1>1, <1>2, <2>3, OneIsLater DEF found, q
  <2> QED
    BY <2>2, <2>3, <2>4
<1> QED
  BY <1>9, <1>10 DEF q, found

\* What the invariant says of a confirmed copy.
LEMMA InvCopyIsCurrent == ListingInv => CopyIsCurrent
<1> SUFFICES ASSUME ListingInv, confirmed, NEW c \in copy
             PROVE  \/ /\ c.query \in Query
                       /\ \E list \in Listings(c.query) : c.body = Body(list, c.query)
                    \/ /\ c.query \in DOMAIN sessions
                       /\ c.body = toResponse(c.query)
  BY DEF CopyIsCurrent
<1>1. CopyMatches(c) /\ Vouched(c) /\ DOMAIN sessions \subseteq Session
  BY DEF ListingInv, ListingTypeOK
<1>2. CASE c.query \in Query /\ c.etag \in Listings(c.query)
  <2>1. c.body = Body(c.etag, c.query)
    BY <1>1, <1>2, ListingAssumption DEF CopyMatches
  <2> QED
    BY <1>2, <2>1
<1>3. CASE c.query \in DOMAIN sessions /\ c.etag = toResponse(c.query)
  <2>1. c.body = c.etag
    BY <1>1, <1>3, ListingAssumption DEF CopyMatches
  <2> QED
    BY <1>3, <2>1
<1> QED
  BY <1>1, <1>2, <1>3 DEF Vouched

LEMMA ListingInvariant == Spec => []ListingInv
<1>1. Init => ListingInv
  BY ListingInvInit DEF Init
<1>2. ListingInv /\ [Next]_vars => ListingInv'
  BY Parts, ListingStep
<1> QED
  BY <1>1, <1>2, PTL DEF Spec

\* The variables of the reads keep their types.
THEOREM TypeCorrect == Spec => []TypeOK
<1>1. Init => HistoryInv
  BY HistoryInvInit DEF Init
<1>2. HistoryInv /\ [Next]_vars => HistoryInv'
  BY Parts, HistoryStep
<1>3. HistoryInv /\ ListingInv => TypeOK
  BY DEF HistoryInv, ListingInv, TypeOK
<1> QED
  BY <1>1, <1>2, <1>3, ListingInvariant, PTL DEF Spec

\* ListSessions and GetSession: after a 304, what the client keeps is what a
\* 200 would have brought.
THEOREM CopyAlwaysCurrent == Spec => []CopyIsCurrent
  BY ListingInvariant, InvCopyIsCurrent, PTL

\* ListSessions: a client that reads page after page while nothing changes
\* sees every session that matches once, in the order it asked for.
THEOREM WalkAlwaysComplete == Spec => []WalkComplete
  BY ListingInvariant, InvWalkComplete, PTL
================================================================================
