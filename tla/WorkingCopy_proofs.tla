------------------------- MODULE WorkingCopy_proofs -------------------------
(***************************************************************************)
(* What holds of the working copy of a run for any number of documents,    *)
(* turns, changes, creations, failures and saves of tabs: its handles and  *)
(* its reads are current, its view is complete, and no change is lost.     *)
(***************************************************************************)
EXTENDS WorkingCopy, FiniteSetTheorems, SequenceTheorems, TLAPS

\* A content without a change of the run.
Clean(c) == Places(c, Edits) = {}
Latest(d) == versions[d][Tip(d)]

Placed ==
    /\ \A d \in Existing : Exists(d)
    /\ \A d \in Docs : ~Exists(d) => draft[d] = None /\ made[d] = 0 /\ typed[d] = 0
    /\ s.doc # None => Exists(s.doc) /\ s.version \in 1 .. Tip(s.doc)
    /\ s.dirty => s.doc # None

Selecting ==
    selecting # None =>
        /\ Exists(selecting.doc) /\ selecting.version \in 1 .. Tip(selecting.doc)
        /\ phase = "running" /\ mixed /\ s.count = 0 /\ ~s.dirty

\* Before the first turn nothing is read, changed or selected.
Early ==
    phase \in {"opening", "retrieving"} =>
        /\ handles = {} /\ observed = {} /\ ~changed /\ ~mixed /\ selecting = None
        /\ s.count = 0 /\ view = NoView

\* A run that has changed nothing has left no trace.
Untouched ==
    s.count = 0 =>
        /\ s.revision = 0 /\ view.revision = 0 /\ ~s.dirty /\ Clean(s.host)
        /\ \A d \in Docs :
             /\ made[d] = 0
             /\ \A v \in 1 .. Tip(d) : Clean(versions[d][v])
             /\ draft[d] # None => Clean(draft[d])
             /\ view.body[d] # None => Clean(view.body[d])

\* The reads of a response that may be reused saw what the session holds.
Reads ==
    phase = "running" =>
        /\ mixed => observed = {}
        /\ ~mixed => ~changed /\ \A o \in observed : o.body = s.host /\ o.body \in handles

\* A view is of no later state than the session is in, and complete if it is of the same.
Viewed ==
    /\ view.of # None => view.of[2] =< s.version /\ view.revision =< s.revision
    /\ Shown # None /\ view.revision = s.revision => OwnChanges(Shown) = OwnChanges(s.host)

\* Where the changes of the run are.
Own ==
    /\ s.doc # None => Count(s.host, Edits) = made[s.doc]
    /\ \A d \in Docs : Exists(d) => Count(Latest(d), Edits) = made[d] \/ (d = s.doc /\ s.dirty)
    /\ \A d \in Docs : draft[d] # None => Count(draft[d], Edits) = Count(Latest(d), Edits)
    /\ phase = "ended" /\ s.dirty => failed

\* Where the changes of the tabs are: a save of the run is accepted only with all of them.
Others ==
    /\ OthersAreKept
    /\ s.doc # None /\ UpToDate => Count(s.host, {"typed"}) = typed[s.doc]
    /\ s.doc # None /\ s.draft # None => Count(s.draft, {"typed"}) =< typed[s.doc]

IInv ==
    /\ TypeOK /\ Placed /\ Selecting /\ Early /\ Untouched
    /\ HandlesAreCurrent /\ Reads /\ Viewed /\ Own /\ Others

USE DocsAssumption, NoneAssumption, BoundsAssumption

-----------------------------------------------------------------------------
(* Contents, and the changes in them.                                      *)

LEMMA NoneApart ==
    /\ None \notin Docs /\ None \notin Content /\ None \notin Selections
    /\ None \notin (Docs \cup {None}) \X Nat
OBVIOUS

LEMMA ContentFacts ==
    ASSUME NEW c \in Content
    PROVE  /\ Len(c) \in Nat /\ DOMAIN c = 1 .. Len(c)
           /\ \A i \in 1 .. Len(c) : c[i] \in Change
BY LenProperties DEF Content

LEMMA EmptyContent == <<>> \in Content /\ Len(<<>>) = 0 /\ DOMAIN <<>> = {}
BY EmptySeq DEF Content

LEMMA PlacesFinite ==
    ASSUME NEW c \in Content, NEW K
    PROVE  /\ IsFiniteSet(Places(c, K)) /\ Count(c, K) \in Nat
           /\ Places(c, K) \subseteq 1 .. Len(c)
           /\ Count(c, K) = 0 <=> Places(c, K) = {}
<1>1. Places(c, K) \subseteq 1 .. Len(c) /\ Len(c) \in Nat
  BY ContentFacts DEF Places
<1>2. IsFiniteSet(1 .. Len(c))
  <2>1. 1 \in Int /\ Len(c) \in Int
    BY <1>1
  <2> QED  BY <2>1, FS_Interval
<1>3. IsFiniteSet(Places(c, K))
  BY <1>1, <1>2, FS_Subset
<1> QED  BY <1>1, <1>3, FS_CardinalityType, FS_EmptySet DEF Count

LEMMA CountEmpty ==
    ASSUME NEW K
    PROVE  Places(<<>>, K) = {} /\ Count(<<>>, K) = 0
<1>1. Places(<<>>, K) = {}
  BY EmptyContent DEF Places
<1> QED  BY <1>1, FS_EmptySet DEF Count

\* n changes of one kind after a content.
LEMMA Longer ==
    ASSUME NEW c \in Content, NEW x \in Change, NEW n \in Nat
    PROVE  LET b == c \o [i \in 1 .. n |-> x]
           IN  /\ b \in Content /\ Len(b) = Len(c) + n
               /\ \A i \in 1 .. Len(b) : b[i] = IF i =< Len(c) THEN c[i] ELSE x
<1> DEFINE e == [i \in 1 .. n |-> x]
<1>1. e \in Seq(Change) /\ Len(e) = n
  <2>1. e \in Seq(Change)
    BY IsASeq
  <2> QED  BY <2>1, LenProperties
<1> QED  BY <1>1, ConcatProperties, ContentFacts DEF Content

LEMMA CountLonger ==
    ASSUME NEW c \in Content, NEW x \in Change, NEW n \in Nat, NEW K
    PROVE  LET b == c \o [i \in 1 .. n |-> x]
           IN  Count(b, K) = Count(c, K) + (IF x \in K THEN n ELSE 0)
<1> DEFINE b == c \o [i \in 1 .. n |-> x]
           more == {i \in Len(c) + 1 .. Len(c) + n : x \in K}
<1>1. /\ b \in Content /\ Len(b) = Len(c) + n /\ Len(c) \in Nat
      /\ \A i \in 1 .. Len(b) : b[i] = IF i =< Len(c) THEN c[i] ELSE x
  BY Longer, ContentFacts
<1>2. DOMAIN b = 1 .. Len(b) /\ DOMAIN c = 1 .. Len(c)
  BY <1>1, ContentFacts
<1>3. Places(b, K) = Places(c, K) \cup more /\ Places(c, K) \cap more = {}
  <2> HIDE DEF b
  <2> QED  BY <1>1, <1>2 DEF Places
<1>4. IsFiniteSet(more) /\ Cardinality(more) = IF x \in K THEN n ELSE 0
  <2>1. CASE x \in K
    <3>1. more = Len(c) + 1 .. Len(c) + n
      BY <2>1
    <3>2. Len(c) + 1 \in Int /\ Len(c) + n \in Int
      BY <1>1
    <3>3. /\ IsFiniteSet(Len(c) + 1 .. Len(c) + n)
          /\ Cardinality(Len(c) + 1 .. Len(c) + n)
             = IF Len(c) + 1 > Len(c) + n THEN 0 ELSE (Len(c) + n) - (Len(c) + 1) + 1
      BY <3>2, FS_Interval
    <3>4. Cardinality(Len(c) + 1 .. Len(c) + n) = n
      BY <1>1, <3>3
    <3> QED  BY <2>1, <3>1, <3>3, <3>4, Zenon
  <2>2. CASE x \notin K
    <3>1. more = {}
      BY <2>2
    <3> QED  BY <2>2, <3>1, FS_EmptySet
  <2> QED  BY <2>1, <2>2
<1>5. IsFiniteSet(Places(c, K)) /\ Count(c, K) \in Nat
  BY PlacesFinite
<1>6. Cardinality(Places(b, K)) = Cardinality(Places(c, K)) + Cardinality(more) - Cardinality({})
  <2> HIDE DEF b, more
  <2> QED  BY <1>3, <1>4, <1>5, FS_Union
<1> QED  BY <1>4, <1>5, <1>6, FS_EmptySet DEF Count

\* One change after a content.
LEMMA Appending ==
    ASSUME NEW c \in Content, NEW x \in Change
    PROVE  /\ Append(c, x) \in Content
           /\ \A K : Count(Append(c, x), K) = Count(c, K) + (IF x \in K THEN 1 ELSE 0)
<1>1. Append(c, x) \in Content
  BY AppendProperties DEF Content
<1>2. Append(c, x) = c \o [i \in 1 .. 1 |-> x]
  <2>1. /\ c \o [i \in 1 .. 1 |-> x] \in Content /\ Len(c \o [i \in 1 .. 1 |-> x]) = Len(c) + 1
        /\ \A i \in 1 .. Len(c) + 1 : (c \o [j \in 1 .. 1 |-> x])[i] = IF i =< Len(c) THEN c[i] ELSE x
    <3> DEFINE n == 1
    <3>1. n \in Nat
      OBVIOUS
    <3> HIDE DEF n
    <3>2. /\ c \o [i \in 1 .. n |-> x] \in Content /\ Len(c \o [i \in 1 .. n |-> x]) = Len(c) + n
          /\ \A i \in 1 .. Len(c \o [j \in 1 .. n |-> x]) :
                (c \o [j \in 1 .. n |-> x])[i] = IF i =< Len(c) THEN c[i] ELSE x
      BY <3>1, Longer
    <3> QED  BY <3>2 DEF n
  <2>2. /\ Len(Append(c, x)) = Len(c) + 1 /\ Len(c) \in Nat
        /\ \A i \in 1 .. Len(c) : Append(c, x)[i] = c[i]
        /\ Append(c, x)[Len(c) + 1] = x
    BY AppendProperties, ContentFacts DEF Content
  <2>3. \A i \in 1 .. Len(c) + 1 : Append(c, x)[i] = IF i =< Len(c) THEN c[i] ELSE x
    BY <2>2
  <2> QED  BY <1>1, <2>1, <2>2, <2>3, SeqEqual DEF Content
<1>3. \A K : Count(Append(c, x), K) = Count(c, K) + (IF x \in K THEN 1 ELSE 0)
  <2> SUFFICES ASSUME NEW K
               PROVE  Count(Append(c, x), K) = Count(c, K) + (IF x \in K THEN 1 ELSE 0)
    OBVIOUS
  <2> DEFINE n == 1
  <2>1. n \in Nat
    OBVIOUS
  <2> HIDE DEF n
  <2>2. Count(c \o [i \in 1 .. n |-> x], K) = Count(c, K) + (IF x \in K THEN n ELSE 0)
    BY <2>1, CountLonger
  <2> QED  BY <1>2, <2>2 DEF n
<1> QED  BY <1>1, <1>3

LEMMA GoesOnFacts ==
    ASSUME NEW c \in Content, NEW K
    PROVE  /\ GoesOn(c, c, K)
           /\ \A h \in Content : \A M : GoesOn(c, h, M) /\ M \subseteq K => GoesOn(c, h, K)
           /\ \A b, h \in Content : GoesOn(c, h, K) /\ GoesOn(b, c, K) => GoesOn(b, h, K)
           /\ \A x \in Change \cap K, n \in Nat : GoesOn(c \o [i \in 1 .. n |-> x], c, K)
           /\ \A x \in Change \cap K : GoesOn(Append(c, x), c, K)
<1>1. /\ GoesOn(c, c, K)
      /\ \A h \in Content : \A M : GoesOn(c, h, M) /\ M \subseteq K => GoesOn(c, h, K)
  BY ContentFacts DEF GoesOn
<1>2. \A b, h \in Content : GoesOn(c, h, K) /\ GoesOn(b, c, K) => GoesOn(b, h, K)
  <2> SUFFICES ASSUME NEW b \in Content, NEW h \in Content, GoesOn(c, h, K), GoesOn(b, c, K)
               PROVE  GoesOn(b, h, K)
    OBVIOUS
  <2> QED  BY ContentFacts DEF GoesOn
<1>3. ASSUME NEW x \in Change \cap K, NEW n \in Nat
      PROVE  GoesOn(c \o [i \in 1 .. n |-> x], c, K)
  <2> DEFINE b == c \o [i \in 1 .. n |-> x]
  <2>1. /\ b \in Content /\ Len(b) = Len(c) + n /\ Len(c) \in Nat
        /\ \A i \in 1 .. Len(b) : b[i] = IF i =< Len(c) THEN c[i] ELSE x
    BY Longer, ContentFacts
  <2>2. DOMAIN b = 1 .. Len(b)
    BY <2>1, ContentFacts
  <2> HIDE DEF b
  <2>3. GoesOn(b, c, K)
    BY <2>1, <2>2 DEF GoesOn
  <2> QED  BY <2>3 DEF b
<1>4. ASSUME NEW x \in Change \cap K PROVE GoesOn(Append(c, x), c, K)
  <2>1. /\ Append(c, x) \in Content /\ Len(Append(c, x)) = Len(c) + 1 /\ Len(c) \in Nat
        /\ \A i \in 1 .. Len(c) : Append(c, x)[i] = c[i]
        /\ Append(c, x)[Len(c) + 1] = x
    BY Appending, AppendProperties, ContentFacts DEF Content
  <2>2. DOMAIN Append(c, x) = 1 .. Len(c) + 1
    BY <2>1, ContentFacts
  <2> QED  BY <2>1, <2>2 DEF GoesOn
<1> QED  BY <1>1, <1>2, <1>3, <1>4

\* Changes of others leave the run's as they are.
LEMMA OwnChangesKept ==
    ASSUME NEW c \in Content, NEW b \in Content, NEW K, K \cap Edits = {}, GoesOn(b, c, K)
    PROVE  OwnChanges(b) = OwnChanges(c)
<1>1. /\ DOMAIN c = 1 .. Len(c) /\ DOMAIN b = 1 .. Len(b) /\ Len(c) \in Nat /\ Len(b) \in Nat
      /\ Len(c) =< Len(b) /\ \A i \in 1 .. Len(c) : b[i] = c[i]
      /\ \A i \in 1 .. Len(b) : i > Len(c) => b[i] \in K
  BY ContentFacts DEF GoesOn
<1>2. Places(b, Edits) = Places(c, Edits)
  BY <1>1 DEF Places
<1>3. ASSUME NEW i \in Places(c, Edits) PROVE SubSeq(b, 1, i) = SubSeq(c, 1, i) /\ b[i] = c[i]
  <2>1. i \in 1 .. Len(c)
    BY <1>1 DEF Places
  <2>2. /\ SubSeq(b, 1, i) \in Seq(Change) /\ Len(SubSeq(b, 1, i)) = i
        /\ \A k \in 1 .. i : SubSeq(b, 1, i)[k] = b[k]
    BY <1>1, <2>1, SubSeqProperties DEF Content
  <2>3. /\ SubSeq(c, 1, i) \in Seq(Change) /\ Len(SubSeq(c, 1, i)) = i
        /\ \A k \in 1 .. i : SubSeq(c, 1, i)[k] = c[k]
    BY <1>1, <2>1, SubSeqProperties DEF Content
  <2>4. SubSeq(b, 1, i) = SubSeq(c, 1, i)
    <3>1. \A k \in 1 .. i : SubSeq(b, 1, i)[k] = SubSeq(c, 1, i)[k]
      BY <1>1, <2>1, <2>2, <2>3
    <3> QED  BY <2>2, <2>3, <3>1, SeqEqual
  <2> QED  BY <1>1, <2>1, <2>4
<1> QED  BY <1>2, <1>3 DEF OwnChanges

LEMMA CleanFacts ==
    ASSUME NEW c \in Content
    PROVE  /\ Clean(c) <=> Count(c, Edits) = 0
           /\ Clean(c) => OwnChanges(c) = {}
           /\ Clean(c) => Clean(Append(c, "typed")) /\ Clean(Append(c, "fields"))
<1>1. Clean(c) <=> Count(c, Edits) = 0
  BY PlacesFinite DEF Clean
<1>2. Clean(c) => OwnChanges(c) = {}
  BY DEF Clean, OwnChanges
<1>3. ASSUME NEW x \in {"typed", "fields"}, Clean(c) PROVE Clean(Append(c, x))
  <2>1. x \in Change /\ x \notin Edits
    BY DEF Change, Edits
  <2>2. Append(c, x) \in Content /\ Count(Append(c, x), Edits) = Count(c, Edits) + 0
    BY <2>1, Appending
  <2> QED  BY <1>1, <1>3, <2>2, PlacesFinite DEF Clean
<1> QED  BY <1>1, <1>2, <1>3

-----------------------------------------------------------------------------
(* States, and the parts that a step may leave alone.                      *)

LEMMA RowFacts ==
    ASSUME TypeOK, NEW d \in Docs
    PROVE  /\ versions[d] \in Seq(Content) /\ Tip(d) \in Nat
           /\ draft[d] \in Content \cup {None}
           /\ \A v \in 1 .. Tip(d) : /\ versions[d][v] \in Content /\ Editing(d, v) \in Content
                                     /\ DraftOf(d, v) \in Content \cup {None}
           /\ Exists(d) => /\ Latest(d) \in Content /\ Working(d) \in Content
                           /\ Tip(d) \in 1 .. Tip(d) /\ 1 \in 1 .. Tip(d)
                           /\ Editing(d, Tip(d)) = Working(d) /\ DraftOf(d, Tip(d)) = draft[d]
           /\ ~Exists(d) => Tip(d) = 0 /\ versions[d] = <<>>
<1>1. versions[d] \in Seq(Content) /\ draft[d] \in Content \cup {None}
  BY DEF TypeOK
<1>2. Tip(d) \in Nat /\ \A v \in 1 .. Tip(d) : versions[d][v] \in Content
  BY <1>1, LenProperties, ElementOfSeq DEF Tip
<1>3. Tip(d) = 0 => versions[d] = <<>>
  BY <1>1, EmptySeq DEF Tip
<1> QED  BY <1>1, <1>2, <1>3 DEF Exists, Editing, DraftOf, Latest, Working

LEMMA SessionFacts ==
    ASSUME TypeOK
    PROVE  /\ s.doc \in Docs \cup {None} /\ s.version \in Nat
           /\ s.draft \in Content \cup {None} /\ s.host \in Content
           /\ s.dirty \in BOOLEAN /\ s.revision \in Nat /\ s.count \in Nat
           /\ view.of \in (Docs \X Nat) \cup {None} /\ view.message \in BOOLEAN
           /\ view.revision \in Nat
           /\ view.body \in [Docs -> Content \cup {None}]
BY DEF TypeOK, Session

LEMMA RebindFacts ==
    ASSUME TypeOK, NEW d \in Docs, NEW v \in Nat, NEW body \in Content,
           NEW draftId \in Content \cup {None}
    PROVE  LET r == Rebind(d, v, body, draftId)
           IN  /\ r \in Session
               /\ r.doc = d /\ r.version = v /\ r.host = body /\ r.draft = draftId
               /\ ~r.dirty /\ r.revision = 0 /\ r.count = s.count
BY DEF TypeOK, Session, Rebind

LEMMA AdvanceFacts ==
    ASSUME TypeOK, NEW change \in Change, NEW applied \in Nat
    PROVE  LET r == Advance(change, applied)
           IN  /\ r \in Session
               /\ r.doc = s.doc /\ r.version = s.version /\ r.draft = s.draft
               /\ r.host = s.host \o [i \in 1 .. applied |-> change]
               /\ r.dirty /\ r.revision = s.revision + 1 /\ r.count = s.count + applied
<1> DEFINE longer == s.host \o [i \in 1 .. applied |-> change]
           revision == s.revision + 1
           count == s.count + applied
           r == [s EXCEPT !.host = longer, !.dirty = TRUE, !.revision = revision,
                          !.count = count]
<1>1. longer \in Content /\ revision \in Nat /\ count \in Nat
  BY SessionFacts, Longer
<1>2. r = Advance(change, applied)
  BY DEF Advance
<1> HIDE DEF longer, revision, count
<1>3. /\ r \in Session
      /\ r.doc = s.doc /\ r.version = s.version /\ r.draft = s.draft /\ r.host = longer
      /\ r.dirty /\ r.revision = revision /\ r.count = count
  BY <1>1 DEF TypeOK, Session
<1> HIDE DEF r
<1> QED  BY <1>2, <1>3 DEF longer, revision, count

\* What a refresh of the fields does to the bytes.
RefreshOf(h) == h \in {s.host, Append(s.host, "fields")}

LEMMA RefreshFacts ==
    ASSUME TypeOK, NEW h, RefreshOf(h)
    PROVE  /\ h \in Content /\ Count(h, Edits) = Count(s.host, Edits)
           /\ Count(h, {"typed"}) = Count(s.host, {"typed"})
           /\ GoesOn(h, s.host, {"fields"})
           /\ OwnChanges(h) = OwnChanges(s.host)
<1>1. s.host \in Content /\ "fields" \in Change /\ "fields" \notin Edits
  BY SessionFacts DEF Change, Edits
<1>2. /\ Append(s.host, "fields") \in Content
      /\ \A K : Count(Append(s.host, "fields"), K)
                = Count(s.host, K) + (IF "fields" \in K THEN 1 ELSE 0)
  BY <1>1, Appending
<1>3. /\ Count(Append(s.host, "fields"), Edits) = Count(s.host, Edits) + 0
      /\ Count(Append(s.host, "fields"), {"typed"}) = Count(s.host, {"typed"}) + 0
  BY <1>1, <1>2
<1>4. Count(s.host, Edits) \in Nat /\ Count(s.host, {"typed"}) \in Nat
  BY <1>1, PlacesFinite
<1>5. GoesOn(s.host, s.host, {"fields"}) /\ GoesOn(Append(s.host, "fields"), s.host, {"fields"})
  BY <1>1, GoesOnFacts
<1>6. h \in Content /\ GoesOn(h, s.host, {"fields"})
  BY <1>1, <1>2, <1>5 DEF RefreshOf
<1>7. OwnChanges(h) = OwnChanges(s.host)
  BY <1>1, <1>6, OwnChangesKept
<1>8. /\ Count(Append(s.host, "fields"), Edits) = Count(s.host, Edits)
      /\ Count(Append(s.host, "fields"), {"typed"}) = Count(s.host, {"typed"})
  BY <1>3, <1>4
<1>9. Count(h, Edits) = Count(s.host, Edits) /\ Count(h, {"typed"}) = Count(s.host, {"typed"})
  BY <1>8, Zenon DEF RefreshOf
<1> QED  BY <1>6, <1>7, <1>9

\* The ways a flush ends.
Skips(f) == ~s.dirty /\ f.ok /\ f.session = s /\ f.store = Stored
Saves(f, h) == s.dirty /\ UpToDate /\ f.ok /\ f.session = Saved(h) /\ f.store = Appended(h)
Throws(f, h) == s.dirty /\ ~f.ok /\ f.session = Thrown(h) /\ f.store = Stored
LosesReply(f, h) == s.dirty /\ UpToDate /\ ~f.ok /\ f.session = Thrown(h) /\ f.store = Appended(h)

LEMMA FlushCases ==
    ASSUME NEW f \in Flushes, s.dirty \in BOOLEAN
    PROVE  Skips(f) \/ \E h : RefreshOf(h) /\ (Saves(f, h) \/ Throws(f, h) \/ LosesReply(f, h))
<1>1. \A h \in Refreshes : RefreshOf(h)
  BY DEF Refreshes, RefreshOf
<1>2. CASE ~s.dirty
  BY <1>2 DEF Flushes, Skips
<1>3. CASE s.dirty
  BY <1>1, <1>3 DEF Flushes, Saves, Throws, LosesReply
<1> QED  BY <1>2, <1>3

LEMMA FlushedFacts ==
    ASSUME TypeOK, NEW h \in Content
    PROVE  /\ Saved(h) \in Session /\ Thrown(h) \in Session
           /\ \A r \in {Saved(h), Thrown(h)} :
                r.doc = s.doc /\ r.host = h /\ r.revision = s.revision /\ r.count = s.count
           /\ Saved(h).version = s.version + 1 /\ Saved(h).draft = None /\ ~Saved(h).dirty
           /\ Thrown(h).version = s.version /\ Thrown(h).draft = s.draft
           /\ Thrown(h).dirty = s.dirty
<1>1. /\ Saved(h) \in Session
      /\ Saved(h).doc = s.doc /\ Saved(h).host = h /\ Saved(h).revision = s.revision
      /\ Saved(h).count = s.count /\ Saved(h).version = s.version + 1
      /\ Saved(h).draft = None /\ ~Saved(h).dirty
  <2> DEFINE version == s.version + 1
             r == [s EXCEPT !.host = h, !.dirty = FALSE, !.draft = None, !.version = version]
  <2>1. version \in Nat
    BY SessionFacts
  <2>2. r = Saved(h)
    BY DEF Saved
  <2> HIDE DEF version
  <2>3. /\ r \in Session
        /\ r.doc = s.doc /\ r.host = h /\ r.revision = s.revision
        /\ r.count = s.count /\ r.version = version
        /\ r.draft = None /\ ~r.dirty
    BY <2>1 DEF TypeOK, Session
  <2> HIDE DEF r
  <2> QED  BY <2>2, <2>3 DEF version
<1>2. /\ Thrown(h) \in Session
      /\ Thrown(h).doc = s.doc /\ Thrown(h).host = h /\ Thrown(h).revision = s.revision
      /\ Thrown(h).count = s.count /\ Thrown(h).version = s.version
      /\ Thrown(h).draft = s.draft /\ Thrown(h).dirty = s.dirty
  BY DEF TypeOK, Session, Thrown
<1> QED  BY <1>1, <1>2

\* The rows after a version was appended to d.
LEMMA RowsAppended ==
    ASSUME TypeOK, NEW d \in Docs, NEW body \in Content
    PROVE  LET after == [versions EXCEPT ![d] = Append(@, body)]
           IN  /\ after \in [Docs -> Seq(Content)]
               /\ Len(after[d]) = Tip(d) + 1 /\ after[d][Tip(d) + 1] = body
               /\ \A v \in 1 .. Tip(d) : after[d][v] = versions[d][v]
               /\ \A e \in Docs \ {d} : after[e] = versions[e]
<1>1. versions[d] \in Seq(Content) /\ Tip(d) = Len(versions[d])
  BY RowFacts DEF Tip
<1>2. /\ Append(versions[d], body) \in Seq(Content)
      /\ Len(Append(versions[d], body)) = Tip(d) + 1
      /\ Append(versions[d], body)[Tip(d) + 1] = body
      /\ \A v \in 1 .. Tip(d) : Append(versions[d], body)[v] = versions[d][v]
  BY <1>1, AppendProperties
<1> QED  BY <1>2 DEF TypeOK

\* A step that leaves the rows and the session as they are.
LEMMA Unmoved ==
    ASSUME IInv, UNCHANGED <<store, s, made, typed>>,
           phase' = "ended" => phase = "ended" /\ failed' = failed
    PROVE  Placed' /\ Own' /\ Others'
<1>1. Placed'
  BY DEF IInv, Placed, store, Exists, Tip
<1>2. Own'
  BY DEF IInv, Own, store, Exists, Latest, Tip
<1>3. OthersAreKept'
  BY DEF IInv, Others, OthersAreKept, store, Exists, Working, Tip
<1>4. Others'
  BY <1>3 DEF IInv, Others, store, UpToDate, Tip
<1> QED  BY <1>1, <1>2, <1>4

-----------------------------------------------------------------------------
(* The steps in which the run neither changes nor saves anything.          *)

LEMMA InspectKeeps ==
    ASSUME IInv, Inspect
    PROVE  IInv'
<1> USE DEF IInv
<1>1. s.host \in Content /\ Key \in (Docs \cup {None}) \X Nat \X Nat
  BY SessionFacts DEF Key
<1>2. TypeOK'
  <2>1. [key |-> Key, body |-> s.host, turn |-> turn]
          \in [key : (Docs \cup {None}) \X Nat \X Nat, body : Content, turn : Nat]
    BY <1>1 DEF TypeOK
  <2> HIDE DEF Key
  <2>2. observed' \subseteq [key : (Docs \cup {None}) \X Nat \X Nat, body : Content, turn : Nat]
    BY <2>1 DEF TypeOK, Inspect
  <2>3. handles' \subseteq Content
    BY <1>1 DEF TypeOK, Inspect
  <2> QED  BY <2>2, <2>3 DEF TypeOK, Inspect, store, history
<1>3. Placed' /\ Own' /\ Others'
  BY Unmoved DEF Inspect, store, history
<1>4. Selecting' /\ Early' /\ Untouched'
  BY DEF Selecting, Early, Untouched, Inspect, Ready, store, history, Exists, Tip
<1>5. HandlesAreCurrent'
  <2>1. GoesOn(s.host, s.host, {"fields"}) /\ GoesOn(s.host, s.host, {"keeps", "fields"})
    BY <1>1, GoesOnFacts
  <2>2. handles' = handles \cup {s.host} /\ UNCHANGED <<phase, s, changed>>
    BY DEF Inspect
  <2> QED  BY <2>1, <2>2 DEF HandlesAreCurrent, HandlesAllow
<1>6. Reads'
  BY DEF Reads, Inspect
<1>7. Viewed'
  BY DEF Viewed, Inspect, Shown
<1> QED  BY <1>2, <1>3, <1>4, <1>5, <1>6, <1>7

LEMMA SelectKeeps ==
    ASSUME IInv, NEW d \in Docs, Select(d)
    PROVE  IInv'
<1> USE DEF IInv
<1>1. Tip(d) \in Nat /\ Tip(d) \in 1 .. Tip(d)
  BY RowFacts DEF Select
<1>2. TypeOK'
  BY <1>1 DEF TypeOK, Select, store, reads, history, Selections
<1>3. Placed' /\ Own' /\ Others'
  BY Unmoved DEF Select, store, history
<1>4. Selecting'
  BY <1>1 DEF Selecting, Select, InTurn, Ready, store, Exists, Tip
<1>5. Early' /\ Untouched'
  BY DEF Early, Untouched, Select, InTurn, Ready, store, reads, history, Tip
<1>6. HandlesAreCurrent' /\ Reads' /\ Viewed'
  BY DEF HandlesAreCurrent, HandlesAllow, Reads, Viewed, Shown, Select, reads
<1> QED  BY <1>2, <1>3, <1>4, <1>5, <1>6

LEMMA SelectFailsKeeps ==
    ASSUME IInv, SelectFails
    PROVE  IInv'
<1> USE DEF IInv
<1>1. TypeOK'
  <2>1. faults' \in Nat
    BY DEF TypeOK, SelectFails, CountFault
  <2>2. /\ UNCHANGED <<versions, draft, phase, locked, s, handles, changed, observed>>
        /\ UNCHANGED <<turn, mixed, view, failed, made, typed>> /\ selecting' = None
    BY DEF SelectFails, store, reads
  <2> QED  BY <2>1, <2>2 DEF TypeOK
<1>2. Placed' /\ Own' /\ Others'
  BY Unmoved DEF SelectFails, store
<1>3. Selecting' /\ Early' /\ Untouched'
  BY DEF Selecting, Early, Untouched, SelectFails, store, reads, Tip
<1>4. HandlesAreCurrent' /\ Reads' /\ Viewed'
  BY DEF HandlesAreCurrent, HandlesAllow, Reads, Viewed, Shown, SelectFails, reads
<1> QED  BY <1>1, <1>2, <1>3, <1>4

LEMMA RetrieveKeeps ==
    ASSUME IInv, NEW direct \in BOOLEAN, Retrieve(direct)
    PROVE  IInv'
<1> USE DEF IInv
<1> DEFINE full == [NoView EXCEPT
                      !.of = IF s.doc = None THEN None ELSE <<s.doc, s.version>>,
                      !.message = TRUE,
                      !.body = [d \in Docs |-> IF d \in Existing THEN Editing(d, 1) ELSE None]]
<1>1. s.count = 0 /\ handles = {} /\ observed = {} /\ ~changed /\ ~mixed /\ selecting = None
  BY DEF Early, Retrieve
<1>2. \A d \in Existing : Editing(d, 1) \in Content /\ Clean(Editing(d, 1))
  <2> SUFFICES ASSUME NEW d \in Existing
               PROVE  Editing(d, 1) \in Content /\ Clean(Editing(d, 1))
    OBVIOUS
  <2>1. d \in Docs /\ Exists(d) /\ 1 \in 1 .. Tip(d)
    BY RowFacts DEF Docs, Placed
  <2>2. Editing(d, 1) \in Content
    BY <2>1, RowFacts
  <2> QED  BY <1>1, <2>1, <2>2 DEF Untouched, Editing, DraftOf
<1>3. /\ view' \in {NoView, full}
      /\ full.of = (IF s.doc = None THEN None ELSE <<s.doc, s.version>>)
      /\ full.message /\ full.revision = 0
      /\ full.body = [d \in Docs |-> IF d \in Existing THEN Editing(d, 1) ELSE None]
      /\ NoView.of = None /\ NoView.revision = 0 /\ NoView.body = [d \in Docs |-> None]
  BY DEF Retrieve, NoView
<1> HIDE DEF full
<1>4. /\ view'.of \in {None, <<s.doc, s.version>>} /\ view'.revision = 0
      /\ \A d \in Docs : view'.body[d] # None => Clean(view'.body[d])
  BY <1>2, <1>3
<1>5. view' \in [of : (Docs \X Nat) \cup {None}, message : BOOLEAN, revision : Nat,
                 body : [Docs -> Content \cup {None}]]
  <2>1. s.doc # None => <<s.doc, s.version>> \in Docs \X Nat
    BY SessionFacts
  <2>2. [d \in Docs |-> IF d \in Existing THEN Editing(d, 1) ELSE None]
          \in [Docs -> Content \cup {None}]
    BY <1>2
  <2> QED  BY <2>1, <2>2 DEF Retrieve, NoView
<1>6. TypeOK'
  BY <1>5 DEF TypeOK, Retrieve, store, reads, history
<1>7. Placed' /\ Own' /\ Others'
  BY Unmoved DEF Retrieve, store, history
<1>8. Selecting' /\ Early'
  BY <1>1 DEF Selecting, Early, Retrieve
<1>9. Untouched'
  BY <1>1, <1>4 DEF Untouched, Retrieve, store, history, Tip
<1>10. HandlesAreCurrent' /\ Reads'
  BY <1>1 DEF HandlesAreCurrent, HandlesAllow, Reads, Retrieve, reads
<1>11. Viewed'
  <2>1. UNCHANGED s /\ s.version \in Nat /\ s.revision = 0 /\ Clean(s.host) /\ s.host \in Content
    BY <1>1, SessionFacts DEF Retrieve, Untouched
  <2>2. (view.of # None => view.of[2] =< s.version /\ view.revision =< s.revision)'
    BY <1>4, <2>1
  <2>3. Shown' # None => OwnChanges(Shown') = {} /\ OwnChanges(s.host) = {}
    <3> SUFFICES ASSUME Shown' # None
                 PROVE  OwnChanges(Shown') = {} /\ OwnChanges(s.host) = {}
      OBVIOUS
    <3>1. Shown' = view'.body[s.doc] /\ view'.of = <<s.doc, s.version>>
      BY <2>1 DEF Shown
    <3>2. <<s.doc, s.version>> \in (Docs \cup {None}) \X Nat
      BY SessionFacts
    <3>3. s.doc \in Docs
      BY <1>3, <3>1, <3>2, NoneApart, SessionFacts
    <3>4. Clean(Shown')
      BY <1>4, <3>1, <3>3
    <3> QED  BY <2>1, <3>4 DEF Clean, OwnChanges
  <2> QED  BY <2>1, <2>2, <2>3 DEF Viewed
<1> QED  BY <1>6, <1>7, <1>8, <1>9, <1>10, <1>11

\* The view of a changed document is made anew, or is not shown.
LEMMA ProjectedFacts ==
    ASSUME IInv, NEW ok \in BOOLEAN, NEW v, v = Projected(ok)
    PROVE  /\ v \in [of : (Docs \X Nat) \cup {None}, message : BOOLEAN, revision : Nat,
                     body : [Docs -> Content \cup {None}]]
           /\ v.of = view.of /\ (v.of # None => v.revision = s.revision)
           /\ s.count = 0 => v = view
           /\ v # view => v.of # None /\ v.message = (ok /\ s.dirty)
           /\ v # view /\ v.message => s.doc \in Docs /\ v.body[s.doc] = s.host
<1> USE DEF IInv
<1> DEFINE body == IF ok /\ s.dirty THEN [view.body EXCEPT ![s.doc] = s.host] ELSE view.body
           anew == [view EXCEPT !.revision = s.revision, !.message = ok /\ s.dirty, !.body = body]
<1>1. v = IF view.of = None \/ s.revision = view.revision THEN view ELSE anew
  BY DEF Projected
<1>2. s.dirty => s.doc \in Docs
  BY SessionFacts DEF Placed
<1>3. body \in [Docs -> Content \cup {None}] /\ (ok /\ s.dirty => body[s.doc] = s.host)
  BY <1>2, SessionFacts
<1> HIDE DEF body
<1>4. /\ anew \in [of : (Docs \X Nat) \cup {None}, message : BOOLEAN, revision : Nat,
                   body : [Docs -> Content \cup {None}]]
      /\ anew.of = view.of /\ anew.revision = s.revision /\ anew.body = body
  BY <1>3, SessionFacts DEF TypeOK
<1>5. anew.message = (ok /\ s.dirty)
  BY DEF TypeOK
<1>6. s.count = 0 => s.revision = view.revision
  BY DEF Untouched
<1> HIDE DEF anew
<1>7. view \in [of : (Docs \X Nat) \cup {None}, message : BOOLEAN, revision : Nat,
                body : [Docs -> Content \cup {None}]]
  BY DEF TypeOK
<1>8. CASE v = view
  <2>1. v.of # None => v.revision = s.revision
    BY <1>1, <1>4, <1>8
  <2> QED  BY <1>7, <1>8, <2>1
<1>9. CASE v # view
  <2>1. v = anew /\ view.of # None /\ s.revision # view.revision
    BY <1>1, <1>9
  <2>2. s.count # 0
    BY <1>6, <2>1
  <2>3. v.message => s.doc \in Docs /\ v.body[s.doc] = s.host
    BY <1>2, <1>3, <1>4, <1>5, <2>1
  <2> QED  BY <1>4, <1>5, <2>1, <2>2, <2>3
<1> QED  BY <1>8, <1>9

LEMMA BeginTurnKeeps ==
    ASSUME IInv, NEW others \in BOOLEAN, NEW ok \in BOOLEAN, BeginTurn(others, ok)
    PROVE  IInv' /\ (Shown = None \/ OwnChanges(Shown) = OwnChanges(s.host))'
<1> USE DEF IInv
<1>1. /\ view' \in [of : (Docs \X Nat) \cup {None}, message : BOOLEAN, revision : Nat,
                    body : [Docs -> Content \cup {None}]]
      /\ view'.of = view.of /\ (view'.of # None => view'.revision = s.revision)
      /\ s.count = 0 => view' = view
      /\ view' # view => view'.of # None /\ view'.message = (ok /\ s.dirty)
      /\ view' # view /\ view'.message => s.doc \in Docs /\ view'.body[s.doc] = s.host
  BY ProjectedFacts DEF BeginTurn
<1>2. /\ phase = "running" /\ phase' = phase /\ UNCHANGED <<s, selecting>> /\ selecting = None
      /\ mixed' = others /\ changed' = FALSE
      /\ handles' = (IF changed THEN {} ELSE handles)
      /\ observed' = (IF others THEN {} ELSE observed)
  BY DEF BeginTurn, Ready, AtBoundary, Observed
<1>3. TypeOK'
  <2>1. turn' \in Nat
    BY DEF TypeOK, BeginTurn
  <2>2. /\ UNCHANGED <<versions, draft, phase, locked, s, selecting, failed, made, typed, faults>>
        /\ handles' \subseteq handles /\ observed' \subseteq observed
    BY <1>2 DEF BeginTurn, store, history
  <2>3. changed' \in BOOLEAN /\ mixed' \in BOOLEAN
    BY <1>2
  <2> QED  BY <1>1, <2>1, <2>2, <2>3 DEF TypeOK
<1>4. Placed' /\ Own' /\ Others'
  BY <1>2, Unmoved DEF BeginTurn, store, history
<1>5. Selecting' /\ Early'
  BY <1>2 DEF Selecting, Early
<1>6. Untouched'
  BY <1>1 DEF Untouched, BeginTurn, store, history, Tip
<1>7. HandlesAreCurrent'
  BY <1>2 DEF HandlesAreCurrent, HandlesAllow
<1>8. Reads'
  BY <1>2 DEF Reads
<1>9. Shown' # None => view'.of # None
  <2>1. <<s.doc, s.version>> \in (Docs \cup {None}) \X Nat
    BY SessionFacts
  <2> QED  BY <1>2, <2>1, NoneApart DEF Shown
<1>10. Shown' # None => OwnChanges(Shown') = OwnChanges(s.host)
  <2> SUFFICES ASSUME Shown' # None
               PROVE  OwnChanges(Shown') = OwnChanges(s.host)
    OBVIOUS
  <2>1. view'.message /\ Shown' = view'.body[s.doc]
    BY <1>2 DEF Shown
  <2>2. CASE view' = view
    <3>1. Shown' = Shown /\ view.revision = s.revision
      BY <1>1, <1>2, <1>9, <2>2 DEF Shown
    <3> QED  BY <3>1 DEF Viewed
  <2>3. CASE view' # view
    BY <1>1, <2>1, <2>3
  <2> QED  BY <2>2, <2>3
<1>11. Viewed'
  <2>1. view'.of # None => view'.of[2] =< s.version /\ view'.revision =< s.revision
    BY <1>1, SessionFacts DEF Viewed
  <2> QED  BY <1>2, <1>10, <2>1 DEF Viewed
<1> QED  BY <1>2, <1>3, <1>4, <1>5, <1>6, <1>7, <1>8, <1>10, <1>11

-----------------------------------------------------------------------------
(* The tabs.                                                               *)

LEMMA TypedOn ==
    ASSUME NEW c \in Content
    PROVE  /\ Append(c, "typed") \in Content
           /\ Count(Append(c, "typed"), Edits) = Count(c, Edits)
           /\ Count(Append(c, "typed"), {"typed"}) = Count(c, {"typed"}) + 1
           /\ Clean(c) => Clean(Append(c, "typed"))
<1>1. "typed" \in Change /\ "typed" \notin Edits
  BY DEF Change, Edits
<1>2. /\ Append(c, "typed") \in Content
      /\ \A K : Count(Append(c, "typed"), K) = Count(c, K) + (IF "typed" \in K THEN 1 ELSE 0)
  BY <1>1, Appending
<1>3. /\ Count(Append(c, "typed"), Edits) = Count(c, Edits) + 0
      /\ Count(Append(c, "typed"), {"typed"}) = Count(c, {"typed"}) + 1
  BY <1>1, <1>2
<1>4. Count(c, Edits) \in Nat
  BY PlacesFinite
<1> QED  BY <1>2, <1>3, <1>4, CleanFacts

\* What a tab leaves of the run as it was.
LEMMA TypesKeeps ==
    ASSUME IInv, NEW d \in Docs, Types(d)
    PROVE  /\ UNCHANGED <<phase, locked, s, handles, changed, observed, selecting, turn, mixed,
                          view, failed, made, faults>>
           /\ HandlesAreCurrent' /\ Reads' /\ Viewed' /\ Early'
           /\ typed' \in [Docs -> Nat] /\ typed'[d] = typed[d] + 1
           /\ \A e \in Docs \ {d} : typed'[e] = typed[e]
<1> USE DEF IInv
<1>1. /\ UNCHANGED <<phase, locked, s, handles, changed, observed, selecting, turn, mixed,
                     view, failed, made, faults>>
  BY DEF Types, reads
<1>2. HandlesAreCurrent' /\ Reads'
  BY <1>1 DEF HandlesAreCurrent, HandlesAllow, Reads
<1>3. Viewed' /\ Early'
  BY <1>1 DEF Viewed, Shown, Early
<1>4. /\ typed' \in [Docs -> Nat] /\ typed'[d] = typed[d] + 1
      /\ \A e \in Docs \ {d} : typed'[e] = typed[e]
  BY DEF Types, TypeOK
<1> QED  BY <1>1, <1>2, <1>3, <1>4

LEMMA AutosavedKeeps ==
    ASSUME IInv, NEW d \in Docs, Autosaved(d)
    PROVE  IInv'
<1> USE DEF IInv
<1> DEFINE w == Append(Working(d), "typed")
<1>1. Types(d) /\ Exists(d) /\ UNCHANGED versions
  BY DEF Autosaved, Types
<1>2. /\ UNCHANGED <<phase, locked, s, handles, changed, observed, selecting, turn, mixed,
                     view, failed, made, faults>>
      /\ HandlesAreCurrent' /\ Reads' /\ Viewed' /\ Early'
      /\ typed' \in [Docs -> Nat] /\ typed'[d] = typed[d] + 1
      /\ \A e \in Docs \ {d} : typed'[e] = typed[e]
  BY <1>1, TypesKeeps
<1>3. Working(d) \in Content /\ Latest(d) \in Content /\ Tip(d) \in 1 .. Tip(d)
  BY <1>1, RowFacts
<1>4. /\ w \in Content /\ w # None /\ Count(w, Edits) = Count(Working(d), Edits)
      /\ Count(w, {"typed"}) = Count(Working(d), {"typed"}) + 1
      /\ Clean(Working(d)) => Clean(w)
  BY <1>3, TypedOn, NoneApart
<1>5. /\ draft' \in [Docs -> Content \cup {None}]
      /\ draft'[d] = w /\ \A e \in Docs \ {d} : draft'[e] = draft[e]
  BY <1>4 DEF Autosaved, TypeOK
<1> HIDE DEF w
<1>6. TypeOK'
  BY <1>1, <1>2, <1>5 DEF TypeOK
<1>7. \A e \in Docs : Tip(e)' = Tip(e) /\ Exists(e)' = Exists(e) /\ Latest(e)' = Latest(e)
  BY <1>1 DEF Tip, Exists, Latest
<1>8. Placed'
  <2>1. \A e \in Docs : ~Exists(e)' => draft'[e] = None /\ made'[e] = 0 /\ typed'[e] = 0
    BY <1>1, <1>2, <1>5, <1>7 DEF Placed
  <2>2. (s.doc # None => Exists(s.doc) /\ s.version \in 1 .. Tip(s.doc))'
    BY <1>2, <1>7, SessionFacts DEF Placed
  <2> QED  BY <1>2, <1>7, <2>1, <2>2 DEF Placed, Docs
<1>9. Selecting'
  <2>1. selecting # None => selecting.doc \in Docs
    BY DEF TypeOK, Selections
  <2> QED  BY <1>2, <1>7, <2>1 DEF Selecting
<1>10. Untouched'
  <2> SUFFICES ASSUME s.count = 0
               PROVE  Untouched'
    BY <1>2 DEF Untouched
  <2>1. Clean(Working(d))
    BY <1>3 DEF Untouched, Working
  <2>2. \A e \in Docs : draft'[e] # None => Clean(draft'[e])
    BY <1>4, <1>5, <2>1 DEF Untouched
  <2> QED  BY <1>1, <1>2, <1>7, <2>2 DEF Untouched
<1>11. Own'
  <2>1. Count(w, Edits) = Count(Latest(d), Edits)
    BY <1>4 DEF Own, Working, Latest
  <2>2. \A e \in Docs : draft'[e] # None => Count(draft'[e], Edits) = Count(Latest(e), Edits)
    BY <1>5, <2>1 DEF Own
  <2> QED  BY <1>2, <1>7, <2>2 DEF Own
<1>12. OthersAreKept'
  <2>1. Count(w, {"typed"}) = typed'[d]
    BY <1>1, <1>2, <1>4 DEF Others, OthersAreKept
  <2>2. Working(d)' = w
    BY <1>4, <1>5 DEF Working
  <2>3. \A e \in Docs \ {d} : Working(e)' = Working(e)
    BY <1>1, <1>5, <1>7 DEF Working
  <2> QED  BY <1>2, <1>7, <2>1, <2>2, <2>3 DEF Others, OthersAreKept
<1>13. Others'
  <2>1. typed[d] \in Nat /\ Count(w, {"typed"}) = typed[d] + 1
    BY <1>1, <1>4 DEF TypeOK, Others, OthersAreKept
  <2>2. s.doc = d => ~UpToDate'
    BY <1>2, <1>4, <1>5, <2>1 DEF Others, UpToDate
  <2>3. s.doc # d /\ s.doc # None => UpToDate' = UpToDate /\ typed'[s.doc] = typed[s.doc]
    BY <1>2, <1>5, <1>7, SessionFacts DEF UpToDate
  <2>4. (s.doc # None /\ UpToDate => Count(s.host, {"typed"}) = typed[s.doc])'
    BY <1>2, <2>2, <2>3 DEF Others
  <2>5. s.doc # None /\ s.draft # None =>
          /\ typed'[s.doc] \in {typed[s.doc], typed[s.doc] + 1} /\ typed[s.doc] \in Nat
          /\ Count(s.draft, {"typed"}) =< typed[s.doc] /\ Count(s.draft, {"typed"}) \in Nat
    BY <1>2, SessionFacts, PlacesFinite DEF Others, TypeOK
  <2>6. (s.doc # None /\ s.draft # None => Count(s.draft, {"typed"}) =< typed[s.doc])'
    BY <1>2, <2>5
  <2> QED  BY <1>12, <2>4, <2>6 DEF Others
<1> QED  BY <1>2, <1>6, <1>8, <1>9, <1>10, <1>11, <1>12, <1>13

LEMMA SavedElsewhereKeeps ==
    ASSUME IInv, NEW d \in Docs, SavedElsewhere(d)
    PROVE  IInv'
<1> USE DEF IInv
<1> DEFINE w == Append(Working(d), "typed")
<1>1. Types(d) /\ Exists(d)
  BY DEF SavedElsewhere, Types
<1>2. /\ UNCHANGED <<phase, locked, s, handles, changed, observed, selecting, turn, mixed,
                     view, failed, made, faults>>
      /\ HandlesAreCurrent' /\ Reads' /\ Viewed' /\ Early'
      /\ typed' \in [Docs -> Nat] /\ typed'[d] = typed[d] + 1
      /\ \A e \in Docs \ {d} : typed'[e] = typed[e]
  BY <1>1, TypesKeeps
<1>3. Working(d) \in Content /\ Latest(d) \in Content /\ Tip(d) \in 1 .. Tip(d) /\ Tip(d) \in Nat
  BY <1>1, RowFacts
<1>4. /\ w \in Content /\ w # None /\ Count(w, Edits) = Count(Working(d), Edits)
      /\ Count(w, {"typed"}) = Count(Working(d), {"typed"}) + 1
      /\ Clean(Working(d)) => Clean(w)
  BY <1>3, TypedOn, NoneApart
<1>5. /\ draft' \in [Docs -> Content \cup {None}]
      /\ draft'[d] = None /\ \A e \in Docs \ {d} : draft'[e] = draft[e]
  BY DEF SavedElsewhere, TypeOK
<1>6. /\ versions' \in [Docs -> Seq(Content)]
      /\ Len(versions'[d]) = Tip(d) + 1 /\ versions'[d][Tip(d) + 1] = w
      /\ \A v \in 1 .. Tip(d) : versions'[d][v] = versions[d][v]
      /\ \A e \in Docs \ {d} : versions'[e] = versions[e]
  <2>1. versions' = [versions EXCEPT ![d] = Append(@, w)]
    BY DEF SavedElsewhere
  <2> HIDE DEF w
  <2> DEFINE after == [versions EXCEPT ![d] = Append(@, w)]
  <2>2. w \in Content
    BY <1>4
  <2>3. /\ after \in [Docs -> Seq(Content)]
        /\ Len(after[d]) = Tip(d) + 1 /\ after[d][Tip(d) + 1] = w
        /\ \A v \in 1 .. Tip(d) : after[d][v] = versions[d][v]
        /\ \A e \in Docs \ {d} : after[e] = versions[e]
    BY <2>2, RowsAppended
  <2>4. versions' = after
    BY <2>1
  <2> HIDE DEF after
  <2> QED  BY <2>3, <2>4
<1> HIDE DEF w
<1>7. TypeOK'
  BY <1>2, <1>5, <1>6 DEF TypeOK
<1>8. /\ \A e \in Docs \ {d} : Tip(e)' = Tip(e) /\ Exists(e)' = Exists(e) /\ Latest(e)' = Latest(e)
      /\ Tip(d)' = Tip(d) + 1 /\ Exists(d)' /\ Latest(d)' = w
  BY <1>3, <1>6 DEF Tip, Exists, Latest
<1>9. Placed'
  <2>1. \A e \in Docs : ~Exists(e)' => draft'[e] = None /\ made'[e] = 0 /\ typed'[e] = 0
    BY <1>2, <1>5, <1>8 DEF Placed
  <2>2. (s.doc # None => Exists(s.doc) /\ s.version \in 1 .. Tip(s.doc))'
    BY <1>2, <1>3, <1>8, SessionFacts DEF Placed
  <2> QED  BY <1>2, <1>8, <2>1, <2>2 DEF Placed, Docs
<1>10. Selecting'
  <2>1. selecting # None => selecting.doc \in Docs
    BY DEF TypeOK, Selections
  <2> QED  BY <1>2, <1>3, <1>8, <2>1 DEF Selecting
<1>11. Untouched'
  <2> SUFFICES ASSUME s.count = 0
               PROVE  Untouched'
    BY <1>2 DEF Untouched
  <2>1. Clean(Working(d))
    BY <1>3 DEF Untouched, Working
  <2>2. \A e \in Docs : draft'[e] # None => Clean(draft'[e])
    BY <1>5 DEF Untouched
  <2>3. \A e \in Docs : \A v \in 1 .. Tip(e)' : Clean(versions'[e][v])
    BY <1>3, <1>4, <1>6, <1>8, <2>1 DEF Untouched
  <2> QED  BY <1>2, <2>2, <2>3 DEF Untouched
<1>12. Own'
  <2>1. Count(w, Edits) = Count(Latest(d), Edits)
    BY <1>4 DEF Own, Working, Latest
  <2>2. \A e \in Docs : draft'[e] # None => Count(draft'[e], Edits) = Count(Latest(e)', Edits)
    BY <1>5, <1>8 DEF Own
  <2>3. \A e \in Docs : Exists(e)' => Count(Latest(e)', Edits) = made[e] \/ (e = s.doc /\ s.dirty)
    BY <1>1, <1>8, <2>1 DEF Own
  <2> QED  BY <1>2, <2>2, <2>3 DEF Own
<1>13. OthersAreKept'
  <2>1. Count(w, {"typed"}) = typed'[d]
    BY <1>1, <1>2, <1>4 DEF Others, OthersAreKept
  <2>2. Working(d)' = w
    BY <1>5, <1>8 DEF Working, Latest
  <2>3. \A e \in Docs \ {d} : Working(e)' = Working(e)
    BY <1>5, <1>6, <1>8 DEF Working
  <2> QED  BY <1>2, <1>8, <2>1, <2>2, <2>3 DEF Others, OthersAreKept
<1>14. Others'
  <2>1. s.doc = d => ~UpToDate'
    BY <1>2, <1>3, <1>8 DEF Placed, UpToDate
  <2>2. s.doc # d /\ s.doc # None => UpToDate' = UpToDate /\ typed'[s.doc] = typed[s.doc]
    BY <1>2, <1>5, <1>8, SessionFacts DEF UpToDate
  <2>3. (s.doc # None /\ UpToDate => Count(s.host, {"typed"}) = typed[s.doc])'
    BY <1>2, <2>1, <2>2 DEF Others
  <2>4. s.doc # None /\ s.draft # None =>
          /\ typed'[s.doc] \in {typed[s.doc], typed[s.doc] + 1} /\ typed[s.doc] \in Nat
          /\ Count(s.draft, {"typed"}) =< typed[s.doc] /\ Count(s.draft, {"typed"}) \in Nat
    BY <1>2, SessionFacts, PlacesFinite DEF Others, TypeOK
  <2>5. (s.doc # None /\ s.draft # None => Count(s.draft, {"typed"}) =< typed[s.doc])'
    BY <1>2, <2>4
  <2> QED  BY <1>13, <2>3, <2>5 DEF Others
<1> QED  BY <1>2, <1>7, <1>9, <1>10, <1>11, <1>12, <1>14

-----------------------------------------------------------------------------
(* The changes of the run.                                                 *)

LEMMA ChangesKeeps ==
    ASSUME IInv, NEW change \in Edits, NEW applied \in 1 .. 2, Changes(change, applied),
           selecting = None,
           phase' = "finishing" \/ (phase' = phase /\ phase = "running" /\ mixed)
    PROVE  IInv'
<1> USE DEF IInv
<1>1. /\ change \in Change /\ applied \in Nat /\ applied > 0
      /\ s.doc \in Docs /\ s.host \in Content /\ s.count \in Nat /\ s.revision \in Nat
      /\ s.version \in Nat
  BY SessionFacts DEF Changes, Change, Edits
<1>2. /\ s' \in Session
      /\ s'.doc = s.doc /\ s'.version = s.version /\ s'.draft = s.draft
      /\ s'.host = s.host \o [i \in 1 .. applied |-> change]
      /\ s'.dirty /\ s'.revision = s.revision + 1 /\ s'.count = s.count + applied
  BY <1>1, AdvanceFacts DEF Changes
<1>3. /\ s'.host \in Content
      /\ Count(s'.host, Edits) = Count(s.host, Edits) + applied
      /\ Count(s'.host, {"typed"}) = Count(s.host, {"typed"})
  <2>1. /\ Count(s'.host, Edits) = Count(s.host, Edits) + (IF change \in Edits THEN applied ELSE 0)
        /\ Count(s'.host, {"typed"})
           = Count(s.host, {"typed"}) + (IF change \in {"typed"} THEN applied ELSE 0)
    <3> DEFINE longer == s.host \o [i \in 1 .. applied |-> change]
    <3>1. /\ Count(longer, Edits) = Count(s.host, Edits) + (IF change \in Edits THEN applied ELSE 0)
          /\ Count(longer, {"typed"})
             = Count(s.host, {"typed"}) + (IF change \in {"typed"} THEN applied ELSE 0)
      BY <1>1, CountLonger
    <3>2. s'.host = longer
      BY <1>2
    <3> HIDE DEF longer
    <3> QED  BY <3>1, <3>2
  <2>2. change \notin {"typed"} /\ Count(s.host, {"typed"}) \in Nat
    BY <1>1, PlacesFinite DEF Edits
  <2>3. s'.host \in Content
    BY <1>2 DEF Session
  <2>4. Count(s'.host, Edits) = Count(s.host, Edits) + applied
    BY <2>1
  <2>5. Count(s'.host, {"typed"}) = Count(s.host, {"typed"}) + 0
    BY <2>1, <2>2
  <2> QED  BY <2>2, <2>3, <2>4, <2>5
<1>4. /\ made' \in [Docs -> Nat] /\ made'[s.doc] = made[s.doc] + applied
      /\ \A d \in Docs \ {s.doc} : made'[d] = made[d]
  <2>1. made' = [made EXCEPT ![s.doc] = made[s.doc] + applied] /\ made \in [Docs -> Nat]
    BY DEF Changes, TypeOK
  <2>2. made[s.doc] + applied \in Nat
    BY <1>1, <2>1
  <2> QED  BY <1>1, <2>1, <2>2
<1>5. /\ UNCHANGED <<versions, draft, locked, observed, selecting, turn, mixed, view, failed,
                     typed, faults>>
      /\ changed' = TRUE /\ handles' = (IF change = "keeps" THEN handles ELSE {})
  BY DEF Changes, store
<1>6. \A d \in Docs : /\ Tip(d)' = Tip(d) /\ Exists(d)' = Exists(d) /\ Latest(d)' = Latest(d)
                      /\ Working(d)' = Working(d)
  BY <1>5 DEF Tip, Exists, Latest, Working
<1>7. TypeOK'
  BY <1>2, <1>4, <1>5 DEF TypeOK
<1>8. Placed'
  <2>1. \A d \in Docs : ~Exists(d) => d # s.doc
    BY DEF Placed
  <2>2. \A d \in Docs : ~Exists(d)' => draft'[d] = None /\ made'[d] = 0 /\ typed'[d] = 0
    BY <1>4, <1>5, <1>6, <2>1 DEF Placed
  <2>3. (s.doc # None => Exists(s.doc) /\ s.version \in 1 .. Tip(s.doc))'
    BY <1>1, <1>2, <1>6 DEF Placed
  <2> QED  BY <1>1, <1>2, <1>6, <2>2, <2>3, NoneApart DEF Placed, Docs
<1>9. Selecting' /\ Early'
  BY <1>5 DEF Selecting, Early
<1>10. Untouched'
  BY <1>1, <1>2 DEF Untouched
<1>11. HandlesAreCurrent'
  <2> SUFFICES ASSUME phase' = "running", NEW h \in handles'
               PROVE  GoesOn(s'.host, h, {"keeps", "fields"})
    BY <1>5 DEF HandlesAreCurrent, HandlesAllow
  <2>1. change = "keeps" /\ h \in handles /\ h \in Content /\ phase = "running"
    BY <1>5 DEF TypeOK
  <2>2. GoesOn(s.host, h, {"keeps", "fields"})
    <3>1. GoesOn(s.host, h, IF changed THEN {"keeps", "fields"} ELSE {"fields"})
      BY <2>1 DEF HandlesAreCurrent, HandlesAllow
    <3>2. {"fields"} \subseteq {"keeps", "fields"}
      OBVIOUS
    <3> QED  BY <1>1, <2>1, <3>1, <3>2, GoesOnFacts
  <2>3. GoesOn(s'.host, s.host, {"keeps", "fields"})
    <3>1. change \in Change \cap {"keeps", "fields"}
      BY <1>1, <2>1
    <3>2. GoesOn(s.host \o [i \in 1 .. applied |-> change], s.host, {"keeps", "fields"})
      BY <1>1, <3>1, GoesOnFacts
    <3> QED  BY <1>2, <3>2
  <2> QED  BY <1>1, <1>3, <2>1, <2>2, <2>3, GoesOnFacts
<1>12. Reads'
  BY <1>5 DEF Reads
<1>13. Viewed'
  <2>1. (view.of # None => view.of[2] =< s.version /\ view.revision =< s.revision)'
    BY <1>1, <1>2, <1>5, SessionFacts DEF Viewed
  <2>2. Shown' = Shown
    BY <1>2, <1>5 DEF Shown
  <2>3. Shown # None => view.of # None
    <3>1. <<s.doc, s.version>> \in (Docs \cup {None}) \X Nat
      BY SessionFacts
    <3> QED  BY <3>1, NoneApart DEF Shown
  <2>4. Shown # None => view.revision # s'.revision
    BY <1>1, <1>2, <2>3, SessionFacts DEF Viewed
  <2> QED  BY <1>5, <2>1, <2>2, <2>4 DEF Viewed
<1>14. Own'
  <2>1. (s.doc # None => Count(s.host, Edits) = made[s.doc])'
    BY <1>1, <1>2, <1>3, <1>4, NoneApart DEF Own
  <2>2. \A d \in Docs : Exists(d)' => Count(Latest(d)', Edits) = made'[d] \/ (d = s'.doc /\ s'.dirty)
    BY <1>2, <1>4, <1>6 DEF Own
  <2>3. \A d \in Docs : draft'[d] # None => Count(draft'[d], Edits) = Count(Latest(d)', Edits)
    BY <1>5, <1>6 DEF Own
  <2> QED  BY <1>2, <2>1, <2>2, <2>3 DEF Own
<1>15. Others'
  <2>1. OthersAreKept'
    BY <1>5, <1>6 DEF Others, OthersAreKept
  <2>2. UpToDate' = UpToDate
    BY <1>1, <1>2, <1>5, <1>6 DEF UpToDate
  <2> QED  BY <1>2, <1>3, <1>5, <2>1, <2>2 DEF Others
<1> QED  BY <1>7, <1>8, <1>9, <1>10, <1>11, <1>12, <1>13, <1>14, <1>15

-----------------------------------------------------------------------------
(* A flush: the session and the rows after it.                             *)

FlushedSession(f) ==
    /\ f.session \in Session
    /\ f.session.doc = s.doc /\ f.session.revision = s.revision /\ f.session.count = s.count
    /\ RefreshOf(f.session.host)
    /\ f.session.version \in {s.version, s.version + 1}
    /\ f.session.dirty => s.dirty /\ ~f.ok
    /\ f.session.draft # None => f.session.draft = s.draft
    /\ f.store.versions \in [Docs -> Seq(Content)]
    /\ f.store.draft \in [Docs -> Content \cup {None}]

RowKept(f, d) ==
    /\ f.store.versions[d] = versions[d] /\ f.store.draft[d] = draft[d]
    /\ d = s.doc => f.session.version = s.version /\ f.session.dirty = s.dirty
    /\ d = s.doc => f.session.draft = s.draft

\* The save made a version of d, and the session may not know it.
RowSaved(f, d) ==
    /\ d = s.doc /\ s.dirty /\ UpToDate
    /\ Len(f.store.versions[d]) = Tip(d) + 1
    /\ \A v \in 1 .. Tip(d) : f.store.versions[d][v] = versions[d][v]
    /\ RefreshOf(f.store.versions[d][Tip(d) + 1])
    /\ f.store.draft[d] = None
    /\ \/ f.session.version = Tip(d) + 1
       \/ f.session.version = Tip(d) /\ f.session.dirty

LEMMA Flushing ==
    ASSUME IInv, NEW f \in Flushes
    PROVE  /\ FlushedSession(f)
           /\ \A d \in Docs : RowKept(f, d) \/ RowSaved(f, d)
           /\ s.count = 0 => f.session = s /\ f.store = Stored
<1> USE DEF IInv
<1>1. s.dirty => s.doc \in Docs
  BY SessionFacts DEF Placed
<1>2. /\ s.host \in Content /\ RefreshOf(s.host) /\ s \in Session /\ s.dirty \in BOOLEAN
      /\ s.version \in Nat
  BY SessionFacts DEF TypeOK, RefreshOf
<1>3. /\ Stored.versions = versions /\ Stored.draft = draft
      /\ versions \in [Docs -> Seq(Content)] /\ draft \in [Docs -> Content \cup {None}]
  BY DEF Stored, TypeOK
<1>4. s.count = 0 => ~s.dirty
  BY DEF Untouched
<1>5. CASE Skips(f)
  BY <1>2, <1>3, <1>5 DEF Skips, FlushedSession, RowKept
<1>6. ASSUME NEW h, RefreshOf(h), Throws(f, h)
      PROVE  FlushedSession(f) /\ \A d \in Docs : RowKept(f, d)
  <2>1. h \in Content
    BY <1>6, RefreshFacts
  <2>2. /\ f.session \in Session /\ f.session.doc = s.doc /\ f.session.host = h
        /\ f.session.revision = s.revision /\ f.session.count = s.count
        /\ f.session.version = s.version /\ f.session.draft = s.draft
        /\ f.session.dirty = s.dirty
    BY <1>6, <2>1, FlushedFacts DEF Throws
  <2>3. s.dirty /\ ~f.ok /\ f.store.versions = versions /\ f.store.draft = draft
    BY <1>3, <1>6 DEF Throws
  <2>4. FlushedSession(f)
    BY <1>2, <1>3, <1>6, <2>2, <2>3 DEF FlushedSession
  <2>5. \A d \in Docs : RowKept(f, d)
    BY <2>2, <2>3 DEF RowKept
  <2> QED  BY <2>4, <2>5
<1>7. ASSUME NEW h, RefreshOf(h), s.dirty, UpToDate, f.store = Appended(h),
             f.session = Saved(h) \/ (f.session = Thrown(h) /\ ~f.ok)
      PROVE  FlushedSession(f) /\ \A d \in Docs : RowKept(f, d) \/ RowSaved(f, d)
  <2>1. h \in Content
    BY <1>7, RefreshFacts
  <2>2. /\ Saved(h) \in Session /\ Thrown(h) \in Session
        /\ \A r \in {Saved(h), Thrown(h)} :
             r.doc = s.doc /\ r.host = h /\ r.revision = s.revision /\ r.count = s.count
        /\ Saved(h).version = s.version + 1 /\ Saved(h).draft = None /\ ~Saved(h).dirty
        /\ Thrown(h).version = s.version /\ Thrown(h).draft = s.draft
        /\ Thrown(h).dirty = s.dirty
    BY <2>1, FlushedFacts
  <2>3. s.doc \in Docs /\ s.version = Tip(s.doc)
    BY <1>1, <1>7 DEF UpToDate
  <2> DEFINE after == [versions EXCEPT ![s.doc] = Append(@, h)]
  <2>4. /\ after \in [Docs -> Seq(Content)]
        /\ Len(after[s.doc]) = Tip(s.doc) + 1 /\ after[s.doc][Tip(s.doc) + 1] = h
        /\ \A v \in 1 .. Tip(s.doc) : after[s.doc][v] = versions[s.doc][v]
        /\ \A e \in Docs \ {s.doc} : after[e] = versions[e]
    BY <2>1, <2>3, RowsAppended
  <2>5. f.store.versions = after /\ f.store.draft = [draft EXCEPT ![s.doc] = None]
    BY <1>7 DEF Appended
  <2> HIDE DEF after
  <2>6. FlushedSession(f)
    BY <1>3, <1>7, <2>2, <2>4, <2>5 DEF FlushedSession
  <2>7. RowSaved(f, s.doc)
    <3>1. f.store.draft[s.doc] = None
      BY <1>3, <2>3, <2>5
    <3>2. \/ f.session.version = Tip(s.doc) + 1
          \/ f.session.version = Tip(s.doc) /\ f.session.dirty
      BY <1>7, <2>2, <2>3
    <3>3. RefreshOf(f.store.versions[s.doc][Tip(s.doc) + 1])
      BY <1>7, <2>4, <2>5, Zenon
    <3> QED  BY <1>7, <2>4, <2>5, <3>1, <3>2, <3>3 DEF RowSaved
  <2>8. \A d \in Docs \ {s.doc} : RowKept(f, d)
    BY <1>3, <2>4, <2>5 DEF RowKept
  <2> QED  BY <2>6, <2>7, <2>8
<1>8. ASSUME NEW h, RefreshOf(h), Saves(f, h) \/ LosesReply(f, h)
      PROVE  FlushedSession(f) /\ \A d \in Docs : RowKept(f, d) \/ RowSaved(f, d)
  BY <1>7, <1>8 DEF Saves, LosesReply
<1>9. Skips(f) \/ \E h : RefreshOf(h) /\ (Saves(f, h) \/ Throws(f, h) \/ LosesReply(f, h))
  BY <1>2, FlushCases
<1>10. s.count = 0 => f.session = s /\ f.store = Stored
  BY <1>4, <1>9 DEF Skips, Saves, Throws, LosesReply
<1> QED  BY <1>5, <1>6, <1>8, <1>9, <1>10

\* What is right about the row of a document, once the run has flushed.
RowRight(f, d) ==
    LET contents == f.store.versions[d]
        row == f.store.draft[d]
        last == contents[Len(contents)]
    IN  /\ Len(contents) \in Nat /\ (Exists(d) <=> Len(contents) > 0)
        /\ ~Exists(d) => row = None
        /\ s.count = 0 => /\ \A v \in 1 .. Len(contents) : Clean(contents[v])
                          /\ row # None => Clean(row)
        /\ Exists(d) => /\ Count(last, Edits) = made[d] \/ (d = s.doc /\ f.session.dirty)
                        /\ Count(IF row = None THEN last ELSE row, {"typed"}) = typed[d]
        /\ row # None => Count(row, Edits) = Count(last, Edits)
        /\ d = s.doc =>
             /\ f.session.version \in 1 .. Len(contents)
             /\ f.session.version = Len(contents) /\ f.session.draft = row
                => Count(f.session.host, {"typed"}) = typed[d]

LEMMA RowsRight ==
    ASSUME IInv, NEW f \in Flushes, NEW d \in Docs
    PROVE  RowRight(f, d)
<1> USE DEF IInv
<1>1. /\ FlushedSession(f) /\ (RowKept(f, d) \/ RowSaved(f, d))
      /\ s.count = 0 => f.session = s /\ f.store = Stored
  BY Flushing
<1>2. Tip(d) \in Nat /\ s.version \in Nat
  BY RowFacts, SessionFacts
<1>3. /\ Count(f.session.host, {"typed"}) = Count(s.host, {"typed"})
  BY <1>1, RefreshFacts DEF FlushedSession
<1>4. CASE RowKept(f, d)
  <2>1. f.store.versions[d] = versions[d] /\ f.store.draft[d] = draft[d]
    BY <1>4 DEF RowKept
  <2>2. d = s.doc => f.session.version = s.version /\ f.session.dirty = s.dirty
                     /\ f.session.draft = s.draft
    BY <1>4 DEF RowKept
  <2>3. d = s.doc => d # None
    BY NoneApart
  <2>4. s.count = 0 => /\ \A v \in 1 .. Tip(d) : Clean(versions[d][v])
                       /\ draft[d] # None => Clean(draft[d])
    BY DEF Untouched
  <2>5. /\ Exists(d) => Count(Latest(d), Edits) = made[d] \/ (d = s.doc /\ s.dirty)
        /\ draft[d] # None => Count(draft[d], Edits) = Count(Latest(d), Edits)
    BY DEF Own
  <2>6. Exists(d) => Count(Working(d), {"typed"}) = typed[d]
    BY DEF Others, OthersAreKept
  <2>7. d = s.doc => s.version \in 1 .. Tip(d) /\ (UpToDate => Count(s.host, {"typed"}) = typed[d])
    BY <2>3 DEF Placed, Others
  <2>8. ~Exists(d) => draft[d] = None
    BY DEF Placed
  <2> QED  BY <1>2, <1>3, <2>1, <2>2, <2>4, <2>5, <2>6, <2>7, <2>8
               DEF RowRight, Latest, Working, Exists, Tip, UpToDate
<1>5. CASE RowSaved(f, d)
  <2> DEFINE contents == f.store.versions[d]
  <2>1. /\ d = s.doc /\ s.dirty /\ UpToDate /\ d # None
        /\ Len(contents) = Tip(d) + 1 /\ RefreshOf(contents[Tip(d) + 1])
        /\ f.store.draft[d] = None
        /\ f.session.version = Tip(d) + 1 \/ (f.session.version = Tip(d) /\ f.session.dirty)
    BY <1>5, NoneApart DEF RowSaved
  <2>2. s.count # 0
    BY <2>1 DEF Untouched
  <2>3. /\ Count(contents[Tip(d) + 1], Edits) = Count(s.host, Edits)
        /\ Count(contents[Tip(d) + 1], {"typed"}) = Count(s.host, {"typed"})
    BY <2>1, RefreshFacts
  <2>4. Count(s.host, Edits) = made[d] /\ Count(s.host, {"typed"}) = typed[d]
    BY <2>1 DEF Own, Others
  <2>5. Exists(d) /\ s.version \in 1 .. Tip(d)
    BY <2>1 DEF Placed
  <2> HIDE DEF contents
  <2>6. /\ Len(contents) \in Nat /\ Len(contents) > 0
        /\ f.session.version \in 1 .. Len(contents)
    BY <1>2, <2>1, <2>5
  <2>7. /\ Count(contents[Len(contents)], Edits) = made[d]
        /\ Count(contents[Len(contents)], {"typed"}) = typed[d]
    BY <2>1, <2>3, <2>4
  <2>8. Count(f.session.host, {"typed"}) = typed[d]
    BY <1>3, <2>4
  <2> QED  BY <2>1, <2>2, <2>5, <2>6, <2>7, <2>8 DEF RowRight, contents
<1> QED  BY <1>1, <1>4, <1>5

LEMMA FaultyFacts ==
    ASSUME TypeOK, NEW b, Faulty(b)
    PROVE  faults' \in Nat
BY DEF TypeOK, Faulty, CountFault

\* A flush of the active document, with the view and the handles as they were.
LEMMA FlushKeepsReads ==
    ASSUME IInv, NEW f \in Flushes, s' = f.session, UNCHANGED view
    PROVE  /\ Viewed'
           /\ \A h \in handles : \A K : GoesOn(s.host, h, K) /\ "fields" \in K => GoesOn(s'.host, h, K)
<1> USE DEF IInv
<1>1. FlushedSession(f)
  BY Flushing
<1>2. /\ s'.doc = s.doc /\ s'.revision = s.revision /\ RefreshOf(s'.host)
      /\ s'.version \in {s.version, s.version + 1} /\ s.version \in Nat /\ s.host \in Content
      /\ s.revision \in Nat
  BY <1>1, SessionFacts DEF FlushedSession
<1>3. s'.host \in Content /\ GoesOn(s'.host, s.host, {"fields"})
      /\ OwnChanges(s'.host) = OwnChanges(s.host)
  BY <1>2, RefreshFacts
<1>4. \A h \in handles : \A K : GoesOn(s.host, h, K) /\ "fields" \in K => GoesOn(s'.host, h, K)
  <2> SUFFICES ASSUME NEW h \in handles, NEW K, GoesOn(s.host, h, K), "fields" \in K
               PROVE  GoesOn(s'.host, h, K)
    OBVIOUS
  <2>1. h \in Content /\ {"fields"} \subseteq K
    BY DEF TypeOK
  <2>2. GoesOn(s'.host, s.host, K)
    BY <1>2, <1>3, <2>1, GoesOnFacts
  <2> QED  BY <1>2, <1>3, <2>1, <2>2, GoesOnFacts
<1>5. Viewed'
  <2>1. (view.of # None => view.of[2] =< s.version /\ view.revision =< s.revision)'
    BY <1>2, SessionFacts DEF Viewed
  <2>2. CASE s'.version = s.version
    <3>1. Shown' = Shown
      BY <1>2, <2>2 DEF Shown
    <3> QED  BY <1>2, <1>3, <2>1, <3>1 DEF Viewed
  <2>3. CASE s'.version = s.version + 1
    <3>1. <<s.doc, s'.version>> \in (Docs \cup {None}) \X Nat /\ <<s.doc, s'.version>>[2] = s'.version
      BY <1>2, SessionFacts
    <3>2. view.of # <<s.doc, s'.version>>
      BY <1>2, <2>3, <3>1, NoneApart, SessionFacts DEF Viewed
    <3>3. Shown' = None
      BY <1>2, <3>2 DEF Shown
    <3> QED  BY <2>1, <3>3 DEF Viewed
  <2> QED  BY <1>2, <2>2, <2>3
<1> QED  BY <1>4, <1>5

LEMMA EndRunKeeps ==
    ASSUME IInv, NEW f \in Flushes, EndRun(f)
    PROVE  IInv'
<1> USE DEF IInv
<1>1. /\ s' = f.session /\ versions' = f.store.versions /\ draft' = f.store.draft
      /\ phase' = "ended" /\ selecting = None /\ failed' = ~f.ok /\ changed' = FALSE
      /\ handles' \subseteq handles /\ Faulty(f.fault)
      /\ UNCHANGED <<locked, observed, selecting, turn, mixed, view, made, typed>>
  BY DEF EndRun, AtBoundary
<1>2. FlushedSession(f) /\ (s.count = 0 => f.session = s /\ f.store = Stored)
  BY Flushing
<1>3. \A d \in Docs : RowRight(f, d)
  BY RowsRight
<1>4. TypeOK'
  <2>1. faults' \in Nat /\ failed' \in BOOLEAN /\ s' \in Session
    BY <1>1, <1>2, FaultyFacts DEF FlushedSession
  <2> QED  BY <1>1, <1>2, <2>1 DEF TypeOK, FlushedSession
<1>5. \A d \in Docs : Exists(d)' = Exists(d) /\ Tip(d)' = Len(f.store.versions[d])
                      /\ Latest(d)' = f.store.versions[d][Len(f.store.versions[d])]
  BY <1>1, <1>3 DEF RowRight, Exists, Tip, Latest
<1>6. s'.doc = s.doc /\ s.doc \in Docs \cup {None} /\ (s'.dirty => s.dirty /\ ~f.ok)
  BY <1>1, <1>2, SessionFacts DEF FlushedSession
<1>7. Placed'
  <2>1. \A d \in Docs : ~Exists(d)' => draft'[d] = None /\ made'[d] = 0 /\ typed'[d] = 0
    BY <1>1, <1>3, <1>5 DEF Placed, RowRight
  <2>2. (s.doc # None => Exists(s.doc) /\ s.version \in 1 .. Tip(s.doc))'
    BY <1>1, <1>3, <1>5, <1>6 DEF Placed, RowRight
  <2> QED  BY <1>5, <1>6, <2>1, <2>2 DEF Placed, Docs
<1>8. Selecting' /\ Early' /\ HandlesAreCurrent' /\ Reads'
  BY <1>1 DEF Selecting, Early, HandlesAreCurrent, Reads
<1>9. Untouched'
  BY <1>1, <1>2, <1>3, <1>5 DEF Untouched, RowRight, FlushedSession
<1>10. Viewed'
  BY <1>1, FlushKeepsReads
<1>11. Own'
  <2>1. (s.doc # None => Count(s.host, Edits) = made[s.doc])'
    BY <1>1, <1>2, <1>6, RefreshFacts DEF FlushedSession, Own
  <2>2. \A d \in Docs : Exists(d)' => Count(Latest(d)', Edits) = made'[d] \/ (d = s'.doc /\ s'.dirty)
    BY <1>1, <1>3, <1>5, <1>6 DEF RowRight
  <2>3. \A d \in Docs : draft'[d] # None => Count(draft'[d], Edits) = Count(Latest(d)', Edits)
    BY <1>1, <1>3, <1>5 DEF RowRight
  <2> QED  BY <1>1, <1>6, <2>1, <2>2, <2>3 DEF Own
<1>12. Others'
  <2>1. OthersAreKept'
    BY <1>1, <1>3, <1>5 DEF RowRight, OthersAreKept, Working, Tip
  <2>2. (s.doc # None /\ UpToDate => Count(s.host, {"typed"}) = typed[s.doc])'
    BY <1>1, <1>3, <1>5, <1>6 DEF RowRight, UpToDate
  <2>3. (s.doc # None /\ s.draft # None => Count(s.draft, {"typed"}) =< typed[s.doc])'
    BY <1>1, <1>2, <1>6 DEF FlushedSession, Others
  <2> QED  BY <2>1, <2>2, <2>3 DEF Others
<1> QED  BY <1>4, <1>7, <1>8, <1>9, <1>10, <1>11, <1>12

LEMMA CreateFailsKeeps ==
    ASSUME IInv, NEW f \in Flushes, NEW orphan \in BOOLEAN, CreateFails(f, orphan)
    PROVE  IInv'
<1> USE DEF IInv
<1>1. /\ s' = f.session /\ draft' = f.store.draft
      /\ phase = "running" /\ selecting = None /\ mixed
      /\ Faulty(f.fault \/ f.ok)
      /\ UNCHANGED <<phase, locked, handles, changed, observed, selecting, turn, mixed, view,
                     failed, made, typed>>
  BY DEF CreateFails, InTurn, Ready, reads
<1>2. PICK new \in Created :
        /\ ~Exists(new)
        /\ versions' = IF orphan THEN [f.store.versions EXCEPT ![new] = << <<>> >>]
                       ELSE f.store.versions
  BY DEF CreateFails
<1>3. FlushedSession(f) /\ (s.count = 0 => f.session = s /\ f.store = Stored)
  BY Flushing
<1>4. \A d \in Docs : RowRight(f, d)
  BY RowsRight
<1>5. /\ <<>> \in Content /\ << <<>> >> \in Seq(Content) /\ Len(<< <<>> >>) = 1
      /\ << <<>> >>[1] = <<>> /\ \A K : Places(<<>>, K) = {} /\ Count(<<>>, K) = 0
  BY EmptyContent, CountEmpty
<1>6. new \in Docs /\ draft'[new] = None /\ made[new] = 0 /\ typed[new] = 0
  BY <1>1, <1>2, <1>4 DEF RowRight, Placed, Docs
<1>7. versions' \in [Docs -> Seq(Content)]
  BY <1>2, <1>3, <1>5 DEF FlushedSession
<1>8. s'.doc = s.doc /\ s.doc \in Docs \cup {None} /\ s.doc # new /\ (s'.dirty => s.dirty)
  BY <1>1, <1>2, <1>3, <1>6, NoneApart, SessionFacts DEF FlushedSession, Placed
\* The row of each document: as the flush left it, or an empty one.
<1>9. \A d \in Docs :
        \/ versions'[d] = f.store.versions[d]
        \/ d = new /\ versions'[d] = << <<>> >>
  BY <1>2, <1>3 DEF FlushedSession
<1>10. \A d \in Docs \ {new} : versions'[d] = f.store.versions[d]
  BY <1>2, <1>3 DEF FlushedSession
<1>11. \A d \in Docs :
         versions'[d] = f.store.versions[d] =>
           /\ Exists(d)' = Exists(d) /\ Tip(d)' = Len(f.store.versions[d])
           /\ Latest(d)' = f.store.versions[d][Len(f.store.versions[d])]
  BY <1>4 DEF RowRight, Exists, Tip, Latest
<1>12. versions'[new] = << <<>> >> => Exists(new)' /\ Tip(new)' = 1 /\ Latest(new)' = <<>>
  BY <1>5 DEF Exists, Tip, Latest
<1>13. TypeOK'
  <2>1. faults' \in Nat /\ s' \in Session
    BY <1>1, <1>3, FaultyFacts DEF FlushedSession
  <2> QED  BY <1>1, <1>3, <1>7, <2>1 DEF TypeOK, FlushedSession
<1>14. Placed'
  <2>1. \A d \in Docs : ~Exists(d)' => draft'[d] = None /\ made'[d] = 0 /\ typed'[d] = 0
    BY <1>1, <1>4, <1>9, <1>11, <1>12 DEF Placed, RowRight
  <2>2. (s.doc # None => Exists(s.doc) /\ s.version \in 1 .. Tip(s.doc))'
    BY <1>1, <1>4, <1>8, <1>10, <1>11 DEF Placed, RowRight
  <2>3. \A d \in Existing : Exists(d)'
    BY <1>9, <1>11, <1>12 DEF Placed, Docs
  <2>4. s'.dirty => s'.doc # None
    BY <1>8 DEF Placed
  <2> QED  BY <2>1, <2>2, <2>3, <2>4 DEF Placed
<1>15. Selecting' /\ Early'
  BY <1>1 DEF Selecting, Early
<1>16. Untouched'
  <2> SUFFICES ASSUME s'.count = 0
               PROVE  Untouched'
    BY DEF Untouched
  <2>1. s.count = 0 /\ s' = s /\ f.store = Stored
    BY <1>1, <1>3 DEF FlushedSession
  <2>2. \A d \in Docs : \A v \in 1 .. Tip(d)' : Clean(versions'[d][v])
    <3>1. ASSUME NEW d \in Docs, versions'[d] = f.store.versions[d]
          PROVE  \A v \in 1 .. Tip(d)' : Clean(versions'[d][v])
      BY <1>4, <1>11, <2>1, <3>1 DEF RowRight
    <3>2. versions'[new] = << <<>> >> => \A v \in 1 .. Tip(new)' : Clean(versions'[new][v])
      BY <1>5, <1>12 DEF Clean
    <3> QED  BY <1>9, <3>1, <3>2
  <2>3. \A d \in Docs : draft'[d] # None => Clean(draft'[d])
    BY <1>1, <1>4, <2>1 DEF RowRight
  <2> QED  BY <1>1, <2>1, <2>2, <2>3 DEF Untouched
<1>17. Viewed' /\ HandlesAreCurrent'
  <2>1. /\ Viewed'
        /\ \A h \in handles : \A K : GoesOn(s.host, h, K) /\ "fields" \in K => GoesOn(s'.host, h, K)
    BY <1>1, FlushKeepsReads
  <2> QED  BY <1>1, <2>1 DEF HandlesAreCurrent, HandlesAllow
<1>18. Reads'
  BY <1>1 DEF Reads
<1>19. Own'
  <2>1. (s.doc # None => Count(s.host, Edits) = made[s.doc])'
    BY <1>1, <1>3, <1>8, RefreshFacts DEF FlushedSession, Own
  <2>2. \A d \in Docs : Exists(d)' => Count(Latest(d)', Edits) = made'[d] \/ (d = s'.doc /\ s'.dirty)
    BY <1>1, <1>4, <1>5, <1>6, <1>8, <1>9, <1>11, <1>12 DEF RowRight
  <2>3. \A d \in Docs : draft'[d] # None => Count(draft'[d], Edits) = Count(Latest(d)', Edits)
    BY <1>1, <1>4, <1>6, <1>9, <1>11 DEF RowRight
  <2> QED  BY <1>1, <2>1, <2>2, <2>3 DEF Own
<1>20. Others'
  <2>1. \A d \in Docs \ {new} : Exists(d)' => Count(Working(d)', {"typed"}) = typed'[d]
    BY <1>1, <1>4, <1>10, <1>11 DEF RowRight, Working, Tip
  <2>2. Exists(new)' => Count(Working(new)', {"typed"}) = typed'[new]
    BY <1>1, <1>2, <1>5, <1>6, <1>9, <1>11, <1>12 DEF Working, Latest
  <2>3. OthersAreKept'
    BY <2>1, <2>2 DEF OthersAreKept
  <2>4. (s.doc # None /\ UpToDate => Count(s.host, {"typed"}) = typed[s.doc])'
    BY <1>1, <1>4, <1>8, <1>10, <1>11 DEF RowRight, UpToDate
  <2>5. (s.doc # None /\ s.draft # None => Count(s.draft, {"typed"}) =< typed[s.doc])'
    BY <1>1, <1>3, <1>8 DEF FlushedSession, Others
  <2> QED  BY <2>3, <2>4, <2>5 DEF Others
<1> QED  BY <1>13, <1>14, <1>15, <1>16, <1>17, <1>18, <1>19, <1>20

-----------------------------------------------------------------------------
(* The session is bound to another document.                               *)

\* The run has changed nothing when it opens a document that exists.
LEMMA Rebound ==
    ASSUME IInv, NEW d \in Docs, Exists(d), NEW v \in 1 .. Tip(d), s.count = 0,
           s' = Rebind(d, v, Editing(d, v), DraftOf(d, v)),
           UNCHANGED <<versions, draft, made, typed>>, phase' # "ended"
    PROVE  /\ s' \in Session /\ s'.doc = d /\ s'.version = v /\ s'.host = Editing(d, v)
           /\ s'.count = 0 /\ s'.revision = 0 /\ ~s'.dirty /\ Clean(s'.host)
           /\ Placed' /\ Own' /\ Others'
<1> USE DEF IInv
<1>1. /\ Tip(d) \in Nat /\ v \in Nat /\ Editing(d, v) \in Content
      /\ DraftOf(d, v) \in Content \cup {None} /\ Working(d) \in Content
      /\ Editing(d, Tip(d)) = Working(d) /\ DraftOf(d, Tip(d)) = draft[d]
  BY RowFacts
<1>2. /\ s' \in Session
      /\ s'.doc = d /\ s'.version = v /\ s'.host = Editing(d, v) /\ s'.draft = DraftOf(d, v)
      /\ ~s'.dirty /\ s'.revision = 0 /\ s'.count = 0
  BY <1>1, RebindFacts
<1>3. Clean(Editing(d, v))
  BY DEF Untouched, Editing, DraftOf
<1>4. Count(Editing(d, v), Edits) = 0 /\ \A e \in Docs : made[e] = 0
  BY <1>1, <1>3, CleanFacts DEF Untouched
<1>5. \A e \in Docs : /\ Tip(e)' = Tip(e) /\ Exists(e)' = Exists(e) /\ Latest(e)' = Latest(e)
                      /\ Working(e)' = Working(e)
  BY DEF Tip, Exists, Latest, Working
<1>6. Placed'
  BY <1>2, <1>5 DEF Placed, Docs
<1>7. Own'
  <2>1. ~s.dirty
    BY DEF Untouched
  <2>2. \A e \in Docs : Exists(e)' => Count(Latest(e)', Edits) = made'[e]
    BY <1>5, <2>1 DEF Own
  <2> QED  BY <1>2, <1>4, <1>5, <2>2 DEF Own
<1>8. Others'
  <2>1. OthersAreKept'
    BY <1>5 DEF Others, OthersAreKept
  <2>2. Count(Working(d), {"typed"}) = typed[d]
    BY DEF Others, OthersAreKept
  <2>3. (s.doc # None /\ UpToDate => Count(s.host, {"typed"}) = typed[s.doc])'
    BY <1>1, <1>2, <1>5, <2>2 DEF UpToDate
  <2>4. (s.doc # None /\ s.draft # None => Count(s.draft, {"typed"}) =< typed[s.doc])'
    <3>1. DraftOf(d, v) # None => DraftOf(d, v) = Working(d)
      BY DEF DraftOf, Working
    <3>2. typed[d] \in Nat
      BY DEF TypeOK
    <3> QED  BY <1>2, <2>2, <3>1, <3>2
  <2> QED  BY <2>1, <2>3, <2>4 DEF Others
<1> QED  BY <1>2, <1>3, <1>6, <1>7, <1>8

LEMMA OpenKeeps ==
    ASSUME IInv, Open
    PROVE  IInv'
<1> USE DEF IInv
<1>1. /\ phase = "opening" /\ phase' = "retrieving"
      /\ UNCHANGED <<versions, draft, locked, handles, changed, observed, selecting, turn, mixed,
                     view, failed, made, typed, faults>>
  BY DEF Open, store, reads, history
<1>2. /\ handles = {} /\ observed = {} /\ ~changed /\ ~mixed /\ selecting = None
      /\ s.count = 0 /\ view = NoView
  BY <1>1 DEF Early
<1>3. /\ s' \in Session /\ s'.count = 0 /\ s'.revision = 0 /\ ~s'.dirty /\ Clean(s'.host)
      /\ Placed' /\ Own' /\ Others'
  <2>1. CASE s.doc = None
    <3>1. s' = s
      BY <2>1 DEF Open
    <3>2. Placed' /\ Own' /\ Others'
      BY <1>1, <3>1, Unmoved DEF store
    <3> QED  BY <1>2, <3>1, <3>2 DEF Untouched, TypeOK
  <2>2. CASE s.doc # None
    <3>1. /\ s.doc \in Docs /\ Exists(s.doc) /\ s.version \in 1 .. Tip(s.doc)
          /\ s' = Rebind(s.doc, s.version, Editing(s.doc, s.version), DraftOf(s.doc, s.version))
      BY <2>2, SessionFacts DEF Placed, Open
    <3> QED  BY <1>1, <1>2, <3>1, Rebound
  <2> QED  BY <2>1, <2>2
<1>4. view.of = None /\ view.message = FALSE /\ view.revision = 0
  BY <1>2 DEF NoView
<1>5. TypeOK'
  BY <1>1, <1>3 DEF TypeOK
<1>6. Selecting' /\ Early' /\ HandlesAreCurrent' /\ Reads'
  BY <1>1, <1>2, <1>3 DEF Selecting, Early, HandlesAreCurrent, Reads, NoView
<1>7. Untouched'
  BY <1>1, <1>2, <1>3, <1>4 DEF Untouched, Tip
<1>8. Viewed'
  BY <1>1, <1>4 DEF Viewed, Shown
<1> QED  BY <1>3, <1>5, <1>6, <1>7, <1>8

\* Clean contents show the same changes: none.
LEMMA CleanView ==
    ASSUME NEW c, NEW b, Clean(c), Clean(b)
    PROVE  OwnChanges(c) = OwnChanges(b)
BY DEF Clean, OwnChanges

LEMMA SelectedKeeps ==
    ASSUME IInv, Selected
    PROVE  IInv'
<1> USE DEF IInv
<1> DEFINE d == selecting.doc
           v == selecting.version
<1>1. /\ selecting # None /\ selecting' = None /\ handles' = {}
      /\ s' = Rebind(d, v, Editing(d, v), DraftOf(d, v))
      /\ view' = [view EXCEPT !.of = ViewOfSelected(d, v)]
      /\ UNCHANGED <<versions, draft, phase, locked, changed, observed, turn, mixed, failed,
                     made, typed, faults>>
  BY DEF Selected, store, history
<1>2. /\ d \in Docs /\ Exists(d) /\ v \in 1 .. Tip(d)
      /\ phase = "running" /\ mixed /\ s.count = 0 /\ ~s.dirty
  BY <1>1 DEF Selecting, TypeOK, Selections
<1>3. /\ s' \in Session /\ s'.doc = d /\ s'.version = v /\ s'.host = Editing(d, v)
      /\ s'.count = 0 /\ s'.revision = 0 /\ ~s'.dirty /\ Clean(s'.host)
      /\ Placed' /\ Own' /\ Others'
  BY <1>1, <1>2, Rebound
<1>4. /\ ViewOfSelected(d, v) \in (Docs \X Nat) \cup {None}
      /\ ViewOfSelected(d, v) # None => ViewOfSelected(d, v) = <<d, 1>> /\ v = 1
  BY <1>2 DEF ViewOfSelected
<1> HIDE DEF d, v
<1>5. /\ view' \in [of : (Docs \X Nat) \cup {None}, message : BOOLEAN, revision : Nat,
                    body : [Docs -> Content \cup {None}]]
      /\ view'.of = ViewOfSelected(d, v) /\ view'.revision = 0
      /\ view'.body = view.body
  BY <1>1, <1>2, <1>4 DEF TypeOK, Untouched
<1>6. \A e \in Docs : view.body[e] # None => Clean(view.body[e])
  BY <1>2 DEF Untouched
<1>7. TypeOK'
  BY <1>1, <1>3, <1>5 DEF TypeOK
<1>8. Selecting' /\ Early' /\ HandlesAreCurrent' /\ Reads'
  BY <1>1, <1>2 DEF Selecting, Early, HandlesAreCurrent, HandlesAllow, Reads
<1>9. Untouched'
  BY <1>1, <1>2, <1>3, <1>5, <1>6 DEF Untouched, Tip
<1>10. Viewed'
  <2>1. (view.of # None => view.of[2] =< s.version /\ view.revision =< s.revision)'
    BY <1>3, <1>4, <1>5
  <2>2. Shown' # None => Clean(Shown')
    BY <1>2, <1>3, <1>5, <1>6 DEF Shown
  <2> QED  BY <1>3, <2>1, <2>2, CleanView DEF Viewed
<1> QED  BY <1>3, <1>7, <1>8, <1>9, <1>10

\* The session of a document that the run has just created.
LEMMA CreateKeeps ==
    ASSUME IInv, NEW f \in Flushes, NEW d \in Created, NEW duplicated \in BOOLEAN,
           Faulty(f.fault), Create(f, d, duplicated)
    PROVE  IInv'
<1> USE DEF IInv
<1> DEFINE body == IF duplicated THEN f.session.host ELSE <<>>
<1>1. /\ phase = "running" /\ selecting = None /\ mixed /\ f.ok /\ ~Exists(d)
      /\ duplicated => s.doc # None
      /\ versions' = [f.store.versions EXCEPT ![d] = <<body>>]
      /\ draft' = f.store.draft
      /\ s' = Rebind(d, 1, body, None)
      /\ handles' = {}
      /\ view' = ViewOfCreated(d, duplicated)
      /\ made' = [made EXCEPT ![d] = Count(body, Edits)]
      /\ typed' = [typed EXCEPT ![d] = Count(body, {"typed"})]
      /\ UNCHANGED <<phase, locked, changed, observed, selecting, turn, mixed, failed, faults>>
  BY DEF Create, InTurn, Ready
<1>2. FlushedSession(f) /\ (s.count = 0 => f.session = s /\ f.store = Stored)
  BY Flushing
<1>3. \A e \in Docs : RowRight(f, e)
  BY RowsRight
<1>4. ~f.session.dirty /\ d \in Docs /\ s.version \in Nat
  BY <1>1, <1>2, SessionFacts DEF FlushedSession, Docs
<1>5. body \in Content /\ (s.count = 0 => Clean(body))
  <2>1. f.session.host \in Content
    BY <1>2, RefreshFacts DEF FlushedSession
  <2>2. s.count = 0 => Clean(f.session.host)
    BY <1>2 DEF Untouched
  <2>3. <<>> \in Content /\ Clean(<<>>)
    BY EmptyContent, CountEmpty DEF Clean
  <2> QED  BY <2>1, <2>2, <2>3
<1> HIDE DEF body
<1>6. /\ Count(body, Edits) \in Nat /\ Count(body, {"typed"}) \in Nat
      /\ (s.count = 0 => Count(body, Edits) = 0)
  BY <1>5, PlacesFinite, CleanFacts
<1>7. /\ s' \in Session
      /\ s'.doc = d /\ s'.version = 1 /\ s'.host = body /\ s'.draft = None
      /\ ~s'.dirty /\ s'.revision = 0 /\ s'.count = s.count
  <2> DEFINE v == 1
             none == None
  <2>1. v \in Nat /\ none \in Content \cup {None}
    OBVIOUS
  <2> HIDE DEF v, none
  <2>2. LET r == Rebind(d, v, body, none)
        IN  /\ r \in Session
            /\ r.doc = d /\ r.version = v /\ r.host = body /\ r.draft = none
            /\ ~r.dirty /\ r.revision = 0 /\ r.count = s.count
    BY <1>4, <1>5, <2>1, RebindFacts
  <2>3. s' = Rebind(d, v, body, none)
    BY <1>1 DEF v, none
  <2> QED  BY <2>2, <2>3 DEF v, none
<1>8. /\ made' \in [Docs -> Nat] /\ made'[d] = Count(body, Edits)
      /\ typed' \in [Docs -> Nat] /\ typed'[d] = Count(body, {"typed"})
      /\ \A e \in Docs \ {d} : made'[e] = made[e] /\ typed'[e] = typed[e]
  BY <1>1, <1>4, <1>6 DEF TypeOK
<1>9. /\ versions' \in [Docs -> Seq(Content)]
      /\ versions'[d] = <<body>> /\ \A e \in Docs \ {d} : versions'[e] = f.store.versions[e]
      /\ draft'[d] = None
  <2>1. <<body>> \in Seq(Content)
    BY <1>5
  <2>2. draft'[d] = None
    BY <1>1, <1>3, <1>4 DEF RowRight
  <2> QED  BY <1>1, <1>2, <1>4, <2>1, <2>2 DEF FlushedSession
<1>10. \A e \in Docs \ {d} :
         /\ Exists(e)' = Exists(e) /\ Tip(e)' = Len(f.store.versions[e])
         /\ Latest(e)' = f.store.versions[e][Len(f.store.versions[e])]
  BY <1>3, <1>9 DEF RowRight, Exists, Tip, Latest
<1>11. Exists(d)' /\ Tip(d)' = 1 /\ Latest(d)' = body
  <2>1. Len(<<body>>) = 1 /\ <<body>>[1] = body
    OBVIOUS
  <2> QED  BY <1>9, <2>1 DEF Exists, Tip, Latest
<1>12. s.doc # d
  BY <1>1, <1>4, NoneApart DEF Placed
<1>13. /\ view' \in [of : (Docs \X Nat) \cup {None}, message : BOOLEAN, revision : Nat,
                     body : [Docs -> Content \cup {None}]]
       /\ view'.of # None => /\ view'.of[2] = 1 /\ view'.revision = 0 /\ s.count = 0
       /\ s.count = 0 => /\ view'.revision = 0
                         /\ \A e \in Docs : view'.body[e] # None => Clean(view'.body[e])
  <2>1. CASE duplicated /\ view.of # None /\ s.count = 0
    <3> DEFINE bodies == [view.body EXCEPT ![d] = view.body[s.doc]]
               copy == [view EXCEPT !.of = <<d, 1>>, !.revision = 0, !.body = bodies]
    <3>1. view' = copy
      BY <1>1, <2>1 DEF ViewOfCreated
    <3>2. s.doc \in Docs
      BY <1>1, <2>1, SessionFacts
    <3>3. bodies \in [Docs -> Content \cup {None}]
      BY <1>4, <3>2, SessionFacts
    <3>4. \A e \in Docs : bodies[e] # None => Clean(bodies[e])
      BY <1>4, <2>1, <3>2, SessionFacts DEF Untouched
    <3> HIDE DEF bodies
    <3>5. <<d, 1>> \in Docs \X Nat /\ <<d, 1>>[2] = 1
      BY <1>4
    <3>6. copy \in [of : (Docs \X Nat) \cup {None}, message : BOOLEAN, revision : Nat,
                    body : [Docs -> Content \cup {None}]]
          /\ copy.of = <<d, 1>> /\ copy.revision = 0 /\ copy.body = bodies
      BY <3>3, <3>5 DEF TypeOK
    <3> HIDE DEF copy
    <3> QED  BY <2>1, <3>1, <3>4, <3>5, <3>6
  <2>2. CASE ~(duplicated /\ view.of # None /\ s.count = 0)
    <3>1. view' = [view EXCEPT !.of = None]
      BY <1>1, <2>2 DEF ViewOfCreated
    <3>2. view'.of = None /\ view'.revision = view.revision /\ view'.body = view.body
      BY <3>1 DEF TypeOK
    <3>3. view' \in [of : (Docs \X Nat) \cup {None}, message : BOOLEAN, revision : Nat,
                     body : [Docs -> Content \cup {None}]]
      BY <3>1 DEF TypeOK
    <3> QED  BY <3>2, <3>3 DEF Untouched
  <2> QED  BY <2>1, <2>2
<1>14. TypeOK'
  BY <1>1, <1>2, <1>7, <1>8, <1>9, <1>13 DEF TypeOK, FlushedSession
<1>15. Placed'
  <2>1. \A e \in Docs : ~Exists(e)' => draft'[e] = None /\ made'[e] = 0 /\ typed'[e] = 0
    BY <1>1, <1>3, <1>8, <1>10, <1>11 DEF Placed, RowRight
  <2>2. \A e \in Existing : Exists(e)'
    BY <1>10, <1>11 DEF Placed, Docs
  <2> QED  BY <1>7, <1>11, <2>1, <2>2 DEF Placed
<1>16. Selecting' /\ Early' /\ HandlesAreCurrent' /\ Reads'
  BY <1>1 DEF Selecting, Early, HandlesAreCurrent, HandlesAllow, Reads
<1>17. Untouched'
  <2> SUFFICES ASSUME s.count = 0
               PROVE  Untouched'
    BY <1>7 DEF Untouched
  <2>1. \A e \in Docs : made'[e] = 0
    BY <1>6, <1>8 DEF Untouched
  <2>2. ASSUME NEW e \in Docs, NEW v \in 1 .. Tip(e)'
        PROVE  Clean(versions'[e][v])
    <3>1. CASE e = d
      <4>1. v = 1 /\ <<body>>[1] = body
        BY <1>11, <2>2, <3>1
      <4> QED  BY <1>5, <1>9, <3>1, <4>1
    <3>2. CASE e # d
      BY <1>3, <1>9, <1>10, <2>2, <3>2 DEF RowRight
    <3> QED  BY <3>1, <3>2
  <2>3. \A e \in Docs : draft'[e] # None => Clean(draft'[e])
    BY <1>1, <1>3 DEF RowRight
  <2> QED  BY <1>5, <1>7, <1>13, <2>1, <2>2, <2>3 DEF Untouched
<1>18. Viewed'
  <2>1. (view.of # None => view.of[2] =< s.version /\ view.revision =< s.revision)'
    BY <1>7, <1>13
  <2>2. Shown' # None => view'.of # None /\ Shown' = view'.body[d]
    <3>1. <<d, 1>> \in (Docs \cup {None}) \X Nat
      BY <1>4
    <3> QED  BY <1>7, <3>1, NoneApart DEF Shown
  <2>3. Shown' # None => Clean(Shown') /\ Clean(s'.host)
    BY <1>4, <1>5, <1>7, <1>13, <2>2
  <2> QED  BY <2>1, <2>3, CleanView DEF Viewed
<1>19. Own'
  <2>1. \A e \in Docs : Exists(e)' => Count(Latest(e)', Edits) = made'[e]
    BY <1>3, <1>4, <1>8, <1>10, <1>11 DEF RowRight
  <2>2. \A e \in Docs : draft'[e] # None => Count(draft'[e], Edits) = Count(Latest(e)', Edits)
    BY <1>1, <1>3, <1>9, <1>10 DEF RowRight
  <2> QED  BY <1>7, <1>8, <2>1, <2>2 DEF Own
<1>20. Others'
  <2>1. \A e \in Docs \ {d} : Exists(e)' => Count(Working(e)', {"typed"}) = typed'[e]
    BY <1>1, <1>3, <1>8, <1>9, <1>10 DEF RowRight, Working, Tip
  <2>2. Working(d)' = body
    BY <1>9, <1>11 DEF Working, Latest
  <2>3. OthersAreKept'
    BY <1>8, <2>1, <2>2 DEF OthersAreKept
  <2> QED  BY <1>7, <1>8, <2>3 DEF Others
<1> QED  BY <1>14, <1>15, <1>16, <1>17, <1>18, <1>19, <1>20

-----------------------------------------------------------------------------
(* The invariant, and what it says.                                        *)

LEMMA InitHolds == Init => IInv
<1> SUFFICES ASSUME Init PROVE IInv
  OBVIOUS
<1> DEFINE one == << <<>> >>
<1>1. /\ <<>> \in Content /\ one \in Seq(Content) /\ Len(one) = 1 /\ one[1] = <<>>
      /\ Len(<<>>) = 0 /\ <<>> \in Seq(Content)
      /\ \A K : Places(<<>>, K) = {} /\ Count(<<>>, K) = 0
  BY EmptyContent, CountEmpty, EmptySeq
<1>2. versions = [d \in Docs |-> IF d \in Existing THEN one ELSE <<>>]
  BY DEF Init
<1> HIDE DEF one
<1>3. PICK target \in Existing \cup {None} :
        /\ locked \in {None, target}
        /\ s = [doc |-> target, version |-> IF target = None THEN 0 ELSE 1, draft |-> None,
                host |-> <<>>, dirty |-> FALSE, revision |-> 0, count |-> 0]
  BY DEF Init
<1>4. /\ s \in Session /\ s.doc = target /\ s.version = (IF target = None THEN 0 ELSE 1)
      /\ s.draft = None /\ s.host = <<>> /\ ~s.dirty /\ s.revision = 0 /\ s.count = 0
  BY <1>1, <1>3 DEF Session, Docs
<1>5. /\ draft = [d \in Docs |-> None] /\ phase = "opening"
      /\ handles = {} /\ changed = FALSE /\ selecting = None
      /\ turn = 0 /\ mixed = FALSE /\ observed = {} /\ view = NoView /\ failed = FALSE
      /\ made = [d \in Docs |-> 0] /\ typed = [d \in Docs |-> 0] /\ faults = 0
  BY DEF Init
<1>6. \A d \in Docs : /\ versions[d] = IF d \in Existing THEN one ELSE <<>>
                      /\ draft[d] = None /\ made[d] = 0 /\ typed[d] = 0
  BY <1>2, <1>5
<1>7. \A d \in Docs : /\ Exists(d) <=> d \in Existing
                      /\ Tip(d) = IF d \in Existing THEN 1 ELSE 0
                      /\ d \in Existing => Latest(d) = <<>> /\ Working(d) = <<>>
  <2> SUFFICES ASSUME NEW d \in Docs
               PROVE  /\ Exists(d) <=> d \in Existing
                      /\ Tip(d) = IF d \in Existing THEN 1 ELSE 0
                      /\ d \in Existing => Latest(d) = <<>> /\ Working(d) = <<>>
    OBVIOUS
  <2>1. CASE d \in Existing
    <3>1. versions[d] = one /\ draft[d] = None
      BY <1>6, <2>1
    <3>2. Tip(d) = 1
      BY <1>1, <3>1 DEF Tip
    <3>3. Latest(d) = <<>>
      BY <1>1, <3>1, <3>2 DEF Latest
    <3> QED  BY <2>1, <3>1, <3>2, <3>3 DEF Exists, Working, Latest
  <2>2. CASE d \notin Existing
    <3>1. versions[d] = <<>>
      BY <1>6, <2>2
    <3>2. Tip(d) = 0
      BY <1>1, <3>1 DEF Tip
    <3> QED  BY <2>2, <3>2 DEF Exists
  <2> QED  BY <2>1, <2>2
<1>8. /\ NoView \in [of : (Docs \X Nat) \cup {None}, message : BOOLEAN, revision : Nat,
                     body : [Docs -> Content \cup {None}]]
      /\ NoView.of = None /\ NoView.message = FALSE /\ NoView.revision = 0
      /\ \A d \in Docs : NoView.body[d] = None
  BY DEF NoView
<1>9. TypeOK
  BY <1>1, <1>2, <1>3, <1>4, <1>5, <1>8 DEF TypeOK, Docs
<1>10. Placed
  BY <1>3, <1>4, <1>6, <1>7, NoneApart DEF Placed, Docs
<1>11. Selecting /\ Early /\ HandlesAreCurrent /\ Reads
  BY <1>4, <1>5 DEF Selecting, Early, HandlesAreCurrent, HandlesAllow, Reads
<1>12. Untouched
  <2>1. Clean(s.host)
    BY <1>1, <1>4 DEF Clean
  <2>2. \A d \in Docs : \A v \in 1 .. Tip(d) : Clean(versions[d][v])
    BY <1>1, <1>6, <1>7 DEF Clean
  <2> QED  BY <1>4, <1>5, <1>6, <1>8, <2>1, <2>2 DEF Untouched
<1>13. Viewed
  BY <1>5, <1>8 DEF Viewed, Shown
<1>14. Own
  BY <1>1, <1>3, <1>4, <1>5, <1>6, <1>7, NoneApart DEF Own, Docs
<1>15. Others
  <2>1. OthersAreKept
    BY <1>1, <1>6, <1>7 DEF OthersAreKept
  <2> QED  BY <1>1, <1>3, <1>4, <1>6, <2>1, NoneApart DEF Others, Docs
<1> QED  BY <1>9, <1>10, <1>11, <1>12, <1>13, <1>14, <1>15 DEF IInv

LEMMA CallKeeps == IInv /\ Call => IInv'
<1> SUFFICES ASSUME IInv, Call PROVE IInv'
  OBVIOUS
<1>1. ASSUME NEW change \in Edits, NEW applied \in 1 .. 2, Edit(change, applied)
      PROVE  IInv'
  BY <1>1, ChangesKeeps DEF Edit, InTurn, Ready
<1>2. ASSUME NEW profile \in BOOLEAN, Restyle(profile) PROVE IInv'
  <2> DEFINE change == "moves"
             n == 1
  <2>1. change \in Edits /\ n \in 1 .. 2 /\ Edit(change, n)
    BY <1>2 DEF Edits, Restyle
  <2> HIDE DEF change, n
  <2> QED  BY <1>1, <2>1
<1> QED  BY <1>1, <1>2, InspectKeeps, SelectedKeeps, SelectFailsKeeps, SelectKeeps,
            CreateFailsKeeps, CreateKeeps DEF Call

LEMMA RunKeeps == IInv /\ Run => IInv'
<1> SUFFICES ASSUME IInv, Run PROVE IInv'
  OBVIOUS
<1>1. ASSUME ApplyAppearance PROVE IInv'
  <2> DEFINE change == "moves"
             n == 1
  <2>1. change \in Edits /\ n \in 1 .. 2
    BY DEF Edits
  <2>2. Changes(change, n) /\ selecting = None /\ phase' = "finishing"
    BY <1>1 DEF ApplyAppearance, Ready
  <2> HIDE DEF change, n
  <2> QED  BY <2>1, <2>2, ChangesKeeps
<1> QED  BY <1>1, OpenKeeps, RetrieveKeeps, BeginTurnKeeps, EndRunKeeps DEF Run

LEMMA TabsKeep == IInv /\ Tabs => IInv'
BY AutosavedKeeps, SavedElsewhereKeeps DEF Tabs

LEMMA StutterKeeps == IInv /\ UNCHANGED vars => IInv'
<1> SUFFICES ASSUME IInv, UNCHANGED vars PROVE IInv'
  OBVIOUS
<1> USE DEF IInv
<1>1. /\ UNCHANGED <<versions, draft, phase, locked, s, handles, changed, observed, selecting>>
      /\ UNCHANGED <<turn, mixed, view, failed, made, typed, faults>>
  BY DEF vars, store, reads, history
<1>2. TypeOK'
  BY <1>1 DEF TypeOK
<1>3. Placed' /\ Own' /\ Others'
  BY <1>1, Unmoved DEF store
<1>4. Selecting' /\ Early' /\ Untouched'
  BY <1>1 DEF Selecting, Early, Untouched, Exists, Tip
<1>5. HandlesAreCurrent' /\ Reads' /\ Viewed'
  BY <1>1 DEF HandlesAreCurrent, HandlesAllow, Reads, Viewed, Shown
<1> QED  BY <1>2, <1>3, <1>4, <1>5

LEMMA StepKeeps == IInv /\ [Next]_vars => IInv'
BY CallKeeps, RunKeeps, TabsKeep, StutterKeeps DEF Next

\* The inductive invariant: what the session, the rows of its documents, the
\* reads and the view say of one another, through every call and every save.
THEOREM Invariant == Spec => []IInv
<1>1. Init => IInv
  BY InitHolds
<1>2. IInv /\ [Next]_vars => IInv'
  BY StepKeeps
<1> QED  BY <1>1, <1>2, PTL DEF Spec

\* The session, the rows and the view keep to their types, whatever is opened,
\* created, saved or lost.
THEOREM TypesHold == Spec => []TypeOK
<1>1. IInv => TypeOK
  BY DEF IInv
<1> QED  BY <1>1, Invariant, PTL

\* A handle that the model holds was read from the document that is active
\* and still points to what was read (currentHandles of docx-tools.ts).
THEOREM HandlesStayCurrent == Spec => []HandlesAreCurrent
<1>1. IInv => HandlesAreCurrent
  BY DEF IInv
<1> QED  BY <1>1, Invariant, PTL

\* A read that guardRepeatedReads answers from an earlier one would have
\* returned the same, with handles that are still accepted.
THEOREM ReuseStaysCurrent == Spec => []ReuseIsCurrent
<1>1. IInv => ReuseIsCurrent
  BY DEF IInv, Reads, ReuseIsCurrent, Reusable
<1> QED  BY <1>1, Invariant, PTL

\* The run's changes are in the latest version or still to be saved, and a run
\* that ends without saving them says so; no save of the run loses what the
\* tabs saved, through creations, conflicts, failures and lost replies.
THEOREM EditsAreNotLost == Spec => []NoEditIsLost
<1>1. IInv => NoEditIsLost
  <2> SUFFICES ASSUME IInv PROVE OwnAreKept /\ OthersAreKept
    BY DEF NoEditIsLost
  <2>1. OthersAreKept
    BY DEF IInv, Others
  <2>2. OwnAreKept
    BY NoneApart DEF IInv, Own, OwnAreKept, Latest
  <2> QED  BY <2>1, <2>2
<1> QED  BY <1>1, Invariant, PTL

\* When a turn begins, the complete view in the prompt holds the run's changes
\* to the active document, all of them and in their order, and no others.
THEOREM ViewStaysCurrent == Spec => ViewIsCurrent
<1>1. ASSUME IInv, [Next]_vars
      PROVE  [turn' > turn => (Shown = None \/ OwnChanges(Shown) = OwnChanges(s.host))']_vars
  <2> SUFFICES ASSUME turn' > turn, Next
               PROVE  (Shown = None \/ OwnChanges(Shown) = OwnChanges(s.host))'
    BY <1>1
  <2>1. turn \in Nat /\ turn' # turn
    BY <1>1 DEF IInv, TypeOK
  <2>2. \E others, ok \in BOOLEAN : BeginTurn(others, ok)
    BY <2>1 DEF Next, Run, Call, Tabs, Open, Retrieve, ApplyAppearance, EndRun, Changes, Edit,
                Restyle, Inspect, Selected, SelectFails, Select, CreateFails, Create, Types,
                Autosaved, SavedElsewhere
  <2> QED  BY <1>1, <2>2, BeginTurnKeeps
<1> QED  BY <1>1, Invariant, PTL DEF Spec, ViewIsCurrent
=============================================================================
