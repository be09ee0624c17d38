--------------------------- MODULE DocTabs_proofs ---------------------------
(***************************************************************************)
(* Proofs about DocTabs, for every set of documents, names and contents.   *)
(* What the operations on the tab widget do is stated in lemmas about any  *)
(* window; the proofs about the slots use nothing else of them.            *)
(***************************************************************************)
EXTENDS DocTabs, SequenceTheorems, TLAPS

Page == [name : Name \cup {NoName}, content : Content, changed : BOOLEAN]
Windows == [tabs : Seq(Doc), cur : Nat, doc : [Doc -> Page]]
Pages(w) == ToSet(w.tabs)

\* A tab widget as Qt keeps it: every page once, the current one among them.
WinOK(w) ==
  /\ w \in Windows
  /\ w.cur <= Len(w.tabs)
  /\ w.tabs # <<>> => w.cur >= 1
  /\ \A i, j \in DOMAIN w.tabs : w.tabs[i] = w.tabs[j] => i = j

-----------------------------------------------------------------------------
\* The indices of the pages.
LEMMA Indices ==
  ASSUME NEW w, w \in Windows
  PROVE  /\ DOMAIN w.tabs = 1..Len(w.tabs)
         /\ Len(w.tabs) \in Nat
         /\ \A i \in 1..Len(w.tabs) : w.tabs[i] \in Doc
         /\ w.tabs = <<>> <=> Len(w.tabs) = 0
         /\ \A d : d \in Pages(w) <=> \E i \in 1..Len(w.tabs) : w.tabs[i] = d
<1>1. w.tabs \in Seq(Doc)
  BY DEF Windows
<1>2. DOMAIN w.tabs = 1..Len(w.tabs) /\ Len(w.tabs) \in Nat
  BY <1>1, LenProperties
<1>3. w.tabs = <<>> <=> Len(w.tabs) = 0
  BY <1>1, EmptySeq
<1>4. \A i \in 1..Len(w.tabs) : w.tabs[i] \in Doc
  BY <1>1, ElementOfSeq
<1> QED
  BY <1>2, <1>3, <1>4 DEF Pages, ToSet

\* Two documents with the same fields are equal.
LEMMA PagesEqual == \A p, q \in Page :
  p.name = q.name /\ p.content = q.content /\ p.changed = q.changed => p = q
BY DEF Page

\* An empty document is a page.
LEMMA ClosedIsPage == \A n \in Name \cup {NoName} :
  [Closed EXCEPT !.name = n] = [name |-> n, content |-> Empty, changed |-> FALSE]
  /\ [Closed EXCEPT !.name = n] \in Page /\ Closed \in Page
<1> SUFFICES ASSUME NEW n \in Name \cup {NoName}
             PROVE  /\ [Closed EXCEPT !.name = n]
                         = [name |-> n, content |-> Empty, changed |-> FALSE]
                    /\ [Closed EXCEPT !.name = n] \in Page /\ Closed \in Page
  OBVIOUS
<1> DEFINE e == [Closed EXCEPT !.name = n]
           p == [name |-> n, content |-> Empty, changed |-> FALSE]
<1>1. e = p
  <2>1. e.name = p.name /\ e.content = p.content /\ e.changed = p.changed
    BY DEF Closed
  <2>2. Closed \in Page /\ p \in Page
    BY NameAssumption DEF Closed, Page
  <2>3. e \in Page
    BY <2>2 DEF Page
  <2> QED
    BY <2>1, <2>2, <2>3, PagesEqual
<1>2. [name |-> n, content |-> Empty, changed |-> FALSE] \in Page /\ Closed \in Page
  BY NameAssumption DEF Closed, Page
<1> QED
  BY <1>1, <1>2

\* The constructor of a document appends its page and shows it.
LEMMA AddedOK ==
  ASSUME NEW w, WinOK(w), NEW d \in Doc \ Pages(w), NEW n \in Name \cup {NoName},
         NEW a, a = Added(w, d, n),
         NEW p, p = [name |-> n, content |-> Empty, changed |-> FALSE]
  PROVE  /\ WinOK(a)
         /\ Pages(a) = Pages(w) \cup {d}
         /\ a.doc = [w.doc EXCEPT ![d] = p]
         /\ a.tabs = Append(w.tabs, d)
         /\ Len(a.tabs) = Len(w.tabs) + 1
         /\ a.tabs # <<>>
         /\ a.tabs[Len(a.tabs)] = d
         /\ \A i \in 1..Len(w.tabs) : a.tabs[i] = w.tabs[i]
<1>1. w \in Windows /\ w.tabs \in Seq(Doc) /\ w.doc \in [Doc -> Page]
  BY DEF WinOK, Windows
<1>2. p \in Page
  BY NameAssumption DEF Page
<1>3. a = [tabs |-> Append(w.tabs, d), cur |-> Len(w.tabs) + 1, doc |-> [w.doc EXCEPT ![d] = p]]
  <2>1. [Closed EXCEPT !.name = n] = p
    BY ClosedIsPage
  <2>2. a = [[w EXCEPT !.tabs = Append(@, d), !.doc[d] = p] EXCEPT !.cur = Len(w.tabs) + 1]
    BY <2>1 DEF Added, SetPage
  <2> QED
    BY <1>1, <2>2 DEF Windows
<1>4. /\ Append(w.tabs, d) \in Seq(Doc)
      /\ Len(Append(w.tabs, d)) = Len(w.tabs) + 1
      /\ \A i \in 1..Len(w.tabs) : Append(w.tabs, d)[i] = w.tabs[i]
      /\ Append(w.tabs, d)[Len(w.tabs) + 1] = d
  BY <1>1, AppendProperties
<1>5. [w.doc EXCEPT ![d] = p] \in [Doc -> Page]
  BY <1>1, <1>2
<1>6. a \in Windows
  BY <1>1, <1>3, <1>4, <1>5, Indices DEF Windows
<1>7. Pages(a) = Pages(w) \cup {d}
  <2>1. \A e : e \in Pages(a) <=> \E i \in 1..(Len(w.tabs) + 1) : a.tabs[i] = e
    <3>1. a.tabs = Append(w.tabs, d)
      BY <1>3
    <3>2. Len(a.tabs) = Len(w.tabs) + 1
      BY <3>1, <1>4
    <3>3. \A e : e \in Pages(a) <=> \E i \in 1..Len(a.tabs) : a.tabs[i] = e
      BY <1>6, Indices
    <3> QED
      BY <3>2, <3>3
  <2>2. \A e : e \in Pages(w) <=> \E i \in 1..Len(w.tabs) : w.tabs[i] = e
    BY <1>1, Indices
  <2>3. \A i \in 1..(Len(w.tabs) + 1) : i \in 1..Len(w.tabs) \/ i = Len(w.tabs) + 1
    BY <1>1, Indices
  <2>4. \A i \in 1..Len(w.tabs) : i \in 1..(Len(w.tabs) + 1)
    BY <1>1, Indices
  <2>5. Len(w.tabs) + 1 \in 1..(Len(w.tabs) + 1)
    BY <1>1, Indices
  <2>6. \A i \in 1..Len(w.tabs) : a.tabs[i] = w.tabs[i]
    BY <1>3, <1>4
  <2>7. a.tabs[Len(w.tabs) + 1] = d
    BY <1>3, <1>4
  <2>8. \A e \in Pages(a) : e \in Pages(w) \cup {d}
    BY <2>1, <2>2, <2>3, <2>6, <2>7
  <2>9. \A e \in Pages(w) \cup {d} : e \in Pages(a)
    BY <2>1, <2>2, <2>4, <2>5, <2>6, <2>7
  <2> QED
    BY <2>8, <2>9
<1>8. \A i, j \in DOMAIN a.tabs : a.tabs[i] = a.tabs[j] => i = j
  <2> SUFFICES ASSUME NEW i \in 1..(Len(w.tabs) + 1), NEW j \in 1..(Len(w.tabs) + 1),
                      a.tabs[i] = a.tabs[j]
               PROVE  i = j
    BY <1>3, <1>4, <1>6, Indices
  <2>1. \A k \in 1..Len(w.tabs) : w.tabs[k] # d
    BY <1>1, Indices
  <2>2. \A k, l \in 1..Len(w.tabs) : w.tabs[k] = w.tabs[l] => k = l
    BY <1>1, Indices DEF WinOK
  <2>3. \A k \in 1..(Len(w.tabs) + 1) : k \in 1..Len(w.tabs) \/ k = Len(w.tabs) + 1
    BY <1>1, Indices
  <2> QED
    BY <2>1, <2>2, <2>3, <1>3, <1>4
<1>9. a.cur <= Len(a.tabs) /\ a.cur >= 1 /\ a.tabs # <<>>
  <2>1. Len(w.tabs) \in Nat
    BY <1>1, Indices
  <2>2. a.cur = Len(w.tabs) + 1 /\ Len(a.tabs) = Len(w.tabs) + 1
    BY <1>3, <1>4
  <2>3. a.tabs # <<>>
    BY <2>1, <2>2
  <2> QED
    BY <2>1, <2>2, <2>3
<1>10. /\ a.doc = [w.doc EXCEPT ![d] = p]
       /\ a.tabs = Append(w.tabs, d)
       /\ Len(a.tabs) = Len(w.tabs) + 1
       /\ a.tabs[Len(a.tabs)] = d
       /\ \A i \in 1..Len(w.tabs) : a.tabs[i] = w.tabs[i]
  BY <1>3, <1>4
<1>11. WinOK(a)
  BY <1>6, <1>8, <1>9 DEF WinOK
<1> QED
  BY <1>7, <1>9, <1>10, <1>11

\* Showing a page changes nothing else.
LEMMA ShowOK ==
  ASSUME NEW w, WinOK(w), NEW d \in Pages(w)
  PROVE  /\ WinOK(Show(w, d))
         /\ Show(w, d).tabs = w.tabs
         /\ Show(w, d).doc = w.doc
         /\ Show(w, d).cur \in 1..Len(w.tabs)
         /\ w.tabs[Show(w, d).cur] = d
<1> DEFINE i == CHOOSE i \in DOMAIN w.tabs : w.tabs[i] = d
<1>1. w \in Windows
  BY DEF WinOK
<1>2. i \in 1..Len(w.tabs) /\ w.tabs[i] = d
  BY <1>1, Indices
<1> HIDE DEF i
<1>3. Show(w, d) = [w EXCEPT !.cur = i]
  BY DEF Show, SetPage, i
<1>4. Show(w, d) = [tabs |-> w.tabs, cur |-> i, doc |-> w.doc]
  BY <1>1, <1>3 DEF Windows
<1>5. Show(w, d) \in Windows
  BY <1>1, <1>2, <1>4, Indices DEF Windows
<1> QED
  BY <1>1, <1>2, <1>4, <1>5, Indices DEF WinOK

\* The destructor takes exactly one page away and leaves one of the others shown.
LEMMA RemovedOK ==
  ASSUME NEW w, WinOK(w), NEW d \in Pages(w)
  PROVE  LET r == Removed(w, d)
         IN /\ WinOK(r)
            /\ Pages(r) = Pages(w) \ {d}
            /\ r.doc = [w.doc EXCEPT ![d] = Closed]
            /\ Len(r.tabs) = Len(w.tabs) - 1
            /\ \E i \in 1..Len(w.tabs) :
                 /\ w.tabs[i] = d
                 /\ \A j \in 1..Len(r.tabs) :
                      r.tabs[j] = IF j < i THEN w.tabs[j] ELSE w.tabs[j + 1]
<1> DEFINE i == Show(w, d).cur
           t == RemoveAt(w.tabs, i)
           n == Len(w.tabs)
           c == IF i < w.cur \/ (i = w.cur /\ i = Len(w.tabs)) THEN w.cur - 1 ELSE w.cur
           r == Removed(w, d)
<1>1. w \in Windows /\ w.tabs \in Seq(Doc) /\ w.doc \in [Doc -> Page] /\ w.cur \in Nat
  BY DEF WinOK, Windows
<1>2. i \in 1..n /\ w.tabs[i] = d /\ n \in Nat /\ \A j \in 1..n : w.tabs[j] \in Doc
  BY <1>1, ShowOK, Indices
<1>3. \A j, k \in 1..n : w.tabs[j] = w.tabs[k] => j = k
  BY <1>1, Indices DEF WinOK
<1>4. w.cur <= n /\ w.cur >= 1
  BY <1>1, <1>2, Indices DEF WinOK
<1> HIDE DEF i
<1>5. r = [tabs |-> t, cur |-> c, doc |-> [w.doc EXCEPT ![d] = Closed]]
  BY <1>1 DEF Removed, SetPage, Windows, i
<1>6. /\ t \in Seq(Doc)
      /\ Len(t) = n - 1
      /\ \A j \in 1..(n - 1) : t[j] = IF j < i THEN w.tabs[j] ELSE w.tabs[j + 1]
  <2> DEFINE u == SubSeq(w.tabs, 1, i - 1)
             v == SubSeq(w.tabs, i + 1, n)
  <2>1. u \in Seq(Doc) /\ Len(u) = i - 1 /\ \A j \in 1..(i - 1) : u[j] = w.tabs[j]
    <3>1. \A j \in 1..(i - 1) : w.tabs[j] \in Doc
      BY <1>2
    <3>2. 1 \in Int /\ i - 1 \in Int
      BY <1>2
    <3> QED
      BY <3>1, <3>2, <1>2, SubSeqProperties
  <2>2. v \in Seq(Doc) /\ Len(v) = n - i /\ \A j \in 1..(n - i) : v[j] = w.tabs[i + j]
    <3>1. \A j \in (i + 1)..n : w.tabs[j] \in Doc
      BY <1>2
    <3>2. i + 1 \in Int /\ n \in Int
      BY <1>2
    <3> QED
      BY <3>1, <3>2, <1>2, SubSeqProperties
  <2>3. t = u \o v
    BY DEF RemoveAt
  <2> HIDE DEF u, v, t
  <2>4. t \in Seq(Doc) /\ Len(t) = Len(u) + Len(v)
        /\ \A j \in 1..(Len(u) + Len(v)) : t[j] = IF j <= Len(u) THEN u[j] ELSE v[j - Len(u)]
    BY <2>1, <2>2, <2>3, ConcatProperties
  <2>5. Len(u) + Len(v) = n - 1
    BY <2>1, <2>2, <1>2
  <2>6. ASSUME NEW j \in 1..(n - 1)
        PROVE  t[j] = IF j < i THEN w.tabs[j] ELSE w.tabs[j + 1]
    <3>1. t[j] = IF j <= Len(u) THEN u[j] ELSE v[j - Len(u)]
      BY <2>4, <2>5
    <3>2. CASE j < i
      <4>1. j \in 1..(i - 1) /\ j <= Len(u)
        BY <3>2, <2>1, <1>2
      <4> QED
        BY <4>1, <3>1, <3>2, <2>1
    <3>3. CASE j >= i
      <4>1. j - (i - 1) \in 1..(n - i) /\ ~(j <= Len(u)) /\ ~(j < i)
            /\ i + (j - (i - 1)) = j + 1
        BY <3>3, <2>1, <1>2
      <4>2. v[j - (i - 1)] = w.tabs[j + 1]
        BY <4>1, <2>2
      <4> QED
        BY <4>1, <4>2, <3>1, <2>1
    <3> QED
      BY <3>2, <3>3, <1>2
  <2> QED
    BY <2>4, <2>5, <2>6
<1> HIDE DEF t
<1>7. c \in Nat /\ c <= n - 1 /\ (n - 1 # 0 => c >= 1)
  <2>1. i \in Nat /\ 1 <= i /\ i <= n /\ n \in Nat /\ w.cur \in Nat /\ w.cur <= n /\ 1 <= w.cur
    BY <1>1, <1>2, <1>4
  <2> HIDE DEF n
  <2>2. c = IF i < w.cur \/ (i = w.cur /\ i = n) THEN w.cur - 1 ELSE w.cur
    BY DEF n
  <2> HIDE DEF c
  <2> QED
    BY <2>1, <2>2
<1> HIDE DEF c
<1>8. r \in Windows
  <2>1. [w.doc EXCEPT ![d] = Closed] \in [Doc -> Page]
    BY <1>1, ClosedIsPage
  <2> QED
    BY <2>1, <1>5, <1>6, <1>7 DEF Windows
<1> HIDE DEF r
<1>9. \A j \in 1..(n - 1) : r.tabs[j] = IF j < i THEN w.tabs[j] ELSE w.tabs[j + 1]
  BY <1>5, <1>6
<1>10. Len(r.tabs) = n - 1 /\ DOMAIN r.tabs = 1..(n - 1)
  BY <1>5, <1>6, <1>8, Indices
<1>11. \A j, k \in DOMAIN r.tabs : r.tabs[j] = r.tabs[k] => j = k
  <2> SUFFICES ASSUME NEW j \in 1..(n - 1), NEW k \in 1..(n - 1), r.tabs[j] = r.tabs[k]
               PROVE  j = k
    BY <1>10
  <2>1. j \in 1..n /\ j + 1 \in 1..n /\ k \in 1..n /\ k + 1 \in 1..n
    BY <1>2
  <2>2. CASE j < i /\ k < i
    BY <2>1, <2>2, <1>3, <1>9
  <2>3. CASE j < i /\ k >= i
    <3>1. w.tabs[j] = w.tabs[k + 1]
      BY <2>1, <2>3, <1>2, <1>9
    <3> QED
      BY <3>1, <2>1, <2>3, <1>2, <1>3
  <2>4. CASE j >= i /\ k < i
    <3>1. w.tabs[j + 1] = w.tabs[k]
      BY <2>1, <2>4, <1>2, <1>9
    <3> QED
      BY <3>1, <2>1, <2>4, <1>2, <1>3
  <2>5. CASE j >= i /\ k >= i
    <3>1. w.tabs[j + 1] = w.tabs[k + 1]
      BY <2>1, <2>5, <1>2, <1>9
    <3> QED
      BY <3>1, <2>1, <2>5, <1>2, <1>3
  <2> QED
    BY <2>1, <2>2, <2>3, <2>4, <2>5, <1>2
<1>12. Pages(r) = Pages(w) \ {d}
  <2>1. \A e : e \in Pages(r) <=> \E j \in 1..(n - 1) : r.tabs[j] = e
    BY <1>8, <1>10, Indices
  <2>2. \A e : e \in Pages(w) <=> \E j \in 1..n : w.tabs[j] = e
    BY <1>1, Indices
  <2>3. ASSUME NEW j \in 1..(n - 1)
        PROVE  r.tabs[j] # d /\ \E k \in 1..n : w.tabs[k] = r.tabs[j]
    <3>1. CASE j < i
      BY <3>1, <1>2, <1>3, <1>9
    <3>2. CASE j >= i
      <4>1. j + 1 \in 1..n /\ j + 1 # i /\ r.tabs[j] = w.tabs[j + 1]
        BY <3>2, <1>2, <1>9
      <4> QED
        BY <4>1, <1>2, <1>3
    <3> QED
      BY <3>1, <3>2, <1>2
  <2>4. ASSUME NEW k \in 1..n, w.tabs[k] # d
        PROVE  \E j \in 1..(n - 1) : r.tabs[j] = w.tabs[k]
    <3>1. CASE k < i
      BY <3>1, <1>2, <1>9
    <3>2. CASE k > i
      <4>1. k - 1 \in 1..(n - 1) /\ ~(k - 1 < i) /\ (k - 1) + 1 = k
        BY <3>2, <1>2
      <4>2. r.tabs[k - 1] = w.tabs[(k - 1) + 1]
        BY <4>1, <1>9
      <4> QED
        BY <4>1, <4>2
    <3> QED
      BY <2>4, <3>1, <3>2, <1>2
  <2>5. \A e \in Pages(r) : e \in Pages(w) /\ e # d
    BY <2>1, <2>2, <2>3
  <2>6. \A e \in Pages(w) \ {d} : e \in Pages(r)
    BY <2>1, <2>2, <2>4
  <2> QED
    BY <2>5, <2>6
<1>13. WinOK(r)
  <2>1. r.cur = c /\ (r.tabs # <<>> => n - 1 # 0)
    BY <1>5, <1>8, <1>10, Indices
  <2>2. r.cur <= Len(r.tabs) /\ (r.tabs # <<>> => r.cur >= 1)
    BY <1>7, <1>10, <2>1
  <2> QED
    BY <1>8, <1>11, <2>2 DEF WinOK
<1> QED
  BY <1>2, <1>5, <1>9, <1>10, <1>12, <1>13 DEF r

\* A page that could not be loaded leaves the pages as they were.
LEMMA AddedRemoved ==
  ASSUME NEW w, WinOK(w), NEW d \in Doc \ Pages(w), NEW n \in Name \cup {NoName}
  PROVE  LET r == Removed(Added(w, d, n), d)
         IN /\ WinOK(r)
            /\ r.tabs = w.tabs
            /\ Pages(r) = Pages(w)
            /\ r.doc = [w.doc EXCEPT ![d] = Closed]
<1> DEFINE a == Added(w, d, n)
           p == [name |-> n, content |-> Empty, changed |-> FALSE]
           r == Removed(a, d)
<1>1. /\ WinOK(a) /\ Pages(a) = Pages(w) \cup {d} /\ Len(a.tabs) = Len(w.tabs) + 1
      /\ a.tabs[Len(w.tabs) + 1] = d
      /\ a.doc = [w.doc EXCEPT ![d] = p]
      /\ \A i \in 1..Len(w.tabs) : a.tabs[i] = w.tabs[i]
  <2>1. a = Added(w, d, n) /\ p = [name |-> n, content |-> Empty, changed |-> FALSE]
    OBVIOUS
  <2> HIDE DEF a, p
  <2> QED
    BY <2>1, AddedOK
<1> HIDE DEF a, p
<1>2. /\ WinOK(r) /\ Pages(r) = Pages(a) \ {d} /\ Len(r.tabs) = Len(a.tabs) - 1
      /\ r.doc = [a.doc EXCEPT ![d] = Closed]
      /\ \E i \in 1..Len(a.tabs) :
           /\ a.tabs[i] = d
           /\ \A j \in 1..Len(r.tabs) : r.tabs[j] = IF j < i THEN a.tabs[j] ELSE a.tabs[j + 1]
  <2>1. d \in Pages(a) /\ WinOK(a)
    BY <1>1
  <2> QED
    BY <2>1, RemovedOK
<1> HIDE DEF r
<1>3. w \in Windows /\ a \in Windows /\ r \in Windows /\ w.doc \in [Doc -> Page]
  BY <1>1, <1>2 DEF WinOK, Windows
<1>4. PICK i \in 1..Len(a.tabs) :
           /\ a.tabs[i] = d
           /\ \A j \in 1..Len(r.tabs) : r.tabs[j] = IF j < i THEN a.tabs[j] ELSE a.tabs[j + 1]
  BY <1>2
<1>5. Len(w.tabs) \in Nat /\ Len(a.tabs) = Len(w.tabs) + 1 /\ Len(r.tabs) = Len(w.tabs)
  BY <1>1, <1>2, <1>3, Indices
<1>6. i = Len(w.tabs) + 1
  <2>1. \A k \in 1..Len(w.tabs) : w.tabs[k] # d
    BY <1>3, Indices
  <2>2. i \in 1..(Len(w.tabs) + 1)
    BY <1>5
  <2>3. \A k \in 1..Len(w.tabs) : a.tabs[k] # d
    BY <2>1, <1>1
  <2>4. i \notin 1..Len(w.tabs)
    BY <2>3, <1>4
  <2> QED
    BY <2>2, <2>4, <1>5
<1>7. \A j \in 1..Len(w.tabs) : r.tabs[j] = w.tabs[j]
  BY <1>1, <1>4, <1>5, <1>6
<1>8. r.tabs = w.tabs
  <2>1. r.tabs \in Seq(Doc) /\ w.tabs \in Seq(Doc)
    BY <1>3 DEF Windows
  <2> QED
    BY <2>1, <1>5, <1>7, SeqEqual
<1>9. r.doc = [w.doc EXCEPT ![d] = Closed]
  BY <1>1, <1>2, <1>3
<1>10. Pages(r) = Pages(w)
  BY <1>8 DEF Pages
<1> QED
  BY <1>2, <1>8, <1>9, <1>10 DEF a, r
-----------------------------------------------------------------------------
\* What holds of the pages whatever dialog is open.
Unique(w) ==
  \A d, e \in Pages(w) : d # e /\ w.doc[d].name = w.doc[e].name => w.doc[d].name = NoName
Clean(w, dk) ==
  \A d \in Pages(w) :
    ~w.doc[d].changed =>
      w.doc[d].content = IF w.doc[d].name = NoName THEN Empty ELSE dk[w.doc[d].name]
Disks == [Name -> Content \cup {NoFile}]

\* Two assumptions of the theorems: that a Save As and the creation of a data
\* display succeed, and that no simulation writes into its schematic.
NamesAreWritten == "saveAs" \notin Fails /\ "create" \notin Fails
NoOptimiser == TRUE \notin Optimises

\* A change of the window that takes no page away, moves none and marks none.
Calm(w, v) ==
  /\ Pages(w) \subseteq Pages(v)
  /\ Len(w.tabs) <= Len(v.tabs)
  /\ \A i \in 1..Len(w.tabs) : v.tabs[i] = w.tabs[i]
  /\ \A d \in Pages(w) : w.doc[d].name \in Name => v.doc[d].name \in Name
  /\ NoOptimiser => \A d \in Pages(v) : v.doc[d].changed => d \in Pages(w) /\ w.doc[d].changed

\* The window v is w with at most one page more, that of the file n.
Opens(w, v, n, c) ==
  /\ WinOK(v)
  /\ Calm(w, v)
  /\ \A d \in Pages(w) : v.doc[d] = w.doc[d]
  /\ \/ Pages(v) = Pages(w)
     \/ \E d \in Doc \ Pages(w) :
          /\ Pages(v) = Pages(w) \cup {d}
          /\ v.doc[d] = [name |-> n, content |-> c, changed |-> FALSE]

LEMMA ShowOpens ==
  ASSUME NEW w, WinOK(w), NEW d \in Pages(w), NEW n, NEW c
  PROVE  Opens(w, Show(w, d), n, c)
<1>1. WinOK(Show(w, d)) /\ Show(w, d).tabs = w.tabs /\ Show(w, d).doc = w.doc
  BY ShowOK
<1>2. Len(w.tabs) \in Nat
  BY Indices DEF WinOK
<1> QED
  BY <1>1, <1>2 DEF Opens, Calm, Pages

LEMMA AddedShows ==
  ASSUME NEW w, WinOK(w), NEW d \in Doc \ Pages(w), NEW n \in Name \cup {NoName}
  PROVE  Added(w, d, n).tabs # <<>>
<1> DEFINE a == Added(w, d, n)
           p == [name |-> n, content |-> Empty, changed |-> FALSE]
<1>1. a = Added(w, d, n) /\ p = [name |-> n, content |-> Empty, changed |-> FALSE]
  OBVIOUS
<1> HIDE DEF a, p
<1>2. WinOK(a) /\ Pages(a) = Pages(w) \cup {d} /\ a.doc = [w.doc EXCEPT ![d] = p]
  BY <1>1, AddedOK
<1>3. a.tabs # <<>>
  BY <1>2, Indices DEF WinOK
<1> QED
  BY <1>1, <1>3

LEMMA AddedOpens ==
  ASSUME NEW w, WinOK(w), NEW d \in Doc \ Pages(w), NEW n \in Name \cup {NoName}
  PROVE  Opens(w, Added(w, d, n), n, Empty)
<1> DEFINE a == Added(w, d, n)
           p == [name |-> n, content |-> Empty, changed |-> FALSE]
<1>1. /\ WinOK(a) /\ Pages(a) = Pages(w) \cup {d} /\ a.doc = [w.doc EXCEPT ![d] = p]
      /\ Len(a.tabs) = Len(w.tabs) + 1
      /\ \A i \in 1..Len(w.tabs) : a.tabs[i] = w.tabs[i]
  <2>1. a = Added(w, d, n) /\ p = [name |-> n, content |-> Empty, changed |-> FALSE]
    OBVIOUS
  <2> HIDE DEF a, p
  <2> QED
    BY <2>1, AddedOK
<1>2. w.doc \in [Doc -> Page] /\ Len(w.tabs) \in Nat
  BY Indices DEF WinOK, Windows
<1>3. ~p.changed
  OBVIOUS
<1> HIDE DEF a, p
<1>4. a.doc[d] = p /\ \A e \in Pages(w) : a.doc[e] = w.doc[e]
  BY <1>1, <1>2
<1>5. Calm(w, a)
  BY <1>1, <1>2, <1>3, <1>4 DEF Calm
<1> QED
  BY <1>1, <1>4, <1>5 DEF Opens, p, a

LEMMA FailedOpens ==
  ASSUME NEW w, WinOK(w), NEW d \in Doc \ Pages(w), NEW n \in Name \cup {NoName}, NEW m, NEW c
  PROVE  Opens(w, Removed(Added(w, d, n), d), m, c)
<1> DEFINE r == Removed(Added(w, d, n), d)
<1>1. /\ WinOK(r) /\ r.tabs = w.tabs /\ Pages(r) = Pages(w)
      /\ r.doc = [w.doc EXCEPT ![d] = Closed]
  BY AddedRemoved
<1>2. w.doc \in [Doc -> Page] /\ Len(w.tabs) \in Nat
  BY Indices DEF WinOK, Windows
<1> HIDE DEF r
<1>3. \A e \in Pages(w) : r.doc[e] = w.doc[e]
  BY <1>1, <1>2
<1>4. Calm(w, r)
  BY <1>1, <1>2, <1>3 DEF Calm
<1> QED
  BY <1>1, <1>3, <1>4 DEF Opens, r

\* One document gets another value.
LEMMA DocReplaced ==
  ASSUME NEW w, WinOK(w), NEW d \in Doc, NEW p \in Page
  PROVE  LET v == [w EXCEPT !.doc[d] = p]
         IN /\ WinOK(v)
            /\ v.tabs = w.tabs
            /\ v.cur = w.cur
            /\ Pages(v) = Pages(w)
            /\ v.doc[d] = p
            /\ \A e \in Doc \ {d} : v.doc[e] = w.doc[e]
<1> DEFINE v == [w EXCEPT !.doc[d] = p]
<1>1. w \in Windows /\ w.doc \in [Doc -> Page]
  BY DEF WinOK, Windows
<1>2. v.tabs = w.tabs /\ v.cur = w.cur /\ v.doc = [w.doc EXCEPT ![d] = p]
  BY <1>1 DEF Windows
<1>3. [w.doc EXCEPT ![d] = p] \in [Doc -> Page]
  BY <1>1
<1>4. v \in Windows
  BY <1>1, <1>3 DEF Windows
<1> HIDE DEF v
<1>5. WinOK(v)
  BY <1>2, <1>4 DEF WinOK
<1>6. Pages(v) = Pages(w)
  BY <1>2 DEF Pages
<1>7. v.doc[d] = p /\ \A e \in Doc \ {d} : v.doc[e] = w.doc[e]
  BY <1>1, <1>2
<1> QED
  BY <1>2, <1>5, <1>6, <1>7 DEF v

LEMMA LoadedOpens ==
  ASSUME NEW w, WinOK(w), NEW d \in Doc \ Pages(w), NEW n \in Name,
         disk \in Disks, disk[n] # NoFile
  PROVE  /\ Opens(w, Loaded(Added(w, d, n), d, n), n, disk[n])
         /\ Loaded(Added(w, d, n), d, n).tabs = Append(w.tabs, d)
<1> DEFINE a == Added(w, d, n)
           l == Loaded(a, d, n)
           p == [name |-> n, content |-> disk[n], changed |-> FALSE]
           blank == [name |-> n, content |-> Empty, changed |-> FALSE]
<1>1. /\ WinOK(a) /\ Pages(a) = Pages(w) \cup {d}
      /\ a.doc = [w.doc EXCEPT ![d] = blank]
      /\ a.tabs = Append(w.tabs, d)
      /\ Len(a.tabs) = Len(w.tabs) + 1
      /\ \A i \in 1..Len(w.tabs) : a.tabs[i] = w.tabs[i]
  <2>1. a = Added(w, d, n) /\ blank = [name |-> n, content |-> Empty, changed |-> FALSE]
    OBVIOUS
  <2> HIDE DEF a, blank
  <2> QED
    BY <2>1, AddedOK
<1>2. w.doc \in [Doc -> Page] /\ Len(w.tabs) \in Nat
  BY Indices DEF WinOK, Windows
<1>3. p \in Page
  BY DEF Disks, Page
<1>4. a.doc[d] = [name |-> n, content |-> Empty, changed |-> FALSE]
  BY <1>1, <1>2
<1>5. l = [a EXCEPT !.doc[d] = p]
  <2> DEFINE q == [a.doc[d] EXCEPT !.content = disk[n]]
  <2>1. a.doc[d] \in Page
    BY <1>1, <1>4 DEF WinOK, Windows
  <2>2. q = p
    <3>1. q \in Page
      BY <2>1 DEF Page, Disks
    <3>2. q.name = p.name /\ q.content = p.content /\ q.changed = p.changed
      BY <2>1, <1>4 DEF Page
    <3> QED
      BY <3>1, <3>2, <1>3, PagesEqual
  <2>3. l = [a EXCEPT !.doc[d] = q]
    BY <1>1 DEF Loaded, WinOK, Windows
  <2> QED
    BY <2>2, <2>3
<1>6. ~p.changed
  OBVIOUS
<1> HIDE DEF a, p
<1>7. /\ WinOK(l) /\ l.tabs = a.tabs /\ Pages(l) = Pages(a) /\ l.doc[d] = p
      /\ \A e \in Doc \ {d} : l.doc[e] = a.doc[e]
  <2>1. WinOK(a)
    BY <1>1
  <2> HIDE DEF l
  <2> QED
    BY <2>1, <1>3, <1>5, DocReplaced
<1> HIDE DEF l
<1>8. \A e \in Pages(w) : l.doc[e] = w.doc[e]
  <2>1. \A e \in Pages(w) : e \in Doc /\ e # d
    BY Indices DEF WinOK
  <2> QED
    BY <2>1, <1>1, <1>2, <1>7
<1>9. Calm(w, l)
  BY <1>1, <1>2, <1>6, <1>7, <1>8 DEF Calm
<1> QED
  BY <1>1, <1>7, <1>8, <1>9 DEF Opens, a, l, p

\* Opening a file that is not open gives no name to two pages, and what is
\* opened is what the disk holds.
LEMMA OpensKeeps ==
  ASSUME NEW w, NEW v, NEW n, NEW c, Opens(w, v, n, c)
  PROVE  /\ Unique(w) /\ (n = NoName \/ \A d \in Pages(w) : w.doc[d].name # n) => Unique(v)
         /\ \A dk : Clean(w, dk) /\ c = (IF n = NoName THEN Empty ELSE dk[n]) => Clean(v, dk)
<1>1. ASSUME Unique(w), n = NoName \/ \A d \in Pages(w) : w.doc[d].name # n
      PROVE  Unique(v)
  BY <1>1 DEF Opens, Unique
<1>2. ASSUME NEW dk, Clean(w, dk), c = IF n = NoName THEN Empty ELSE dk[n]
      PROVE  Clean(v, dk)
  <2> SUFFICES ASSUME NEW d \in Pages(v), ~v.doc[d].changed
               PROVE  v.doc[d].content
                        = IF v.doc[d].name = NoName THEN Empty ELSE dk[v.doc[d].name]
    BY DEF Clean
  <2>1. CASE d \in Pages(w)
    BY <2>1, <1>2 DEF Opens, Clean
  <2>2. CASE d \notin Pages(w)
    BY <2>2, <1>2 DEF Opens
  <2> QED
    BY <2>1, <2>2
<1> QED
  BY <1>1, <1>2

\* Taking a page away keeps what holds of the others.
LEMMA RemovedKeeps ==
  ASSUME NEW w, WinOK(w), NEW d \in Pages(w)
  PROVE  /\ \A e \in Pages(Removed(w, d)) : Removed(w, d).doc[e] = w.doc[e]
         /\ Unique(w) => Unique(Removed(w, d))
         /\ \A dk : Clean(w, dk) => Clean(Removed(w, d), dk)
<1> DEFINE r == Removed(w, d)
<1>1. Pages(r) = Pages(w) \ {d} /\ r.doc = [w.doc EXCEPT ![d] = Closed]
  BY RemovedOK
<1> HIDE DEF r
<1>2. w.doc \in [Doc -> Page] /\ \A e \in Pages(w) : e \in Doc
  BY Indices DEF WinOK, Windows
<1>3. \A e \in Pages(r) : e \in Pages(w) /\ r.doc[e] = w.doc[e]
  BY <1>1, <1>2
<1>4. Unique(w) => Unique(r)
  BY <1>3 DEF Unique
<1>5. \A dk : Clean(w, dk) => Clean(r, dk)
  BY <1>3 DEF Clean
<1> QED
  BY <1>3, <1>4, <1>5 DEF r
-----------------------------------------------------------------------------
\* Where the program may stand outside of the file dialog.
Lists == [at : {"list"}, asked : SUBSET Doc, docs : SUBSET Doc, why : {"project", "quit"}]
Savings == [at : {"saving"}, list : Lists, chosen : SUBSET Doc, todo : SUBSET Doc,
            failed : SUBSET Doc]
Stages ==
  [at : {"idle"}] \cup [at : {"question"}, doc : Doc]
    \cup [at : {"delete"}, doc : Doc, answer : {"unchanged", "saved", "not saved", "discard"}]
    \cup [at : {"all"}, no : Nat \ {0}, ok : BOOLEAN]
    \cup Lists \cup Savings
    \cup [at : {"deleteAll"}, asked : SUBSET Doc, chosen : SUBSET Doc, why : {"project", "quit"}]
    \cup [at : {"simulate"}, doc : Doc]
NameStages == [at : {"name"}, doc : Doc, yes : Stages, no : Stages]

Changed(w) == {d \in Pages(w) : w.doc[d].changed}

\* The dialog of closeAllFiles has listed whatever is changed now.
Listed(w, a) ==
  /\ a.at \in {"list", "deleteAll"} => Changed(w) \subseteq a.asked
  /\ a.at = "saving" => Changed(w) \subseteq a.list.asked

\* As long as no save has failed, slotFileSaveAll leaves nothing changed behind
\* it; but for the document e, which is about to be saved.
SavedBehind(w, a, e) ==
  a.at = "all" /\ a.ok =>
    \A i \in 1..Len(w.tabs) : i < a.no => ~w.doc[w.tabs[i]].changed \/ w.tabs[i] = e

\* The documents a stage speaks of are open.
Present(w, a) ==
  /\ a.at \in {"question", "delete", "simulate"} => a.doc \in Pages(w)
  /\ a.at = "list" => a.docs \subseteq Pages(w)
  /\ a.at = "saving" => a.todo \subseteq Pages(w) /\ a.list.docs \subseteq Pages(w)

StageOK(w, a, e) ==
  /\ a \in Stages
  /\ Present(w, a)
  /\ NoOptimiser => Listed(w, a) /\ SavedBehind(w, a, e)

\* A slot that goes on has its documents; only one that is about to make a new
\* page, or the end of the program, leaves none.
AskOK(w, a) ==
  \/ /\ StageOK(w, a, NoDoc)
     /\ w.tabs # <<>>
     /\ a.at = "simulate" => w.doc[a.doc].name \in Name
  \/ /\ a \in NameStages
     /\ a.doc \in Pages(w)
     /\ StageOK(w, a.yes, a.doc)
     /\ StageOK(w, a.no, NoDoc)
     /\ a.yes.at = "simulate" => a.yes.doc = a.doc
     /\ a.no.at # "simulate"
  \/ a \in {Renewing, Ended, Crashed}

SimOK(s) ==
  /\ s \in [doc : Doc \cup {NoDoc}, page : Name \cup {NoName}]
  /\ s = NoSim \/ s.page \in Name

IInv ==
  /\ WinOK(win)
  /\ Unique(win)
  /\ disk \in Disks
  /\ SimOK(sim)
  /\ NamesAreWritten => Clean(win, disk)
  /\ AskOK(win, ask)

\* What a step may do: it keeps the invariant, and takes away no changed
\* document that the user has not been asked about.
GoodStep ==
  /\ IInv'
  /\ NoOptimiser => \A d \in Pages(win) \ Pages(win') :
                      win.doc[d].changed => d \in AskedAbout

\* The stages the slots leave behind.
LEMMA StageShapes ==
  /\ Idle \in Stages
  /\ \A d \in Doc : Question(d) \in Stages /\ Starting(d) \in Stages
  /\ \A d \in Doc, s \in {"unchanged", "saved", "not saved", "discard"} : Deleting(d, s) \in Stages
  /\ \A i \in Nat \ {0}, b \in BOOLEAN : SavingAll(i, b) \in Stages
  /\ \A c, u \in SUBSET Doc, y \in {"project", "quit"} :
        List(c, u, y) \in Stages /\ ClosingAll(c, u, y) \in Stages
  /\ \A d \in Doc, y, n \in Stages : NameDialog(d, y, n) \in NameStages
<1>1. Idle \in Stages
  BY DEF Stages, Idle
<1>2. \A d \in Doc : Question(d) \in Stages /\ Starting(d) \in Stages
  BY DEF Stages, Question, Starting
<1>3. \A d \in Doc, s \in {"unchanged", "saved", "not saved", "discard"} : Deleting(d, s) \in Stages
  BY DEF Stages, Deleting
<1>4. \A i \in Nat \ {0}, b \in BOOLEAN : SavingAll(i, b) \in Stages
  BY DEF Stages, SavingAll
<1>5. \A c, u \in SUBSET Doc, y \in {"project", "quit"} : List(c, u, y) \in Stages
  BY DEF Stages, Lists, List
<1>6. \A c, u \in SUBSET Doc, y \in {"project", "quit"} : ClosingAll(c, u, y) \in Stages
  BY DEF Stages, ClosingAll
<1>7. \A d \in Doc, y, n \in Stages : NameDialog(d, y, n) \in NameStages
  BY DEF NameStages, NameDialog
<1> QED
  BY <1>1, <1>2, <1>3, <1>4, <1>5, <1>6, <1>7

\* What a stage is follows from where it stands.
LEMMA StageFields ==
  ASSUME NEW a \in Stages
  PROVE  /\ a.at \in {"idle", "question", "delete", "all", "list", "saving", "deleteAll", "simulate"}
         /\ a.at \in {"question", "delete", "simulate"} => a.doc \in Doc
         /\ a.at = "all" => a.no \in Nat \ {0} /\ a.ok \in BOOLEAN
                            /\ a = SavingAll(a.no, a.ok)
         /\ a.at = "list" => a \in Lists
         /\ a.at = "saving" => a \in Savings
         /\ a.at = "deleteAll" => a.asked \in SUBSET Doc /\ a.chosen \in SUBSET Doc
BY DEF Stages, Lists, Savings, SavingAll

\* A calm change leaves a stage in order.
LEMMA CalmKeepsStage ==
  ASSUME NEW w, NEW v, WinOK(w), WinOK(v), Calm(w, v), NEW a, NEW e, StageOK(w, a, e)
  PROVE  StageOK(v, a, e)
<1>1. NoOptimiser => Changed(v) \subseteq Changed(w)
  BY DEF Calm, Changed
<1>2. NoOptimiser => Listed(v, a)
  BY <1>1 DEF StageOK, Listed
<1>3. ASSUME NoOptimiser, a.at = "all", a.ok, NEW i \in 1..Len(v.tabs), i < a.no,
             v.doc[v.tabs[i]].changed
      PROVE  v.tabs[i] = e
  <2>1. w \in Windows /\ v \in Windows
    BY DEF WinOK
  <2>2. v.tabs[i] \in Pages(v)
    BY <2>1, Indices
  <2>3. v.tabs[i] \in Pages(w) /\ w.doc[v.tabs[i]].changed
    BY <2>2, <1>3 DEF Calm
  <2>4. PICK j \in 1..Len(w.tabs) : w.tabs[j] = v.tabs[i]
    BY <2>1, <2>3, Indices
  <2>5. j \in 1..Len(v.tabs) /\ v.tabs[j] = v.tabs[i]
    BY <2>1, <2>4, Indices DEF Calm
  <2>6. i = j
    BY <2>1, <2>5, Indices DEF WinOK
  <2> QED
    BY <2>3, <2>4, <2>6, <1>3 DEF StageOK, SavedBehind
<1>4. NoOptimiser => SavedBehind(v, a, e)
  BY <1>3 DEF SavedBehind
<1>5. Present(v, a)
  BY DEF StageOK, Present, Calm
<1> QED
  BY <1>2, <1>4, <1>5 DEF StageOK

LEMMA CalmKeepsAsk ==
  ASSUME NEW w, NEW v, WinOK(w), WinOK(v), Calm(w, v), NEW a, AskOK(w, a)
  PROVE  AskOK(v, a)
<1>1. CASE StageOK(w, a, NoDoc) /\ w.tabs # <<>> /\ (a.at = "simulate" => w.doc[a.doc].name \in Name)
  <2>1. StageOK(v, a, NoDoc)
    BY <1>1, CalmKeepsStage
  <2>2. v.tabs # <<>>
    <3>1. w \in Windows /\ v \in Windows
      BY DEF WinOK
    <3>2. Len(w.tabs) # 0 /\ Len(w.tabs) \in Nat /\ Len(v.tabs) \in Nat
      BY <3>1, <1>1, Indices
    <3>3. Len(v.tabs) # 0
      BY <3>2 DEF Calm
    <3> QED
      BY <3>1, <3>3, Indices
  <2>3. a.at = "simulate" => v.doc[a.doc].name \in Name
    BY <1>1 DEF StageOK, Present, Calm
  <2> QED
    BY <2>1, <2>2, <2>3 DEF AskOK
<1>2. CASE /\ a \in NameStages
           /\ a.doc \in Pages(w)
           /\ StageOK(w, a.yes, a.doc)
           /\ StageOK(w, a.no, NoDoc)
           /\ a.yes.at = "simulate" => a.yes.doc = a.doc
           /\ a.no.at # "simulate"
  <2>1. StageOK(v, a.yes, a.doc)
    BY <1>2, CalmKeepsStage
  <2>2. StageOK(v, a.no, NoDoc)
    BY <1>2, CalmKeepsStage
  <2>3. a.doc \in Pages(v)
    BY <1>2 DEF Calm
  <2> QED
    BY <1>2, <2>1, <2>2, <2>3 DEF AskOK
<1>3. CASE a \in {Renewing, Ended, Crashed}
  BY <1>3 DEF AskOK
<1> QED
  BY <1>1, <1>2, <1>3 DEF AskOK

\* Where an answer is awaited, the program stands at a stage with its pages.
LEMMA AskCases ==
  ASSUME NEW w, WinOK(w), NEW a, AskOK(w, a)
  PROVE  /\ a.at \in {"idle", "question", "delete", "all", "list", "saving", "deleteAll", "simulate"}
              => StageOK(w, a, NoDoc) /\ w.tabs # <<>>
         /\ a.at = "simulate" => w.doc[a.doc].name \in Name
         /\ a.at = "name" => /\ a \in NameStages
                             /\ a.doc \in Pages(w)
                             /\ StageOK(w, a.yes, a.doc)
                             /\ StageOK(w, a.no, NoDoc)
                             /\ a.yes.at = "simulate" => a.yes.doc = a.doc
                             /\ a.no.at # "simulate"
         /\ a.at \in {"idle", "question", "name", "delete", "all", "list", "saving",
                      "deleteAll", "renew", "simulate", "ended", "crashed"}
<1>1. CASE StageOK(w, a, NoDoc) /\ w.tabs # <<>> /\ (a.at = "simulate" => w.doc[a.doc].name \in Name)
  <2>1. a.at \in {"idle", "question", "delete", "all", "list", "saving", "deleteAll", "simulate"}
    BY <1>1, StageFields DEF StageOK
  <2> QED
    BY <1>1, <2>1
<1>2. CASE /\ a \in NameStages
           /\ a.doc \in Pages(w)
           /\ StageOK(w, a.yes, a.doc)
           /\ StageOK(w, a.no, NoDoc)
           /\ a.yes.at = "simulate" => a.yes.doc = a.doc
           /\ a.no.at # "simulate"
  <2>1. a.at = "name"
    BY <1>2 DEF NameStages
  <2> QED
    BY <1>2, <2>1
<1>3. CASE a \in {Renewing, Ended, Crashed}
  BY <1>3 DEF Renewing, Ended, Crashed
<1> QED
  BY <1>1, <1>2, <1>3 DEF AskOK

\* The page that is shown is one of the pages.
LEMMA CurrentIsOpen ==
  ASSUME WinOK(win), win.tabs # <<>>
  PROVE  Current \in Pages(win) /\ Current \in Doc
<1>1. win \in Windows /\ win.cur \in Nat
  BY DEF WinOK, Windows
<1>2. win.cur \in 1..Len(win.tabs)
  BY <1>1, Indices DEF WinOK
<1> QED
  BY <1>1, <1>2, Indices DEF Current

\* Nothing but the dialog changes.
LEMMA OnlyAsks ==
  ASSUME IInv, UNCHANGED <<win, disk>>, SimOK(sim'), AskOK(win, ask')
  PROVE  GoodStep
<1>1. win' = win /\ disk' = disk
  OBVIOUS
<1>2. WinOK(win') /\ Unique(win') /\ disk' \in Disks
  BY <1>1 DEF IInv
<1>3. NamesAreWritten => Clean(win', disk')
  BY <1>1 DEF IInv
<1>4. AskOK(win', ask')
  BY <1>1
<1>5. IInv'
  BY <1>2, <1>3, <1>4 DEF IInv
<1>6. Pages(win) \ Pages(win') = {}
  BY <1>1
<1> QED
  BY <1>5, <1>6 DEF GoodStep
-----------------------------------------------------------------------------
\* save() of a document with a name.
LEMMA WriteOK ==
  ASSUME IInv, NEW d \in Pages(win), win.doc[d].name # NoName, NEW ok \in BOOLEAN, Write(d, ok)
  PROVE  /\ WinOK(win') /\ Unique(win') /\ disk' \in Disks /\ Calm(win, win')
         /\ win'.tabs = win.tabs
         /\ NamesAreWritten => Clean(win', disk')
         /\ ok => ~win'.doc[d].changed
<1>1. WinOK(win) /\ Unique(win) /\ disk \in Disks /\ (NamesAreWritten => Clean(win, disk))
  BY DEF IInv
<1>2. d \in Doc /\ win.doc \in [Doc -> Page] /\ win.doc[d] \in Page /\ Len(win.tabs) \in Nat
      /\ \A e \in Pages(win) : e \in Doc
  BY <1>1, Indices DEF WinOK, Windows
<1>3. CASE ~ok
  <2>1. win' = win /\ disk' = disk
    BY <1>3 DEF Write
  <2>2. Calm(win, win')
    BY <2>1, <1>2 DEF Calm
  <2> QED
    BY <2>1, <2>2, <1>1, <1>3
<1>4. CASE ok
  <2> DEFINE p == [win.doc[d] EXCEPT !.changed = FALSE]
             n == win.doc[d].name
  <2>1. disk' = [disk EXCEPT ![n] = win.doc[d].content]
    BY <1>4 DEF Write
  <2>2. win' = [win EXCEPT !.doc[d] = p]
    BY <1>4, <1>1 DEF Write, WinOK, Windows
  <2>3. p \in Page /\ p.name = n /\ p.content = win.doc[d].content /\ ~p.changed
    BY <1>2 DEF Page
  <2>4. n \in Name /\ win.doc[d].content \in Content
    BY <1>2 DEF Page
  <2> HIDE DEF p
  <2>5. /\ WinOK(win') /\ win'.tabs = win.tabs /\ Pages(win') = Pages(win) /\ win'.doc[d] = p
        /\ \A e \in Doc \ {d} : win'.doc[e] = win.doc[e]
    <3>1. WinOK(win) /\ d \in Doc /\ p \in Page
      BY <2>3, <1>1, <1>2
    <3> DEFINE v == [win EXCEPT !.doc[d] = p]
    <3>2. /\ WinOK(v) /\ v.tabs = win.tabs /\ Pages(v) = Pages(win) /\ v.doc[d] = p
          /\ \A e \in Doc \ {d} : v.doc[e] = win.doc[e]
      BY <3>1, DocReplaced
    <3>3. win' = v
      BY <2>2
    <3> QED
      BY <3>2, <3>3
  <2>6. \A e \in Pages(win) : win'.doc[e].name = win.doc[e].name
                              /\ win'.doc[e].content = win.doc[e].content
    BY <2>3, <2>5, <1>2
  <2>7. Unique(win')
    BY <2>5, <2>6, <1>1 DEF Unique
  <2>8. disk' \in Disks
    BY <2>1, <2>4, <1>1 DEF Disks
  <2>9. Calm(win, win')
    BY <2>3, <2>5, <2>6, <1>2 DEF Calm
  <2>10. ASSUME NamesAreWritten, NEW e \in Pages(win), ~win'.doc[e].changed
         PROVE  win'.doc[e].content
                  = IF win'.doc[e].name = NoName THEN Empty ELSE disk'[win'.doc[e].name]
    <3>1. CASE e = d
      <4>1. disk'[n] = win.doc[d].content
        BY <2>1, <2>4, <1>1 DEF Disks
      <4> QED
        BY <4>1, <3>1, <2>3, <2>5
    <3>2. CASE e # d
      <4>1. win'.doc[e] = win.doc[e]
        BY <3>2, <2>5, <1>2
      <4>2. win.doc[e].name = NoName \/ win.doc[e].name # n
        BY <3>2, <1>1 DEF Unique
      <4>3. win.doc[e].name # NoName => disk'[win.doc[e].name] = disk[win.doc[e].name]
        BY <4>2, <2>1, <2>4, <1>1, <1>2 DEF Disks, Page
      <4> QED
        BY <4>1, <4>3, <2>10, <1>1 DEF Clean
    <3> QED
      BY <3>1, <3>2
  <2>11. NamesAreWritten => Clean(win', disk')
    BY <2>5, <2>10 DEF Clean
  <2> QED
    BY <2>3, <2>5, <2>7, <2>8, <2>9, <2>11
<1> QED
  BY <1>3, <1>4

\* A calm change takes no document away.
LEMMA CalmStep ==
  ASSUME WinOK(win'), Unique(win'), disk' \in Disks, SimOK(sim'),
         NamesAreWritten => Clean(win', disk'), AskOK(win', ask'),
         Pages(win) \subseteq Pages(win')
  PROVE  GoodStep
<1>1. IInv'
  BY DEF IInv
<1> QED
  BY <1>1 DEF GoodStep

\* The exception for a document does no harm.
LEMMA StageWeaker ==
  ASSUME NEW w, NEW a, NEW e, StageOK(w, a, NoDoc), WinOK(w)
  PROVE  StageOK(w, a, e)
<1>1. \A i \in 1..Len(w.tabs) : w.tabs[i] # NoDoc
  BY Indices, NameAssumption DEF WinOK
<1> QED
  BY <1>1 DEF StageOK, SavedBehind

\* saveFile, after which the slot goes on at yes or no.
LEMMA SaveFileOK ==
  ASSUME IInv, win.tabs # <<>>, NEW d \in Pages(win), NEW yes, NEW no, NEW e \in {d, NoDoc},
         e = d => win.doc[d].name # NoName,
         StageOK(win, yes, e), StageOK(win, no, NoDoc),
         yes.at # "simulate", no.at # "simulate",
         SaveFile(d, yes, no), sim' = sim
  PROVE  GoodStep
<1>1. WinOK(win) /\ SimOK(sim')
  BY DEF IInv
<1>2. CASE win.doc[d].name = NoName
  <2>1. ask' = NameDialog(Current, yes, no) /\ UNCHANGED <<win, disk>>
    BY <1>2 DEF SaveFile
  <2>2. StageOK(win, yes, Current)
    BY <1>1, <1>2, StageWeaker
  <2>3. Current \in Pages(win) /\ Current \in Doc
    BY <1>1, CurrentIsOpen
  <2>4. ask' \in NameStages
    BY <2>1, <2>3, StageShapes DEF StageOK
  <2>5. ask'.doc = Current /\ ask'.yes = yes /\ ask'.no = no
    BY <2>1 DEF NameDialog
  <2>6. AskOK(win, ask')
    BY <2>2, <2>3, <2>4, <2>5 DEF AskOK
  <2> QED
    BY <2>1, <2>6, <1>1, OnlyAsks
<1>3. CASE win.doc[d].name # NoName
  <2>1. PICK ok \in BOOLEAN : Write(d, ok) /\ ask' = IF ok THEN yes ELSE no
    BY <1>3 DEF SaveFile, ResultOf
  <2>2. /\ WinOK(win') /\ Unique(win') /\ disk' \in Disks /\ Calm(win, win')
        /\ win'.tabs = win.tabs
        /\ NamesAreWritten => Clean(win', disk')
        /\ ok => ~win'.doc[d].changed
    BY <2>1, <1>3, WriteOK
  <2>3. CASE ok
    <3>1. StageOK(win', yes, e)
      BY <2>2, <1>1, CalmKeepsStage
    <3>2. StageOK(win', yes, NoDoc)
      BY <3>1, <2>2, <2>3 DEF StageOK, SavedBehind
    <3>3. AskOK(win', yes)
      BY <3>2, <2>2 DEF AskOK
    <3> QED
      BY <3>3, <2>1, <2>2, <2>3, <1>1, CalmStep DEF Calm
  <2>4. CASE ~ok
    <3>1. StageOK(win', no, NoDoc)
      BY <2>2, <1>1, CalmKeepsStage
    <3>2. AskOK(win', no)
      BY <3>1, <2>2 DEF AskOK
    <3> QED
      BY <3>2, <2>1, <2>2, <2>4, <1>1, CalmStep DEF Calm
  <2> QED
    BY <2>3, <2>4
<1> QED
  BY <1>2, <1>3

\* An idle program with a page is in order.
LEMMA IdleOK ==
  ASSUME NEW w
  PROVE  /\ \A e : StageOK(w, Idle, e)
         /\ w.tabs # <<>> => AskOK(w, Idle)
BY StageShapes DEF StageOK, Present, Listed, SavedBehind, Idle, AskOK

\* Opening a page in a window v that shows the documents of win.
LEMMA ChangePageOK ==
  ASSUME IInv, NEW v, WinOK(v), Calm(win, v), Unique(v), v.tabs = win.tabs,
         \A d \in Pages(v) : v.doc[d].name = win.doc[d].name,
         NamesAreWritten => Clean(v, disk),
         NEW n \in Name, ChangePage(v, n)
  PROVE  /\ WinOK(win') /\ Unique(win') /\ disk' \in Disks /\ Calm(v, win')
         /\ NamesAreWritten => Clean(win', disk')
<1>1. disk \in Disks /\ Pages(v) = Pages(win) /\ n # NoName
  BY NameAssumption DEF IInv, Pages
<1>2. CASE Found(n) # {}
  <2>1. PICK d \in Found(n) : win' = Show(v, d) /\ disk' = disk
    BY <1>2 DEF ChangePage
  <2>2. d \in Pages(v)
    BY <1>1 DEF Found, Open, Pages
  <2>3. Opens(v, win', NoName, Empty)
    BY <2>1, <2>2, ShowOpens
  <2> QED
    BY <2>1, <2>3, <1>1, OpensKeeps DEF Opens
<1>3. CASE Found(n) = {}
  <2>1. \A d \in Pages(v) : v.doc[d].name # n
    BY <1>1, <1>3 DEF Found, Open, Pages
  <2>2. PICK d \in Doc \ Open :
          LET a == Added(v, d, n) IN
          IF disk[n] # NoFile
          THEN /\ \E ok \in ResultOf("load") :
                    win' = IF ok THEN Loaded(a, d, n) ELSE Removed(a, d)
               /\ UNCHANGED disk
          ELSE /\ win' = a
               /\ \E ok \in ResultOf("create") :
                    disk' = IF ok THEN [disk EXCEPT ![n] = Empty] ELSE disk
    BY <1>3 DEF ChangePage
  <2>3. d \in Doc \ Pages(v)
    BY <1>1 DEF Open, Pages
  <2>4. CASE disk[n] # NoFile
    <3>1. PICK ok \in ResultOf("load") :
            win' = IF ok THEN Loaded(Added(v, d, n), d, n) ELSE Removed(Added(v, d, n), d)
      BY <2>2, <2>4
    <3>2. disk' = disk
      BY <2>2, <2>4
    <3>3. Opens(v, win', n, disk[n])
      BY <3>1, <2>3, <2>4, <1>1, LoadedOpens, FailedOpens
    <3> QED
      BY <3>2, <3>3, <2>1, <1>1, OpensKeeps DEF Opens
  <2>5. CASE disk[n] = NoFile
    <3>1. win' = Added(v, d, n)
      BY <2>2, <2>5
    <3>2. Opens(v, win', n, Empty)
      BY <3>1, <2>3, AddedOpens
    <3>3. PICK ok \in ResultOf("create") : disk' = IF ok THEN [disk EXCEPT ![n] = Empty] ELSE disk
      BY <2>2, <2>5
    <3>4. disk' \in Disks
      BY <3>3, <1>1, NameAssumption DEF Disks
    <3>5. ASSUME NamesAreWritten
          PROVE  Clean(win', disk')
      <4>1. disk' = [disk EXCEPT ![n] = Empty]
        BY <3>3, <3>5 DEF ResultOf, NamesAreWritten
      <4>2. disk'[n] = Empty /\ \A m \in Name \ {n} : disk'[m] = disk[m]
        BY <4>1, <1>1 DEF Disks
      <4>3. \A e \in Pages(v) : v.doc[e].name \in Name \cup {NoName}
        BY Indices DEF WinOK, Windows, Page
      <4>4. Clean(v, disk')
        BY <4>2, <4>3, <3>5, <2>1 DEF Clean
      <4> QED
        BY <4>2, <4>4, <3>2, <1>1, OpensKeeps
    <3> QED
      BY <3>2, <3>4, <3>5, <2>1, <1>1, OpensKeeps DEF Opens
  <2> QED
    BY <2>4, <2>5
<1> QED
  BY <1>2, <1>3
-----------------------------------------------------------------------------
\* No page at all, before the first one and while all are closed.
LEMMA NoWinOK == WinOK(NoWin) /\ Pages(NoWin) = {}
<1>1. <<>> \in Seq(Doc) /\ Len(<<>>) = 0
  BY EmptySeq
<1>2. Closed \in Page
  BY ClosedIsPage
<1>3. [e \in Doc |-> Closed] \in [Doc -> Page]
  BY <1>2
<1>4. NoWin \in Windows
  BY <1>1, <1>3 DEF NoWin, Windows
<1>5. NoWin.tabs = <<>> /\ NoWin.cur = 0
  BY DEF NoWin
<1>6. DOMAIN NoWin.tabs = {}
  BY <1>1, <1>4, <1>5, Indices
<1> QED
  BY <1>1, <1>4, <1>5, <1>6 DEF WinOK, Pages, ToSet

\* The first page: an untitled schematic.
LEMMA FirstPage ==
  ASSUME NEW d \in Doc
  PROVE  LET w == Added(NoWin, d, NoName)
         IN WinOK(w) /\ Unique(w) /\ w.tabs # <<>> /\ \A dk : Clean(w, dk)
<1> DEFINE w == Added(NoWin, d, NoName)
<1>1. WinOK(NoWin) /\ Pages(NoWin) = {}
  BY NoWinOK
<1>2. Unique(NoWin) /\ \A dk : Clean(NoWin, dk)
  BY <1>1 DEF Unique, Clean
<1>3. Opens(NoWin, w, NoName, Empty)
  BY <1>1, AddedOpens
<1>4. w.tabs # <<>>
  BY <1>1, AddedShows
<1> HIDE DEF w
<1>5. WinOK(w) /\ Unique(w) /\ \A dk : Clean(w, dk)
  BY <1>2, <1>3, OpensKeeps DEF Opens
<1> QED
  BY <1>4, <1>5 DEF w

LEMMA InitOK == Init => IInv
<1> SUFFICES ASSUME Init PROVE IInv
  OBVIOUS
<1>1. PICK d \in Doc : win = Added(NoWin, d, NoName)
  BY DEF Init
<1>2. WinOK(win) /\ Unique(win) /\ win.tabs # <<>> /\ Clean(win, disk)
  BY <1>1, FirstPage
<1>3. disk \in Disks /\ SimOK(sim)
  BY NameAssumption DEF Init, Disks, SimOK, NoSim
<1>4. AskOK(win, ask)
  BY <1>2, IdleOK DEF Init
<1> QED
  BY <1>2, <1>3, <1>4 DEF IInv

\* The slots the user starts while no dialog is open.
LEMMA IdleSlots ==
  ASSUME IInv, ask = Idle,
         \/ SlotFileSave \/ SlotFileSaveAs \/ SlotFileSaveAll \/ SlotSimulate
         \/ \E i \in DOMAIN win.tabs : CloseFile(i)
         \/ \E why \in {"project", "quit"} : CloseAllFiles(why)
  PROVE  GoodStep
<1>1. WinOK(win) /\ SimOK(sim) /\ AskOK(win, ask)
  BY DEF IInv
<1>2. StageOK(win, Idle, NoDoc) /\ win.tabs # <<>> /\ Idle.at # "simulate" /\ Idle \in Stages
  <2>1. ask.at = "idle"
    BY DEF Idle
  <2> QED
    BY <2>1, <1>1, AskCases DEF StageOK, Idle
<1>3. Current \in Pages(win) /\ Current \in Doc
  BY <1>1, <1>2, CurrentIsOpen
<1>4. ASSUME NEW yes, StageOK(win, yes, Current), yes.at = "simulate" => yes.doc = Current
      PROVE  AskOK(win, NameDialog(Current, yes, Idle))
  <2> DEFINE a == NameDialog(Current, yes, Idle)
  <2>1. a \in NameStages
    BY <1>2, <1>3, <1>4, StageShapes DEF StageOK
  <2>2. a.doc = Current /\ a.yes = yes /\ a.no = Idle
    BY DEF NameDialog
  <2> HIDE DEF a
  <2>3. AskOK(win, a)
    BY <2>1, <2>2, <1>2, <1>3, <1>4 DEF AskOK
  <2> QED
    BY <2>3 DEF a
<1>5. ASSUME SlotFileSave PROVE GoodStep
  <2>1. SaveFile(Current, Idle, Idle) /\ sim' = sim
    BY <1>5 DEF SlotFileSave
  <2> QED
    BY <2>1, <1>2, <1>3, NameAssumption, SaveFileOK
<1>6. ASSUME SlotFileSaveAs PROVE GoodStep
  <2>1. ask' = NameDialog(Current, Idle, Idle) /\ UNCHANGED <<win, disk, sim>>
    BY <1>6 DEF SlotFileSaveAs
  <2>2. StageOK(win, Idle, Current)
    BY IdleOK
  <2>3. AskOK(win, ask')
    BY <2>1, <2>2, <1>2, <1>4
  <2> QED
    BY <2>1, <2>3, <1>1, OnlyAsks
<1>7. ASSUME SlotFileSaveAll PROVE GoodStep
  <2> DEFINE a == SavingAll(1, TRUE)
  <2>1. ask' = a /\ UNCHANGED <<win, disk, sim>>
    BY <1>7 DEF SlotFileSaveAll
  <2>2. a \in Stages
    <3>1. 1 \in Nat \ {0} /\ TRUE \in BOOLEAN
      OBVIOUS
    <3> QED
      BY <3>1, StageShapes
  <2>3. a.at = "all" /\ a.no = 1
    BY DEF SavingAll
  <2> HIDE DEF a
  <2>4. \A i \in 1..Len(win.tabs) : ~(i < a.no)
    BY <2>3
  <2>5. StageOK(win, a, NoDoc)
    BY <2>2, <2>3, <2>4 DEF StageOK, Present, Listed, SavedBehind
  <2>6. AskOK(win, a)
    BY <2>3, <2>5, <1>2 DEF AskOK
  <2> QED
    BY <2>1, <2>6, <1>1, OnlyAsks
<1>8. ASSUME SlotSimulate PROVE GoodStep
  <2>1. CASE win.doc[Current].name = NoName
    <3> DEFINE a == Starting(Current)
    <3>1. ask' = NameDialog(Current, a, Idle) /\ UNCHANGED <<win, disk, sim>>
      BY <1>8, <2>1 DEF SlotSimulate
    <3>2. a \in Stages /\ a.at = "simulate" /\ a.doc = Current
      BY <1>3, StageShapes DEF Starting
    <3> HIDE DEF a
    <3>3. StageOK(win, a, Current)
      BY <3>2, <1>3 DEF StageOK, Present, Listed, SavedBehind
    <3>4. AskOK(win, ask')
      BY <3>1, <3>2, <3>3, <1>4
    <3> QED
      BY <3>1, <3>4, <1>1, OnlyAsks
  <2>2. CASE win.doc[Current].name # NoName
    <3>1. Started(Current) /\ UNCHANGED <<win, disk, ask>>
      BY <1>8, <2>2 DEF SlotSimulate
    <3>2. win.doc[Current].name \in Name
      BY <2>2, <1>1, <1>3 DEF WinOK, Windows, Page
    <3>3. SimOK(sim')
      BY <3>1, <3>2, <1>3, NameAssumption DEF Started, SimOK
    <3> QED
      BY <3>1, <3>3, <1>1, OnlyAsks
  <2> QED
    BY <2>1, <2>2
<1>9. ASSUME NEW i \in DOMAIN win.tabs, CloseFile(i) PROVE GoodStep
  <2> DEFINE d == win.tabs[i]
  <2>1. d \in Pages(win) /\ d \in Doc
    BY <1>1, Indices DEF WinOK
  <2>2. ask' \in {Question(d), Deleting(d, "unchanged")} /\ UNCHANGED <<win, disk, sim>>
    BY <1>9 DEF CloseFile
  <2> HIDE DEF d
  <2>3. ask' \in Stages /\ ask'.at \in {"question", "delete"} /\ ask'.doc = d
    <3>1. Question(d) \in Stages /\ Deleting(d, "unchanged") \in Stages
      BY <2>1, StageShapes
    <3>2. Question(d).at = "question" /\ Question(d).doc = d
      BY DEF Question
    <3>3. Deleting(d, "unchanged").at = "delete" /\ Deleting(d, "unchanged").doc = d
      BY DEF Deleting
    <3> QED
      BY <2>2, <3>1, <3>2, <3>3
  <2>4. StageOK(win, ask', NoDoc)
    BY <2>1, <2>3 DEF StageOK, Present, Listed, SavedBehind
  <2>5. AskOK(win, ask')
    BY <2>3, <2>4, <1>2 DEF AskOK
  <2> QED
    BY <2>2, <2>5, <1>1, OnlyAsks
<1>10. ASSUME NEW why \in {"project", "quit"}, CloseAllFiles(why) PROVE GoodStep
  <2> DEFINE c == Changed(win)
  <2>1. /\ ask' = IF c = {} THEN ClosingAll({}, {}, why) ELSE List(c, c, why)
        /\ UNCHANGED <<win, disk, sim>>
    BY <1>10 DEF CloseAllFiles, Changed, Open, Pages
  <2>2. c \in SUBSET Doc /\ {} \in SUBSET Doc
    BY <1>1, Indices DEF WinOK, Changed
  <2>3. /\ ask' \in Stages /\ ask'.at \in {"list", "deleteAll"} /\ c \subseteq ask'.asked
        /\ ask'.at = "list" => ask'.docs = c
    BY <2>1, <2>2, StageShapes DEF ClosingAll, List
  <2>4. StageOK(win, ask', NoDoc)
    BY <2>3 DEF StageOK, Present, Listed, SavedBehind, Changed
  <2>5. AskOK(win, ask')
    BY <2>3, <2>4, <1>2 DEF AskOK
  <2> QED
    BY <2>1, <2>5, <1>1, OnlyAsks
<1> QED
  BY <1>5, <1>6, <1>7, <1>8, <1>9, <1>10

\* The slots that open or show a page.
LEMMA OpeningSlots ==
  ASSUME IInv, NewPage \/ Renew \/ (\E n \in Name : GotoPage(n))
  PROVE  GoodStep
<1>1. WinOK(win) /\ Unique(win) /\ disk \in Disks /\ SimOK(sim) /\ AskOK(win, ask)
      /\ (NamesAreWritten => Clean(win, disk))
  BY DEF IInv
<1>2. ASSUME NEW d \in Doc \ Open, win' = Added(win, d, NoName), UNCHANGED <<disk, sim>>, ask' = Idle
      PROVE  GoodStep
  <2>1. d \in Doc \ Pages(win)
    BY DEF Open, Pages
  <2>2. Opens(win, win', NoName, Empty)
    BY <2>1, <1>1, <1>2, AddedOpens
  <2>3. win'.tabs # <<>>
    BY <2>1, <1>1, <1>2, AddedShows
  <2>4. WinOK(win') /\ Unique(win') /\ (NamesAreWritten => Clean(win', disk'))
        /\ Pages(win) \subseteq Pages(win')
    BY <2>2, <1>1, <1>2, OpensKeeps DEF Opens, Calm
  <2>5. AskOK(win', ask')
    BY <2>3, <1>2, IdleOK
  <2> QED
    BY <2>4, <2>5, <1>1, <1>2, CalmStep
<1>3. ASSUME NewPage PROVE GoodStep
  BY <1>2, <1>3 DEF NewPage
<1>4. ASSUME Renew PROVE GoodStep
  BY <1>2, <1>4 DEF Renew
<1>5. ASSUME NEW n \in Name, GotoPage(n) PROVE GoodStep
  <2>1. ask = Idle /\ UNCHANGED <<disk, sim, ask>> /\ n # NoName
    BY <1>5, NameAssumption DEF GotoPage
  <2>2. win.tabs # <<>> /\ Len(win.tabs) \in Nat /\ Len(win.tabs) # 0
    BY <2>1, <1>1, AskCases, Indices DEF Idle, WinOK
  <2>3. CASE Found(n) # {}
    <3>1. PICK d \in Found(n) : win' = Show(win, d)
      BY <1>5, <2>3 DEF GotoPage
    <3>2. d \in Pages(win)
      BY DEF Found, Open, Pages
    <3>3. Opens(win, win', NoName, Empty)
      BY <3>1, <3>2, <1>1, ShowOpens
    <3>4. win'.tabs # <<>>
      BY <3>1, <3>2, <1>1, <2>2, ShowOK
    <3>5. WinOK(win') /\ Unique(win') /\ (NamesAreWritten => Clean(win', disk'))
          /\ Pages(win) \subseteq Pages(win')
      BY <3>3, <2>1, <1>1, OpensKeeps DEF Opens, Calm
    <3>6. AskOK(win', ask')
      BY <3>4, <2>1, IdleOK
    <3> QED
      BY <3>5, <3>6, <2>1, <1>1, CalmStep
  <2>4. CASE Found(n) = {}
    <3> DEFINE f == win.tabs[1]
    <3>1. PICK d \in Doc \ Open, ok \in ResultOf("load") :
            win' = IF ~ok \/ disk[n] = NoFile
                   THEN SetPage(Removed(Added(win, d, n), d), win.cur)
                   ELSE IF win.doc[f].name = NoName /\ ~win.doc[f].changed
                   THEN Removed(Loaded(Added(win, d, n), d, n), f)
                   ELSE Loaded(Added(win, d, n), d, n)
      BY <1>5, <2>4 DEF GotoPage
    <3>2. d \in Doc \ Pages(win) /\ \A e \in Pages(win) : win.doc[e].name # n
      BY <2>4 DEF Open, Pages, Found
    <3>3. f \in Pages(win)
      BY <1>1, <2>2, Indices DEF WinOK
    <3> HIDE DEF f
    <3>4. CASE ~ok \/ disk[n] = NoFile
      <4> DEFINE r == Removed(Added(win, d, n), d)
      <4>1. WinOK(r) /\ r.tabs = win.tabs /\ Pages(r) = Pages(win)
        BY <3>2, <1>1, AddedRemoved
      <4>2. Opens(win, r, NoName, Empty)
        BY <3>2, <1>1, FailedOpens
      <4>3. win' = SetPage(r, win.cur)
        BY <3>1, <3>4
      <4> HIDE DEF r
      <4>4. /\ WinOK(win') /\ win'.tabs = r.tabs /\ win'.doc = r.doc
        BY <4>1, <4>3, <1>1 DEF WinOK, Windows, SetPage
      <4>5. Unique(r) /\ (NamesAreWritten => Clean(r, disk))
        BY <4>2, <1>1, OpensKeeps
      <4>6. Unique(win') /\ (NamesAreWritten => Clean(win', disk')) /\ Pages(win') = Pages(win)
        BY <4>1, <4>4, <4>5, <2>1 DEF Unique, Clean, Pages
      <4>7. AskOK(win', ask')
        BY <4>1, <4>4, <2>1, <2>2, IdleOK
      <4> QED
        BY <4>4, <4>6, <4>7, <2>1, <1>1, CalmStep
    <3>5. CASE ok /\ disk[n] # NoFile
      <4> DEFINE l == Loaded(Added(win, d, n), d, n)
      <4>1. Opens(win, l, n, disk[n]) /\ l.tabs = Append(win.tabs, d)
        BY <3>2, <3>5, <1>1, LoadedOpens
      <4>2. win' = IF win.doc[f].name = NoName /\ ~win.doc[f].changed THEN Removed(l, f) ELSE l
        BY <3>1, <3>5
      <4> HIDE DEF l
      <4>3. WinOK(l) /\ Unique(l) /\ (NamesAreWritten => Clean(l, disk))
            /\ Pages(win) \subseteq Pages(l)
        BY <4>1, <3>2, <2>1, <1>1, OpensKeeps DEF Opens, Calm
      <4>4. Len(l.tabs) = Len(win.tabs) + 1
        BY <4>1, <1>1, AppendProperties DEF WinOK, Windows
      <4>5. CASE win.doc[f].name = NoName /\ ~win.doc[f].changed
        <5>1. f \in Pages(l) /\ win' = Removed(l, f)
          BY <4>2, <4>3, <4>5, <3>3
        <5>2. WinOK(win') /\ Pages(win') = Pages(l) \ {f} /\ Len(win'.tabs) = Len(l.tabs) - 1
          BY <5>1, <4>3, RemovedOK
        <5>3. Unique(win') /\ (NamesAreWritten => Clean(win', disk'))
          BY <5>1, <4>3, <2>1, RemovedKeeps
        <5>4. win'.tabs # <<>>
          BY <5>2, <4>4, <2>2, Indices DEF WinOK
        <5>5. AskOK(win', ask')
          BY <5>4, <2>1, IdleOK
        <5>6. IInv'
          BY <5>2, <5>3, <5>5, <2>1, <1>1 DEF IInv
        <5>7. \A e \in Pages(win) \ Pages(win') : ~win.doc[e].changed
          BY <5>2, <4>3, <4>5
        <5> QED
          BY <5>6, <5>7 DEF GoodStep
      <4>6. CASE ~(win.doc[f].name = NoName /\ ~win.doc[f].changed)
        <5>1. win' = l
          BY <4>2, <4>6
        <5>2. win'.tabs # <<>>
          BY <5>1, <4>3, <4>4, <2>2, Indices DEF WinOK
        <5>3. AskOK(win', ask')
          BY <5>2, <2>1, IdleOK
        <5> QED
          BY <5>1, <5>3, <4>3, <2>1, <1>1, CalmStep
      <4> QED
        BY <4>5, <4>6
    <3> QED
      BY <3>4, <3>5
  <2> QED
    BY <2>3, <2>4
<1> QED
  BY <1>3, <1>4, <1>5
\* A click on a tab, an edit.
LEMMA EditingSlots ==
  ASSUME IInv, ask = Idle,
         \/ \E i \in DOMAIN win.tabs : ShowPage(i)
         \/ \E c \in Content : Edit(c)
  PROVE  GoodStep
<1>1. WinOK(win) /\ Unique(win) /\ disk \in Disks /\ SimOK(sim) /\ AskOK(win, ask)
      /\ (NamesAreWritten => Clean(win, disk))
  BY DEF IInv
<1>2. win.tabs # <<>> /\ win \in Windows /\ win.doc \in [Doc -> Page]
  BY <1>1, AskCases DEF Idle, WinOK, Windows
<1>3. ASSUME NEW i \in DOMAIN win.tabs, ShowPage(i) PROVE GoodStep
  <2>1. i \in 1..Len(win.tabs) /\ win' = [win EXCEPT !.cur = i] /\ UNCHANGED <<disk, sim, ask>>
    BY <1>2, <1>3, Indices DEF ShowPage, SetPage
  <2>2. WinOK(win') /\ win'.tabs = win.tabs /\ win'.doc = win.doc
    BY <2>1, <1>1, <1>2, Indices DEF WinOK, Windows
  <2>3. Unique(win') /\ (NamesAreWritten => Clean(win', disk')) /\ Pages(win') = Pages(win)
    BY <2>1, <2>2, <1>1 DEF Unique, Clean, Pages
  <2>4. AskOK(win', ask')
    BY <2>1, <2>2, <1>2, IdleOK
  <2> QED
    BY <2>1, <2>2, <2>3, <2>4, <1>1, CalmStep
<1>4. ASSUME NEW c \in Content, Edit(c) PROVE GoodStep
  <2> DEFINE d == Current
             p == Edited(win.doc[d], c)
             v == [win EXCEPT !.doc[d] = p]
  <2>1. d \in Doc /\ win.doc[d] \in Page
    BY <1>1, <1>2, CurrentIsOpen
  <2>2. p \in Page /\ p.name = win.doc[d].name /\ p.changed
    BY <2>1 DEF Page, Edited
  <2>3. win' = v /\ UNCHANGED <<disk, sim, ask>>
    BY <1>4 DEF Edit
  <2> HIDE DEF d, p
  <2>4. /\ WinOK(v) /\ v.tabs = win.tabs /\ Pages(v) = Pages(win) /\ v.doc[d] = p
        /\ \A e \in Doc \ {d} : v.doc[e] = win.doc[e]
    BY <2>1, <2>2, <1>1, DocReplaced
  <2> HIDE DEF v
  <2>5. \A e \in Pages(win) : e \in Doc
    BY <1>2, Indices
  <2>6. Unique(v)
    <3>1. \A e \in Pages(win) : v.doc[e].name = win.doc[e].name
      BY <2>2, <2>4, <2>5
    <3> QED
      BY <3>1, <2>4, <1>1 DEF Unique
  <2>7. NamesAreWritten => Clean(v, disk)
    BY <2>2, <2>4, <2>5, <1>1 DEF Clean
  <2>8. AskOK(v, Idle)
    BY <2>4, <1>2, IdleOK
  <2> QED
    BY <2>3, <2>4, <2>6, <2>7, <2>8, <1>1, CalmStep
<1> QED
  BY <1>3, <1>4

\* The answers in the file dialog of saveAs.
LEMMA NameAnswers ==
  ASSUME IInv, CancelName \/ \E n \in Name : ChooseName(n)
  PROVE  GoodStep
<1>1. WinOK(win) /\ Unique(win) /\ disk \in Disks /\ SimOK(sim) /\ AskOK(win, ask)
      /\ (NamesAreWritten => Clean(win, disk))
  BY DEF IInv
<1>2. ask.at = "name"
  BY DEF CancelName, ChooseName
<1>3. /\ ask \in NameStages /\ ask.doc \in Pages(win)
      /\ StageOK(win, ask.yes, ask.doc) /\ StageOK(win, ask.no, NoDoc)
      /\ ask.yes.at = "simulate" => ask.yes.doc = ask.doc
      /\ ask.no.at # "simulate"
  BY <1>1, <1>2, AskCases
<1>4. /\ win.tabs # <<>> /\ win \in Windows /\ win.doc \in [Doc -> Page] /\ Len(win.tabs) \in Nat
      /\ \A e \in Pages(win) : e \in Doc
  <2>1. win \in Windows
    BY <1>1 DEF WinOK
  <2>2. Len(win.tabs) # 0
    BY <2>1, <1>3, Indices
  <2> QED
    BY <2>1, <2>2, Indices DEF Windows
<1>5. ASSUME CancelName PROVE GoodStep
  <2>1. AskOK(win, ask')
    BY <1>3, <1>4, <1>5 DEF CancelName, AskOK
  <2> QED
    BY <2>1, <1>1, <1>5, OnlyAsks DEF CancelName
<1>6. ASSUME NEW n \in Name, ChooseName(n) PROVE GoodStep
  <2> DEFINE d == ask.doc
  <2>1. PICK ok \in BOOLEAN :
          /\ win' = [win EXCEPT !.doc[d] = Named(win.doc[d], n, ok)]
          /\ disk' = IF ok THEN [disk EXCEPT ![n] = win.doc[d].content] ELSE disk
          /\ ask' = IF ok THEN ask.yes ELSE ask.no
          /\ ok \/ "saveAs" \in Fails
    BY <1>6 DEF ChooseName, ResultOf
  <2>2. sim' = sim /\ Found(n) = {} /\ n # NoName
    BY <1>6, NameAssumption DEF ChooseName
  <2> DEFINE p == Named(win.doc[d], n, ok)
             v == [win EXCEPT !.doc[d] = p]
  <2>3. d \in Doc /\ d \in Pages(win) /\ win.doc[d] \in Page
    BY <1>3, <1>4
  <2>4. p \in Page /\ p.name = n /\ p.content = win.doc[d].content
        /\ (p.changed <=> win.doc[d].changed /\ ~ok)
    <3>1. p.name = n /\ p.content = win.doc[d].content
      BY <2>3 DEF Page, Named
    <3>2. p.changed = (win.doc[d].changed /\ ~ok)
      BY <2>3 DEF Page, Named
    <3>3. p \in Page
      BY <2>3 DEF Page, Named
    <3> HIDE DEF p
    <3>4. p.changed <=> win.doc[d].changed /\ ~ok
      BY <3>2, Zenon
    <3> QED
      BY <3>1, <3>3, <3>4
  <2>5. win' = v
    BY <2>1
  <2>6. win.doc[d].content \in Content /\ \A e \in Pages(win) : win.doc[e].name # n
    BY <2>2, <2>3 DEF Page, Found, Open, Pages
  <2> HIDE DEF d, p
  <2>7. /\ WinOK(v) /\ v.tabs = win.tabs /\ Pages(v) = Pages(win) /\ v.doc[d] = p
        /\ \A e \in Doc \ {d} : v.doc[e] = win.doc[e]
    BY <2>3, <2>4, <1>1, DocReplaced
  <2> HIDE DEF v
  <2>8. Unique(v)
    BY <2>3, <2>4, <2>6, <2>7, <1>1, <1>4 DEF Unique
  <2>9. disk' \in Disks
    BY <2>1, <2>6, <1>1 DEF Disks
  <2>10. Calm(win, v)
    BY <2>3, <2>4, <2>7, <1>4 DEF Calm
  <2>11. ASSUME NamesAreWritten, NEW e \in Pages(v), ~v.doc[e].changed
         PROVE  v.doc[e].content = IF v.doc[e].name = NoName THEN Empty ELSE disk'[v.doc[e].name]
    <3>1. ok /\ disk' = [disk EXCEPT ![n] = win.doc[d].content]
      BY <2>1, <2>11 DEF NamesAreWritten
    <3>2. disk'[n] = win.doc[d].content /\ \A m \in Name \ {n} : disk'[m] = disk[m]
      BY <3>1, <1>1 DEF Disks
    <3>3. CASE e = d
      BY <3>2, <3>3, <2>2, <2>4, <2>7
    <3>4. CASE e # d
      <4>1. v.doc[e] = win.doc[e] /\ e \in Pages(win) /\ win.doc[e].name # n
        BY <3>4, <2>6, <2>7, <2>11, <1>4
      <4>2. win.doc[e].name \in Name \cup {NoName}
        BY <4>1, <1>4 DEF Page
      <4> QED
        BY <4>1, <4>2, <3>2, <2>11, <1>1 DEF Clean
    <3> QED
      BY <3>3, <3>4
  <2>12. NamesAreWritten => Clean(v, disk')
    BY <2>11 DEF Clean
  <2>13. StageOK(v, ask.yes, d) /\ StageOK(v, ask.no, NoDoc)
    BY <2>7, <2>10, <1>1, <1>3, CalmKeepsStage DEF d
  <2>14. AskOK(v, ask')
    <3>1. CASE ok
      <4>1. ~v.doc[d].changed
        BY <3>1, <2>4, <2>7
      <4>2. StageOK(v, ask.yes, NoDoc)
        BY <4>1, <2>13 DEF StageOK, SavedBehind
      <4>3. ask.yes.at = "simulate" => v.doc[ask.yes.doc].name \in Name
        BY <2>4, <2>7, <1>3 DEF d
      <4> QED
        BY <4>2, <4>3, <3>1, <2>1, <2>7, <1>4 DEF AskOK
    <3>2. CASE ~ok
      BY <3>2, <2>1, <2>7, <2>13, <1>3, <1>4 DEF AskOK
    <3> QED
      BY <3>1, <3>2
  <2> QED
    BY <2>2, <2>5, <2>7, <2>8, <2>9, <2>12, <2>14, <1>1, CalmStep
<1> QED
  BY <1>5, <1>6

\* The answers to the question about one document, and what follows them.
LEMMA ClosingSlots ==
  ASSUME IInv, AnswerSave \/ AnswerDiscard \/ AnswerCancel \/ DeleteDoc \/ StartProcess
  PROVE  GoodStep
<1>1. WinOK(win) /\ Unique(win) /\ disk \in Disks /\ SimOK(sim) /\ AskOK(win, ask)
      /\ (NamesAreWritten => Clean(win, disk))
  BY DEF IInv
<1>2. ask.at \in {"question", "delete", "simulate"}
  BY DEF AnswerSave, AnswerDiscard, AnswerCancel, DeleteDoc, StartProcess
<1>3. ask \in Stages /\ ask.doc \in Pages(win) /\ win.tabs # <<>>
  BY <1>1, <1>2, AskCases DEF StageOK, Present
<1>4. /\ win \in Windows /\ ask.doc \in Doc
  BY <1>1, <1>3, Indices DEF WinOK
<1>5. \A s \in {"unchanged", "saved", "not saved", "discard"} :
        StageOK(win, Deleting(ask.doc, s), NoDoc) /\ Deleting(ask.doc, s).at = "delete"
  <2> SUFFICES ASSUME NEW s \in {"unchanged", "saved", "not saved", "discard"}
               PROVE  StageOK(win, Deleting(ask.doc, s), NoDoc)
                      /\ Deleting(ask.doc, s).at = "delete"
    OBVIOUS
  <2> DEFINE a == Deleting(ask.doc, s)
  <2>1. a \in Stages
    BY <1>4, StageShapes
  <2>2. a.at = "delete" /\ a.doc = ask.doc
    BY DEF Deleting
  <2> HIDE DEF a
  <2>3. StageOK(win, a, NoDoc) /\ a.at = "delete"
    BY <2>1, <2>2, <1>3 DEF StageOK, Present, Listed, SavedBehind
  <2> QED
    BY <2>3 DEF a
<1>6. ASSUME AnswerSave PROVE GoodStep
  <2> DEFINE y == Deleting(ask.doc, "saved")
             n == Deleting(ask.doc, "not saved")
  <2>1. SaveFile(Current, y, n) /\ sim' = sim
    BY <1>6 DEF AnswerSave
  <2>2. StageOK(win, y, NoDoc) /\ StageOK(win, n, NoDoc) /\ y.at # "simulate" /\ n.at # "simulate"
    BY <1>5
  <2>3. Current \in Pages(win) /\ Current # NoDoc
    BY <1>1, <1>3, CurrentIsOpen, NameAssumption
  <2> HIDE DEF y, n
  <2> QED
    BY <2>1, <2>2, <2>3, <1>3, SaveFileOK
<1>7. ASSUME AnswerDiscard PROVE GoodStep
  <2>1. AskOK(win, Deleting(ask.doc, "discard"))
    BY <1>3, <1>5 DEF AskOK
  <2>2. ask' = Deleting(ask.doc, "discard") /\ UNCHANGED <<win, disk, sim>>
    BY <1>7 DEF AnswerDiscard
  <2> QED
    BY <2>1, <2>2, <1>1, OnlyAsks
<1>8. ASSUME AnswerCancel PROVE GoodStep
  <2>1. AskOK(win, Idle)
    BY <1>3, IdleOK
  <2> QED
    BY <2>1, <1>1, <1>8, OnlyAsks DEF AnswerCancel
<1>9. ASSUME DeleteDoc PROVE GoodStep
  <2>1. win' = Removed(win, ask.doc) /\ disk' = disk /\ Forget({ask.doc})
        /\ ask' = (IF win'.tabs = <<>> THEN Renewing ELSE Idle) /\ ask.at = "delete"
    BY <1>9 DEF DeleteDoc
  <2>2. WinOK(win') /\ Pages(win') = Pages(win) \ {ask.doc}
    BY <2>1, <1>1, <1>3, RemovedOK
  <2>3. Unique(win') /\ (NamesAreWritten => Clean(win', disk'))
    BY <2>1, <1>1, <1>3, RemovedKeeps
  <2>4. SimOK(sim')
    BY <2>1, <1>1 DEF Forget, SimOK, NoSim
  <2>5. AskOK(win', ask')
    BY <2>1, IdleOK DEF AskOK
  <2>6. IInv'
    BY <2>1, <2>2, <2>3, <2>4, <2>5, <1>1 DEF IInv
  <2>7. AskedAbout = {ask.doc}
    BY <2>1 DEF AskedAbout
  <2> QED
    BY <2>2, <2>6, <2>7 DEF GoodStep
<1>10. ASSUME StartProcess PROVE GoodStep
  <2>1. ask.at = "simulate" /\ Started(ask.doc) /\ ask' = Idle /\ UNCHANGED <<win, disk>>
    BY <1>10 DEF StartProcess
  <2>2. win.doc[ask.doc].name \in Name
    BY <2>1, <1>1, AskCases
  <2>3. SimOK(sim')
    BY <2>1, <2>2, <1>4, NameAssumption DEF Started, SimOK
  <2>4. AskOK(win, Idle)
    BY <1>3, IdleOK
  <2> QED
    BY <2>1, <2>3, <2>4, OnlyAsks
<1> QED
  BY <1>6, <1>7, <1>8, <1>9, <1>10
\* The dialog of closeAllFiles and what follows it.
LEMMA ClosingAllSlots ==
  ASSUME IInv,
         \/ AbortClosing \/ DontSave \/ SaveNextSelected \/ AllSelected \/ IteratorCrashes
         \/ DeleteAll
         \/ ask.at = "list" /\ \E chosen \in SUBSET ask.docs : SaveSelected(chosen)
  PROVE  GoodStep
<1>1. WinOK(win) /\ Unique(win) /\ disk \in Disks /\ SimOK(sim) /\ AskOK(win, ask)
      /\ (NamesAreWritten => Clean(win, disk))
  BY DEF IInv
<1>2. ask.at \in {"list", "saving", "deleteAll"}
  BY DEF AbortClosing, DontSave, SaveNextSelected, AllSelected, IteratorCrashes, DeleteAll
<1>3. StageOK(win, ask, NoDoc) /\ win.tabs # <<>> /\ ask \in Stages
  BY <1>1, <1>2, AskCases DEF StageOK
<1>4. /\ ask.at = "list" => ask \in Lists /\ ask.docs \subseteq Pages(win)
      /\ ask.at = "saving" => /\ ask \in Savings
                              /\ ask.todo \subseteq Pages(win)
                              /\ ask.list.docs \subseteq Pages(win)
      /\ NoOptimiser => Listed(win, ask)
  BY <1>3, StageFields DEF StageOK, Present
\* A stage made of the dialog is in order if it keeps what the dialog asked.
<1>5. ASSUME NEW a \in Stages, Present(win, a), a.at \in {"list", "saving", "deleteAll"},
             NoOptimiser => Listed(win, a)
      PROVE  StageOK(win, a, NoDoc) /\ AskOK(win, a)
  <2>1. StageOK(win, a, NoDoc)
    BY <1>5 DEF StageOK, SavedBehind
  <2> QED
    BY <2>1, <1>3, <1>5 DEF AskOK
<1>6. ASSUME AbortClosing PROVE GoodStep
  <2>1. AskOK(win, Idle)
    BY <1>3, IdleOK
  <2> QED
    BY <2>1, <1>1, <1>6, OnlyAsks DEF AbortClosing
<1>7. ASSUME NEW chosen \in SUBSET Doc, NEW asked \in SUBSET Doc, NEW why \in {"project", "quit"},
             NoOptimiser => Changed(win) \subseteq asked
      PROVE  AskOK(win, ClosingAll(asked, chosen, why))
  <2> DEFINE a == ClosingAll(asked, chosen, why)
  <2>1. a \in Stages
    BY StageShapes
  <2>2. a.at = "deleteAll" /\ a.asked = asked
    BY DEF ClosingAll
  <2> HIDE DEF a
  <2>3. Present(win, a) /\ (NoOptimiser => Listed(win, a))
    BY <2>2, <1>7 DEF Present, Listed
  <2>4. AskOK(win, a)
    BY <2>1, <2>2, <2>3, <1>5
  <2> QED
    BY <2>4 DEF a
<1>8. ASSUME DontSave PROVE GoodStep
  <2>1. ask.at = "list" /\ ask' = ClosingAll(ask.asked, {}, ask.why) /\ UNCHANGED <<win, disk, sim>>
    BY <1>8 DEF DontSave
  <2>2. ask.asked \in SUBSET Doc /\ ask.why \in {"project", "quit"}
        /\ (NoOptimiser => Changed(win) \subseteq ask.asked)
    BY <2>1, <1>4 DEF Lists, Listed
  <2>3. AskOK(win, ask')
    BY <2>1, <2>2, <1>7
  <2> QED
    BY <2>1, <2>3, <1>1, OnlyAsks
<1>9. ASSUME NEW chosen \in SUBSET ask.docs, SaveSelected(chosen) PROVE GoodStep
  <2> DEFINE a == [at |-> "saving", list |-> ask, chosen |-> chosen, todo |-> chosen,
                   failed |-> {}]
  <2>1. ask.at = "list" /\ ask' = a /\ UNCHANGED <<win, disk, sim>>
    BY <1>9 DEF SaveSelected
  <2>2. ask \in Lists /\ ask.docs \in SUBSET Doc /\ chosen \in SUBSET Doc
    BY <2>1, <1>4 DEF Lists
  <2>3. a \in Savings
    BY <2>2 DEF Savings
  <2>4. a.at = "saving" /\ a.list = ask /\ a.todo = chosen
    OBVIOUS
  <2> HIDE DEF a
  <2>5. a \in Stages
    BY <2>3 DEF Stages
  <2>6. Present(win, a) /\ (NoOptimiser => Listed(win, a))
    BY <2>1, <2>4, <1>4 DEF Present, Listed
  <2>7. AskOK(win, ask')
    BY <2>1, <2>4, <2>5, <2>6, <1>5
  <2> QED
    BY <2>1, <2>7, <1>1, OnlyAsks
<1>10. ASSUME SaveNextSelected PROVE GoodStep
  <2>1. ask.at = "saving" /\ ask \in Savings /\ sim' = sim
    BY <1>10, <1>4 DEF SaveNextSelected
  <2>2. PICK d \in ask.todo :
          SaveFile(d, [[ask EXCEPT !.todo = @ \ {d}] EXCEPT !.list.docs = @ \ {d}],
                      [[ask EXCEPT !.todo = @ \ {d}] EXCEPT !.failed = @ \cup {d}])
    BY <1>10 DEF SaveNextSelected
  <2> DEFINE y == [[ask EXCEPT !.todo = @ \ {d}] EXCEPT !.list.docs = @ \ {d}]
             n == [[ask EXCEPT !.todo = @ \ {d}] EXCEPT !.failed = @ \cup {d}]
  <2>3. d \in Pages(win) /\ d \in Doc /\ NoDoc # d
    BY <2>1, <2>2, <1>4, NameAssumption DEF Savings
  <2>4. /\ y \in Savings /\ y.at = "saving" /\ y.todo = ask.todo \ {d}
        /\ y.list.docs = ask.list.docs \ {d} /\ y.list.asked = ask.list.asked
    BY <2>1 DEF Savings, Lists
  <2>5. /\ n \in Savings /\ n.at = "saving" /\ n.todo = ask.todo \ {d} /\ n.list = ask.list
    BY <2>1, <2>3 DEF Savings
  <2>6. SaveFile(d, y, n)
    BY <2>2
  <2> HIDE DEF y, n
  <2>7. StageOK(win, y, NoDoc)
    <3>1. Present(win, y) /\ (NoOptimiser => Listed(win, y)) /\ y \in Stages
      BY <2>1, <2>4, <1>4 DEF Present, Listed, Stages
    <3> QED
      BY <3>1, <2>4, <1>5
  <2>8. StageOK(win, n, NoDoc)
    <3>1. Present(win, n) /\ (NoOptimiser => Listed(win, n)) /\ n \in Stages
      BY <2>1, <2>5, <1>4 DEF Present, Listed, Stages
    <3> QED
      BY <3>1, <2>5, <1>5
  <2> QED
    BY <2>1, <2>3, <2>4, <2>5, <2>6, <2>7, <2>8, <1>3, SaveFileOK
<1>11. ASSUME AllSelected PROVE GoodStep
  <2>1. /\ ask.at = "saving" /\ ask \in Savings /\ UNCHANGED <<win, disk, sim>>
        /\ ask' = IF ask.failed = {} THEN ClosingAll(ask.list.asked, ask.chosen, ask.list.why)
                  ELSE ask.list
    BY <1>11, <1>4 DEF AllSelected
  <2>2. /\ ask.list \in Lists /\ ask.list.at = "list" /\ ask.list.asked \in SUBSET Doc
        /\ ask.list.why \in {"project", "quit"} /\ ask.chosen \in SUBSET Doc
    BY <2>1 DEF Savings, Lists
  <2>3. NoOptimiser => Changed(win) \subseteq ask.list.asked
    BY <2>1, <1>4 DEF Listed
  <2>4. AskOK(win, ask.list)
    <3>1. ask.list \in Stages
      BY <2>2 DEF Stages
    <3>2. Present(win, ask.list) /\ (NoOptimiser => Listed(win, ask.list))
      BY <2>1, <2>2, <2>3, <1>4 DEF Present, Listed
    <3> QED
      BY <3>1, <3>2, <2>2, <1>5
  <2>5. AskOK(win, ask')
    BY <2>1, <2>2, <2>3, <2>4, <1>7
  <2> QED
    BY <2>1, <2>5, <1>1, OnlyAsks
<1>12. ASSUME IteratorCrashes PROVE GoodStep
  <2>1. AskOK(win, Crashed)
    BY DEF AskOK
  <2> QED
    BY <2>1, <1>1, <1>12, OnlyAsks DEF IteratorCrashes
<1>13. ASSUME DeleteAll PROVE GoodStep
  <2>1. ask.at = "deleteAll" /\ win' = NoWin /\ disk' = disk
    BY <1>13 DEF DeleteAll
  <2>2. SimOK(sim') /\ ask' \in {Renewing, Ended}
    BY <1>13, <1>1, NameAssumption DEF DeleteAll, Forget, SimOK, NoSim
  <2>3. WinOK(win') /\ Pages(win') = {}
    BY <2>1, NoWinOK
  <2>4. Unique(win') /\ Clean(win', disk')
    BY <2>3 DEF Unique, Clean
  <2>5. IInv'
    BY <2>1, <2>2, <2>3, <2>4, <1>1 DEF IInv, AskOK
  <2>6. NoOptimiser => Changed(win) \subseteq AskedAbout
    BY <2>1, <1>4 DEF Listed, AskedAbout
  <2> QED
    BY <2>5, <2>6 DEF GoodStep, Changed
<1> QED
  BY <1>6, <1>8, <1>9, <1>10, <1>11, <1>12, <1>13

\* The loop of slotFileSaveAll.
LEMMA SavingAllSlot ==
  ASSUME IInv, SaveNextPage
  PROVE  GoodStep
<1>1. WinOK(win) /\ Unique(win) /\ disk \in Disks /\ SimOK(sim) /\ AskOK(win, ask)
      /\ (NamesAreWritten => Clean(win, disk))
  BY DEF IInv
<1>2. ask.at = "all" /\ sim' = sim
  BY DEF SaveNextPage
<1>3. StageOK(win, ask, NoDoc) /\ win.tabs # <<>> /\ ask.no \in Nat \ {0} /\ ask.ok \in BOOLEAN
  BY <1>1, <1>2, AskCases, StageFields DEF StageOK
<1> DEFINE no == ask.no
           yes == SavingAll(no + 1, ask.ok)
           fail == SavingAll(no + 1, FALSE)
           d == win.tabs[no]
<1>4. CASE no > Len(win.tabs)
  <2>1. ask' = Idle /\ UNCHANGED <<win, disk>>
    BY <1>4 DEF SaveNextPage
  <2>2. AskOK(win, Idle)
    BY <1>3, IdleOK
  <2> QED
    BY <2>1, <2>2, <1>1, <1>2, OnlyAsks
<1>5. CASE ~(no > Len(win.tabs))
  <2>1. no \in 1..Len(win.tabs) /\ d \in Pages(win) /\ d \in Doc /\ no + 1 \in Nat \ {0}
        /\ win \in Windows
    <3>1. win \in Windows
      BY <1>1 DEF WinOK
    <3>2. no \in 1..Len(win.tabs)
      BY <3>1, <1>3, <1>5, Indices
    <3> QED
      BY <3>1, <3>2, <1>3, Indices
  <2>2. /\ yes \in Stages /\ yes.at = "all" /\ yes.no = no + 1 /\ yes.ok = ask.ok
        /\ fail \in Stages /\ fail.at = "all" /\ ~fail.ok
    BY <2>1, <1>3, StageShapes DEF SavingAll
  <2>3. IF win.doc[d].name = NoName
        THEN win' = SetPage(win, no) /\ ask' = NameDialog(d, yes, fail) /\ disk' = disk
        ELSE SaveFile(d, yes, fail)
    BY <1>5 DEF SaveNextPage
  <2>4. \A i \in 1..Len(win.tabs) : i < no + 1 => i < no \/ i = no
    BY <2>1
  <2> HIDE DEF yes, fail
  <2>5. StageOK(win, yes, d)
    <3>1. NoOptimiser => SavedBehind(win, yes, d)
      <4> SUFFICES ASSUME NoOptimiser, yes.ok, NEW i \in 1..Len(win.tabs), i < yes.no,
                          win.doc[win.tabs[i]].changed
                   PROVE  win.tabs[i] = d
        BY DEF SavedBehind
      <4>1. CASE i = no
        BY <4>1
      <4>2. CASE i < no
        <5>1. win.tabs[i] = NoDoc
          BY <4>2, <2>2, <1>2, <1>3 DEF StageOK, SavedBehind
        <5> QED
          BY <5>1, <2>1, Indices, NameAssumption
      <4> QED
        BY <4>1, <4>2, <2>2, <2>4
    <3> QED
      BY <3>1, <2>2 DEF StageOK, Present, Listed
  <2>6. StageOK(win, fail, NoDoc)
    BY <2>2 DEF StageOK, Present, Listed, SavedBehind
  <2> HIDE DEF d
  <2>7. CASE win.doc[d].name = NoName
    <3>1. win' = [win EXCEPT !.cur = no] /\ ask' = NameDialog(d, yes, fail) /\ disk' = disk
      BY <2>3, <2>7 DEF SetPage
    <3> HIDE DEF no
    <3>2. WinOK(win') /\ win'.tabs = win.tabs /\ win'.doc = win.doc
      BY <3>1, <2>1, <1>1, <1>3 DEF WinOK, Windows
    <3>3. Unique(win') /\ (NamesAreWritten => Clean(win', disk')) /\ Pages(win') = Pages(win)
      BY <3>1, <3>2, <1>1 DEF Unique, Clean, Pages
    <3>4. Calm(win, win')
      BY <3>2, <3>3, <2>1, Indices DEF Calm
    <3>5. StageOK(win', yes, d) /\ StageOK(win', fail, NoDoc)
      BY <3>2, <3>4, <2>5, <2>6, <1>1, CalmKeepsStage
    <3>6. ask' \in NameStages
      BY <3>1, <2>1, <2>2, StageShapes
    <3>7. ask'.doc = d /\ ask'.yes = yes /\ ask'.no = fail
      BY <3>1 DEF NameDialog
    <3>8. AskOK(win', ask')
      BY <3>3, <3>5, <3>6, <3>7, <2>1, <2>2 DEF AskOK
    <3> QED
      BY <3>1, <3>2, <3>3, <3>8, <1>1, <1>2, CalmStep
  <2>8. CASE win.doc[d].name # NoName
    <3>1. SaveFile(d, yes, fail)
      BY <2>3, <2>8
    <3>2. yes.at # "simulate" /\ fail.at # "simulate"
      BY <2>2
    <3> QED
      BY <3>1, <3>2, <2>1, <2>5, <2>6, <2>8, <1>2, <1>3, SaveFileOK
  <2> QED
    BY <2>7, <2>8
<1> QED
  BY <1>4, <1>5

\* The end of a simulation, whichever dialog is open.
LEMMA SimulationSlot ==
  ASSUME IInv, SimulationEnds
  PROVE  GoodStep
<1>1. WinOK(win) /\ Unique(win) /\ disk \in Disks /\ SimOK(sim) /\ AskOK(win, ask)
      /\ (NamesAreWritten => Clean(win, disk))
  BY DEF IInv
<1>2. sim' = NoSim /\ ask' = ask /\ sim.page \in Name /\ sim.doc \in Doc \cup {NoDoc}
      /\ SimOK(NoSim)
  <2>1. sim' = NoSim /\ ask' = ask /\ sim # NoSim
    BY DEF SimulationEnds
  <2>2. SimOK(NoSim)
    BY DEF SimOK, NoSim
  <2> QED
    BY <2>1, <2>2, <1>1 DEF SimOK
<1>3. PICK w : /\ w \in {win} \cup Optimised
               /\ \/ win' = w /\ UNCHANGED disk
                  \/ ChangePage(w, sim.page)
  BY DEF SimulationEnds
<1>4. /\ WinOK(w) /\ Calm(win, w) /\ Unique(w) /\ w.tabs = win.tabs
      /\ \A e \in Pages(w) : w.doc[e].name = win.doc[e].name
      /\ NamesAreWritten => Clean(w, disk)
  <2>0. Len(win.tabs) \in Nat /\ win.doc \in [Doc -> Page] /\ \A e \in Pages(win) : e \in Doc
    BY <1>1, Indices DEF WinOK, Windows
  <2>1. CASE w = win
    BY <2>0, <2>1, <1>1 DEF Calm
  <2>2. CASE w # win
    <3> DEFINE d == sim.doc
    <3>1. PICK c \in Content : w = [win EXCEPT !.doc[d] = Edited(win.doc[d], c)]
      <4>1. w \in Optimised
        BY <2>2, <1>3
      <4> QED
        BY <4>1 DEF Optimised
    <3>0. d \in Doc /\ ~NoOptimiser
      BY <2>2, <1>2, <1>3 DEF Optimised, NoOptimiser
    <3> DEFINE p == Edited(win.doc[d], c)
               v == [win EXCEPT !.doc[d] = p]
    <3>2. p \in Page /\ p.name = win.doc[d].name /\ p.changed
      BY <3>0, <2>0 DEF Page, Edited
    <3>3. w = v
      BY <3>1
    <3> HIDE DEF p, d
    <3>4. /\ WinOK(v) /\ v.tabs = win.tabs /\ Pages(v) = Pages(win) /\ v.doc[d] = p
          /\ \A e \in Doc \ {d} : v.doc[e] = win.doc[e]
      BY <3>0, <3>2, <1>1, DocReplaced
    <3> HIDE DEF v
    <3>5. \A e \in Pages(win) : v.doc[e].name = win.doc[e].name
      BY <3>2, <3>4, <2>0
    <3>6. Unique(v)
      BY <3>4, <3>5, <1>1 DEF Unique
    <3>7. NamesAreWritten => Clean(v, disk)
      BY <3>2, <3>4, <2>0, <1>1 DEF Clean
    <3>8. Calm(win, v)
      BY <3>0, <3>4, <3>5, <2>0 DEF Calm
    <3> QED
      BY <3>3, <3>4, <3>5, <3>6, <3>7, <3>8
  <2> QED
    BY <2>1, <2>2
<1>5. AskOK(w, ask) /\ Pages(w) = Pages(win)
  BY <1>1, <1>4, CalmKeepsAsk DEF Pages
<1>6. CASE win' = w /\ UNCHANGED disk
  BY <1>1, <1>2, <1>4, <1>5, <1>6, CalmStep
<1>7. CASE ChangePage(w, sim.page)
  <2>1. /\ WinOK(win') /\ Unique(win') /\ disk' \in Disks /\ Calm(w, win')
        /\ NamesAreWritten => Clean(win', disk')
    BY <1>2, <1>4, <1>7, ChangePageOK
  <2>2. AskOK(win', ask')
    BY <2>1, <1>2, <1>4, <1>5, CalmKeepsAsk
  <2>3. Pages(win) \subseteq Pages(win')
    BY <2>1, <1>5 DEF Calm
  <2> QED
    BY <2>1, <2>2, <2>3, <1>2, CalmStep
<1> QED
  BY <1>3, <1>6, <1>7

-----------------------------------------------------------------------------
LEMMA StepOK ==
  ASSUME IInv, [Next]_vars
  PROVE  GoodStep
<1>1. CASE UNCHANGED vars
  <2>1. UNCHANGED <<win, disk>> /\ SimOK(sim') /\ AskOK(win, ask')
    BY <1>1 DEF vars, IInv
  <2> QED
    BY <2>1, OnlyAsks
<1>2. CASE User
  <2>1. CASE \/ SlotFileSave \/ SlotFileSaveAs \/ SlotFileSaveAll \/ SlotSimulate
             \/ \E i \in DOMAIN win.tabs : CloseFile(i)
             \/ \E why \in {"project", "quit"} : CloseAllFiles(why)
    <3>1. ask = Idle
      BY <2>1 DEF SlotFileSave, SlotFileSaveAs, SlotFileSaveAll, SlotSimulate, CloseFile,
                  CloseAllFiles
    <3> QED
      BY <2>1, <3>1, IdleSlots
  <2>2. CASE NewPage \/ \E n \in Name : GotoPage(n)
    BY <2>2, OpeningSlots
  <2>3. CASE (\E i \in DOMAIN win.tabs : ShowPage(i)) \/ \E c \in Content : Edit(c)
    <3>1. ask = Idle
      BY <2>3 DEF ShowPage, Edit
    <3> QED
      BY <2>3, <3>1, EditingSlots
  <2>4. CASE CancelName \/ \E n \in Name : ChooseName(n)
    BY <2>4, NameAnswers
  <2>5. CASE AnswerSave \/ AnswerDiscard \/ AnswerCancel
    BY <2>5, ClosingSlots
  <2>6. CASE \/ AbortClosing \/ DontSave
             \/ ask.at = "list" /\ \E chosen \in SUBSET ask.docs : SaveSelected(chosen)
    BY <2>6, ClosingAllSlots
  <2> QED
    BY <1>2, <2>1, <2>2, <2>3, <2>4, <2>5, <2>6 DEF User
<1>3. CASE Program
  <2>1. CASE SaveNextPage
    BY <2>1, SavingAllSlot
  <2>2. CASE SaveNextSelected \/ AllSelected \/ IteratorCrashes \/ DeleteAll
    BY <2>2, ClosingAllSlots
  <2>3. CASE DeleteDoc \/ StartProcess
    BY <2>3, ClosingSlots
  <2>4. CASE Renew
    BY <2>4, OpeningSlots
  <2> QED
    BY <1>3, <2>1, <2>2, <2>3, <2>4 DEF Program
<1>4. CASE SimulationEnds
  BY <1>4, SimulationSlot
<1> QED
  BY <1>1, <1>2, <1>3, <1>4 DEF Next

LEMMA Invariant == Spec => []IInv
<1>1. IInv /\ [Next]_vars => IInv'
  BY StepOK DEF GoodStep
<1> QED
  BY <1>1, InitOK, PTL DEF Spec

\* The types of the documents, of the disk and of the simulation, and that no page is
\* there twice and one of them is the current one as soon as there are pages.
THEOREM TabTypes == Spec => []TypeOK
<1>1. IInv => TypeOK
  <2> SUFFICES ASSUME IInv PROVE TypeOK
    OBVIOUS
  <2>1. ask.at \in {"idle", "question", "name", "delete", "all", "list", "saving",
                    "deleteAll", "renew", "simulate", "ended", "crashed"}
    BY AskCases DEF IInv
  <2>2. sim \in [doc : Doc \cup {NoDoc}, page : Name \cup {NoName}]
    BY DEF IInv, SimOK
  <2>3. IF win.tabs = <<>> THEN win.cur = 0 ELSE win.cur \in DOMAIN win.tabs
    <3>1. /\ DOMAIN win.tabs = 1..Len(win.tabs) /\ Len(win.tabs) \in Nat
          /\ win.tabs = <<>> <=> Len(win.tabs) = 0
      BY Indices DEF IInv, WinOK
    <3>2. /\ win.cur \in Nat /\ win.cur <= Len(win.tabs)
          /\ win.tabs # <<>> => win.cur >= 1
      BY DEF IInv, WinOK, Windows
    <3> QED
      BY <3>1, <3>2
  <2> QED
    BY <2>1, <2>2, <2>3 DEF IInv, WinOK, Windows, Page, Disks, TypeOK
<1> QED
  BY <1>1, Invariant, PTL

\* Two open documents never have one file, whatever the user, the simulations and
\* failing saves do.
THEOREM NamesAreUnique == Spec => []NoTwoOfOneName
<1>1. IInv => NoTwoOfOneName
  BY DEF IInv, Unique, Pages, Open, NoTwoOfOneName
<1> QED
  BY <1>1, Invariant, PTL

\* As long as a Save As writes its file, and so does the creation of a data display,
\* an unmarked document is what its file holds.
THEOREM UnmarkedIsOnDisk ==
  ASSUME NamesAreWritten PROVE Spec => []CleanIsOnDisk
<1>1. IInv => CleanIsOnDisk
  BY NamesAreWritten DEF IInv, Clean, Pages, Open, CleanIsOnDisk
<1> QED
  BY <1>1, Invariant, PTL

\* As long as no simulation writes into its schematic, Save All leaves no changed
\* document behind unless a save failed.
THEOREM SaveAllIsComplete ==
  ASSUME NoOptimiser PROVE Spec => []SaveAllSaves
<1>1. IInv => SaveAllSaves
  <2> SUFFICES ASSUME IInv, ask.at = "all", ask.ok, ask.no > Len(win.tabs), NEW d \in Open
               PROVE  ~win.doc[d].changed
    BY DEF SaveAllSaves
  <2>1. StageOK(win, ask, NoDoc) /\ win \in Windows /\ WinOK(win)
    BY AskCases DEF IInv, WinOK
  <2>2. PICK i \in 1..Len(win.tabs) : win.tabs[i] = d
    <3>1. d \in Pages(win)
      BY DEF Open, Pages
    <3> QED
      BY <3>1, <2>1, Indices
  <2>3. ask.no \in Nat /\ Len(win.tabs) \in Nat
    BY <2>1, StageFields, Indices DEF StageOK
  <2>4. i < ask.no
    BY <2>3
  <2>5. d \in Doc /\ d # NoDoc
    BY <2>1, <2>2, Indices, NameAssumption
  <2> QED
    BY <2>1, <2>2, <2>4, <2>5, NoOptimiser DEF StageOK, SavedBehind
<1> QED
  BY <1>1, Invariant, PTL

\* Under the same assumption a changed document goes only behind a question about it.
THEOREM NothingGoesUnasked ==
  ASSUME NoOptimiser PROVE Spec => AskedBeforeDeleting
<1>1. IInv /\ [Next]_vars =>
        [\A d \in Open \ Range(win'.tabs) : win.doc[d].changed => d \in AskedAbout]_vars
  <2> SUFFICES ASSUME IInv, [Next]_vars, NEW d \in Open \ Range(win'.tabs), win.doc[d].changed
               PROVE  d \in AskedAbout
    OBVIOUS
  <2>1. d \in Pages(win) \ Pages(win')
    BY DEF Open, Pages, ToSet, Range
  <2> QED
    BY <2>1, NoOptimiser, StepOK DEF GoodStep
<1> QED
  BY <1>1, Invariant, PTL DEF Spec, AskedBeforeDeleting
=============================================================================
