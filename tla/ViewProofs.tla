----------------------------- MODULE ViewProofs -----------------------------
(*****************************************************************************)
(* Proofs about what the pages of MCPages show, for any tabs, users,         *)
(* messages, page sizes and workloads: that an open page shows, down to      *)
(* where its list ends, every message it knew of, and none twice; and the    *)
(* type invariant of MCPages.                                                *)
(*                                                                           *)
(* The first rests on VInv: the rows, the calls, the events and the pages    *)
(* have their forms (Typed), nothing leaves a page but what was deleted, and *)
(* a list on its way to a page has, from its call's cursor down to its own   *)
(* end, everything the page knows of.                                        *)
(*****************************************************************************)
EXTENDS PageProofs, SequenceTheorems

-----------------------------------------------------------------------------
(*****************************************************************************)
(* Arranging and filtering                                                   *)
(*****************************************************************************)
\* R puts the members of S in a strict order, one after another.
Orders(R, S) ==
    /\ \A x, y \in S : x # y => <<x, y>> \in R \/ <<y, x>> \in R
    /\ \A x \in S : <<x, x>> \notin R
    /\ \A x, y, z \in S : <<x, y>> \in R /\ <<y, z>> \in R => <<x, z>> \in R

\* Arranged is a sequence that has every member once, in the order.
LEMMA ArrangedIs ==
    ASSUME NEW S, IsFiniteSet(S), NEW R, Orders(R, S)
    PROVE  /\ Arranged(S, R) \in [1..Cardinality(S) -> S] /\ Cardinality(S) \in Nat
           /\ \A x \in S : \E i \in 1..Cardinality(S) : Arranged(S, R)[i] = x
           /\ \A i, j \in 1..Cardinality(S) : i < j => <<Arranged(S, R)[i], Arranged(S, R)[j]>> \in R
<1> DEFINE below(x) == {y \in S : <<y, x>> \in R}
           rank(x) == Cardinality(below(x))
           n == Cardinality(S)
<1>1. n \in Nat
  BY FS_CardinalityType
<1>2. \A x \in S : IsFiniteSet(below(x)) /\ rank(x) \in Nat /\ rank(x) < n
  <2> SUFFICES ASSUME NEW x \in S PROVE IsFiniteSet(below(x)) /\ rank(x) \in Nat /\ rank(x) < n
    OBVIOUS
  <2> DEFINE B == below(x)
  <2>1. B \subseteq S /\ x \notin B
    BY DEF Orders
  <2> HIDE DEF B
  <2>2. IsFiniteSet(B) /\ Cardinality(B) <= n /\ (n = Cardinality(B) => S = B)
    BY <2>1, FS_Subset
  <2>3. Cardinality(B) \in Nat
    BY <2>2, FS_CardinalityType
  <2>4. Cardinality(B) # n
    BY <2>1, <2>2
  <2>5. IsFiniteSet(B) /\ Cardinality(B) \in Nat /\ Cardinality(B) < n
    BY <1>1, <2>2, <2>3, <2>4
  <2> QED BY <2>5 DEF B
<1>3. \A x, y \in S : <<x, y>> \in R => rank(x) < rank(y)
  <2> SUFFICES ASSUME NEW x \in S, NEW y \in S, <<x, y>> \in R PROVE rank(x) < rank(y)
    OBVIOUS
  <2> DEFINE B == below(x)
             C == below(y)
  <2>1. B \subseteq C /\ x \in C /\ x \notin B
    BY DEF Orders
  <2>2. IsFiniteSet(C) /\ Cardinality(C) \in Nat /\ Cardinality(B) \in Nat
    BY <1>2
  <2> HIDE DEF B, C
  <2>3. Cardinality(B) <= Cardinality(C) /\ (Cardinality(C) = Cardinality(B) => C = B)
    BY <2>1, <2>2, FS_Subset
  <2>4. Cardinality(B) < Cardinality(C)
    BY <2>1, <2>2, <2>3
  <2> QED BY <2>4 DEF B, C
<1>4. \A x, y \in S : rank(x) = rank(y) => x = y
  <2> SUFFICES ASSUME NEW x \in S, NEW y \in S, rank(x) = rank(y), x # y PROVE FALSE
    OBVIOUS
  <2>1. <<x, y>> \in R \/ <<y, x>> \in R
    BY DEF Orders
  <2>2. rank(x) < rank(y) \/ rank(y) < rank(x)
    BY <1>3, <2>1
  <2>3. rank(x) \in Nat /\ rank(y) \in Nat
    BY <1>2
  <2> HIDE DEF rank
  <2> QED BY <2>2, <2>3
<1> DEFINE rk == [x \in S |-> rank(x)]
           f == [x \in S |-> rk[x] + 1]
<1>5. /\ \A x \in S : Cardinality({y \in S : <<y, x>> \in R}) = rk[x]
      /\ \A x \in S : rk[x] \in Nat /\ rk[x] < n
      /\ \A x, y \in S : <<x, y>> \in R => rk[x] < rk[y]
      /\ \A x, y \in S : rk[x] = rk[y] => x = y
  BY <1>2, <1>3, <1>4
<1> HIDE DEF rk, n
<1>6. f \in Injection(S, 1..n)
  <2>1. \A x \in S : rk[x] + 1 \in 1..n
    BY <1>1, <1>5
  <2>2. f \in [S -> 1..n]
    BY <2>1
  <2>3. \A x, y \in S : f[x] = f[y] => x = y
    BY <1>5
  <2> QED BY <2>2, <2>3 DEF Injection, IsInjective
<1>7. IsFiniteSet(1..n) /\ Cardinality(1..n) = n
  BY <1>1, FS_Interval
<1>8. f \in Surjection(S, 1..n)
  <2> HIDE DEF f
  <2>1. Cardinality(S) = Cardinality(1..n) => f \in Surjection(S, 1..n)
    BY <1>6, <1>7, FS_Injection
  <2> QED BY <1>7, <2>1 DEF n
<1>9. \A i \in 1..n : \E x \in S : rk[x] = i - 1
  <2> SUFFICES ASSUME NEW i \in 1..n PROVE \E x \in S : rk[x] = i - 1
    OBVIOUS
  <2>1. PICK x \in S : f[x] = i
    BY <1>8 DEF Surjection
  <2>2. rk[x] + 1 = i /\ rk[x] \in Nat
    BY <1>5, <2>1
  <2>3. rk[x] = i - 1
    BY <2>2
  <2> QED BY <2>3
<1> DEFINE a == Arranged(S, R)
<1>10. a = [i \in 1..n |-> CHOOSE x \in S : Cardinality({y \in S : <<y, x>> \in R}) = i - 1]
  BY DEF Arranged, n
<1> HIDE DEF a
<1>11. \A i \in 1..n : a[i] \in S /\ rk[a[i]] = i - 1
  <2> SUFFICES ASSUME NEW i \in 1..n PROVE a[i] \in S /\ rk[a[i]] = i - 1
    OBVIOUS
  <2>1. \E x \in S : Cardinality({y \in S : <<y, x>> \in R}) = i - 1
    BY <1>5, <1>9
  <2>2. a[i] = CHOOSE x \in S : Cardinality({y \in S : <<y, x>> \in R}) = i - 1
    BY <1>10
  <2>3. a[i] \in S /\ Cardinality({y \in S : <<y, a[i]>> \in R}) = i - 1
    BY <2>1, <2>2, Zenon
  <2> QED BY <1>5, <2>3
<1>12. a \in [1..n -> S]
  BY <1>10, <1>11
<1>13. \A x \in S : \E i \in 1..n : a[i] = x
  <2> SUFFICES ASSUME NEW x \in S PROVE \E i \in 1..n : a[i] = x
    OBVIOUS
  <2>1. rk[x] + 1 \in 1..n /\ (rk[x] + 1) - 1 = rk[x]
    BY <1>1, <1>5
  <2>2. a[rk[x] + 1] = x
    BY <1>5, <1>11, <2>1
  <2> QED BY <2>1, <2>2
<1>14. \A i, j \in 1..n : i < j => <<a[i], a[j]>> \in R
  <2> SUFFICES ASSUME NEW i \in 1..n, NEW j \in 1..n, i < j PROVE <<a[i], a[j]>> \in R
    OBVIOUS
  <2>1. /\ a[i] \in S /\ a[j] \in S
        /\ rk[a[i]] = i - 1 /\ rk[a[j]] = j - 1
    BY <1>11
  <2>2. rk[a[i]] < rk[a[j]] /\ rk[a[i]] # rk[a[j]] /\ ~(rk[a[j]] < rk[a[i]])
    BY <1>1, <2>1
  <2>3. a[i] # a[j]
    BY <2>2
  <2> QED BY <1>5, <2>1, <2>2, <2>3 DEF Orders
<1> QED BY <1>1, <1>12, <1>13, <1>14 DEF a, n

\* What KeepAt keeps of a sequence: the members at I, each once.
LEMMA KeepAtIs ==
    ASSUME NEW T, NEW s \in Seq(T), NEW I, I \subseteq DOMAIN s
    PROVE  /\ KeepAt(s, I) \in Seq(T)
           /\ \A i \in DOMAIN KeepAt(s, I) : \E j \in I : KeepAt(s, I)[i] = s[j]
           /\ \A j \in I : \E i \in DOMAIN KeepAt(s, I) : KeepAt(s, I)[i] = s[j]
           /\ \A i, j \in DOMAIN KeepAt(s, I) : i # j =>
                \E k, l \in I : k # l /\ KeepAt(s, I)[i] = s[k] /\ KeepAt(s, I)[j] = s[l]
<1> DEFINE R == {p \in I \X I : p[1] < p[2]}
           at == Arranged(I, R)
           n == Cardinality(I)
           k == KeepAt(s, I)
<1>1. DOMAIN s = 1..Len(s) /\ Len(s) \in Nat
  OBVIOUS
<1>2. I \subseteq Nat /\ IsFiniteSet(I)
  <2>1. IsFiniteSet(1..Len(s))
    BY <1>1, FS_Interval
  <2> QED BY <1>1, <2>1, FS_Subset
<1>3. Orders(R, I)
  BY <1>2 DEF Orders
<1> HIDE DEF R
<1>4. /\ at \in [1..n -> I] /\ n \in Nat
      /\ \A x \in I : \E i \in 1..n : at[i] = x
      /\ \A i, j \in 1..n : i < j => <<at[i], at[j]>> \in R
  BY <1>2, <1>3, ArrangedIs
<1> HIDE DEF at, n
<1>5. k = [i \in 1..n |-> s[at[i]]]
  BY <1>4 DEF KeepAt, R, at
<1>6. \A j \in I : s[j] \in T
  BY <1>1
<1>7. k \in [1..n -> T]
  BY <1>4, <1>5, <1>6
<1>8. k \in Seq(T) /\ DOMAIN k = 1..n
  BY <1>4, <1>5, <1>7
<1>9. \A i, j \in 1..n : i # j => at[i] # at[j]
  <2> SUFFICES ASSUME NEW i \in 1..n, NEW j \in 1..n, i # j PROVE at[i] # at[j]
    OBVIOUS
  <2>1. i < j \/ j < i
    BY <1>4
  <2>2. <<at[i], at[j]>> \in R \/ <<at[j], at[i]>> \in R
    BY <1>4, <2>1
  <2>3. at[i] \in I /\ at[j] \in I
    BY <1>4
  <2> QED BY <1>2, <2>2, <2>3 DEF R
<1> HIDE DEF k
<1>10. \A i \in 1..n : k[i] = s[at[i]] /\ at[i] \in I
  BY <1>4, <1>5
<1>11. \A j \in I : \E i \in 1..n : k[i] = s[j]
  BY <1>4, <1>10
<1> QED BY <1>8, <1>9, <1>10, <1>11 DEF k

-----------------------------------------------------------------------------
(*****************************************************************************)
(* A page of messages                                                        *)
(*****************************************************************************)
\* Every row has a date.
Dated == \A m \in Msgs : row[m].createdAt \in Times

LEMMA OldestIsOrder ==
    ASSUME Dated, NEW S, S \subseteq Msgs
    PROVE  Orders({p \in S \X S : Older(p[1], p[2])}, S)
<1>1. \A m \in S : row[m].createdAt \in Nat /\ m \in Nat
  BY MessagesAssumption DEF Dated
<1>2. \A m, n \in S : Older(m, n) <=> \/ row[m].createdAt < row[n].createdAt
                                      \/ row[m].createdAt = row[n].createdAt /\ m < n
  BY DEF Older, Before, KeyOf
<1> QED BY <1>1, <1>2 DEF Orders

LEMMA NewestIs ==
    ASSUME Dated, NEW S, S \subseteq Msgs
    PROVE  /\ Newest(S) \subseteq S /\ IsFiniteSet(Newest(S)) /\ IsFiniteSet(S)
           /\ S # {} => Newest(S) # {}
           /\ \A m \in Newest(S), n \in S : ~Before(KeyOf(n), KeyOf(m)) => n \in Newest(S)
<1> DEFINE newer(m) == {n \in S : Older(m, n)}
<1>1. IsFiniteSet(S) /\ Newest(S) \subseteq S /\ IsFiniteSet(Newest(S))
  <2>1. IsFiniteSet(S)
    BY MessagesAssumption, FS_Subset
  <2>2. Newest(S) \subseteq S
    BY DEF Newest
  <2> QED BY <2>1, <2>2, FS_Subset
<1>2. \A m \in S : row[m].createdAt \in Nat /\ m \in Nat
  BY MessagesAssumption DEF Dated
<1>3. \A m, n : Older(m, n) <=> \/ row[m].createdAt < row[n].createdAt
                                \/ row[m].createdAt = row[n].createdAt /\ m < n
  BY DEF Older, Before, KeyOf
<1>4. ASSUME S # {} PROVE Newest(S) # {}
  <2> DEFINE R == {p \in S \X S : Older(p[1], p[2])}
             a == Arranged(S, R)
             k == Cardinality(S)
  <2>1. Orders(R, S)
    BY OldestIsOrder
  <2> HIDE DEF R
  <2>2. /\ a \in [1..k -> S] /\ k \in Nat
        /\ \A x \in S : \E i \in 1..k : a[i] = x
        /\ \A i, j \in 1..k : i < j => <<a[i], a[j]>> \in R
    BY <1>1, <2>1, ArrangedIs
  <2> HIDE DEF a, k
  <2>3. k \in 1..k
    BY <1>4, <2>2
  <2>4. a[k] \in S
    BY <2>2, <2>3
  <2>5. \A n \in S : ~Older(a[k], n)
    <3> SUFFICES ASSUME NEW n \in S, Older(a[k], n) PROVE FALSE
      OBVIOUS
    <3>1. PICK i \in 1..k : a[i] = n
      BY <2>2
    <3>2. i = k \/ Older(n, a[k])
      <4>1. i < k => <<a[i], a[k]>> \in R
        BY <2>2, <2>3
      <4> QED BY <2>2, <3>1, <4>1 DEF R
    <3> QED BY <1>2, <1>3, <2>4, <3>1, <3>2
  <2>6. newer(a[k]) = {}
    BY <2>5
  <2>7. Cardinality(newer(a[k])) = 0
    BY <2>6, FS_EmptySet
  <2> QED BY <2>4, <2>7, MessagesAssumption DEF Newest
<1>5. ASSUME NEW m \in Newest(S), NEW n \in S, ~Before(KeyOf(n), KeyOf(m)) PROVE n \in Newest(S)
  <2>1. m \in S /\ Cardinality(newer(m)) < PageSize
    BY DEF Newest
  <2>2. ~Older(n, m)
    BY <1>5 DEF Older
  <2>3. newer(n) \subseteq newer(m)
    BY <1>2, <1>3, <2>1, <2>2
  <2>4. IsFiniteSet(newer(m)) /\ newer(n) \subseteq newer(m)
    BY <1>1, <2>3, FS_Subset
  <2> HIDE DEF newer
  <2>5. /\ Cardinality(newer(n)) <= Cardinality(newer(m)) /\ IsFiniteSet(newer(n))
        /\ Cardinality(newer(m)) \in Nat
    BY <2>4, FS_Subset, FS_CardinalityType
  <2>6. Cardinality(newer(n)) \in Nat
    BY <2>5, FS_CardinalityType
  <2>7. Cardinality(newer(n)) < PageSize
    BY <2>1, <2>5, <2>6, MessagesAssumption
  <2> QED BY <2>7 DEF Newest, newer
<1> QED BY <1>1, <1>4, <1>5

\* A page of messages before a cursor: live ones, each once, and every one that is
\* not before the next cursor.
LEMMA PageOfIs ==
    ASSUME Dated, NEW cursor, NEW page1, page1 = PageOf(cursor)
    PROVE  /\ page1.ids \in Seq(Msgs)
           /\ \A i \in DOMAIN page1.ids : Live(page1.ids[i])
           /\ \A i, j \in DOMAIN page1.ids : i # j => page1.ids[i] # page1.ids[j]
           /\ NextCursor(page1) \in Key \cup {None}
           /\ \A m \in Msgs :
                Live(m) /\ WithinCursor(KeyOf(m), cursor)
                /\ (NextCursor(page1) = None \/ ~Before(KeyOf(m), NextCursor(page1)))
                => \E i \in DOMAIN page1.ids : page1.ids[i] = m
<1> DEFINE S == {m \in Msgs : Live(m) /\ WithinCursor(KeyOf(m), cursor)}
           N == Newest(S)
           R == {p \in N \X N : Older(p[1], p[2])}
           n == Cardinality(N)
           ids == page1.ids
<1>1. S \subseteq Msgs /\ \A m \in S : Live(m)
  OBVIOUS
<1>2. page1 = [ids |-> Arranged(N, R), hasMore |-> N # S]
  BY DEF PageOf, OldestFirst
<1>3. \A m \in Msgs : m \in S <=> Live(m) /\ WithinCursor(KeyOf(m), cursor)
  OBVIOUS
<1> HIDE DEF S
<1>4. /\ N \subseteq S /\ IsFiniteSet(N) /\ (S # {} => N # {})
      /\ \A m \in N, k \in S : ~Before(KeyOf(k), KeyOf(m)) => k \in N
  BY <1>1, NewestIs
<1> HIDE DEF N
<1>5. Orders(R, N)
  BY <1>1, <1>4, OldestIsOrder
<1> HIDE DEF R
<1>6. ids = Arranged(N, R) /\ (page1.hasMore <=> N # S)
  <2>1. ids = Arranged(N, R)
    BY <1>2
  <2> DEFINE more == (N # S)
  <2>2. page1 = [ids |-> Arranged(N, R), hasMore |-> more]
    BY <1>2
  <2> HIDE DEF more
  <2>3. page1.hasMore = more
    BY <2>2
  <2>4. page1.hasMore <=> N # S
    BY <2>3 DEF more
  <2> QED BY <2>1, <2>4
<1>7. /\ ids \in [1..n -> N] /\ n \in Nat
      /\ \A x \in N : \E i \in 1..n : ids[i] = x
      /\ \A i, j \in 1..n : i < j => <<ids[i], ids[j]>> \in R
  BY <1>4, <1>5, <1>6, ArrangedIs
<1> HIDE DEF ids, n
<1>8. ids \in Seq(N) /\ DOMAIN ids = 1..n /\ \A i \in 1..n : ids[i] \in N
  BY <1>7
<1>9. ids \in Seq(Msgs) /\ \A i \in 1..n : Live(ids[i])
  BY <1>1, <1>4, <1>8
<1>10. \A i, j \in 1..n : i # j => ids[i] # ids[j]
  <2> SUFFICES ASSUME NEW i \in 1..n, NEW j \in 1..n, i # j PROVE ids[i] # ids[j]
    OBVIOUS
  <2>1. i < j \/ j < i
    BY <1>7
  <2>2. <<ids[i], ids[j]>> \in R \/ <<ids[j], ids[i]>> \in R
    BY <1>7, <2>1
  <2> QED BY <1>5, <1>8, <2>2 DEF Orders
<1>11. CASE page1.hasMore
  <2>1. N # {}
    BY <1>4, <1>6, <1>11
  <2>2. 1 \in 1..n
    BY <1>7, <2>1
  <2>3. ids[1] \in N /\ ids[1] \in Msgs
    BY <1>1, <1>4, <1>8, <2>2
  <2>4. NextCursor(page1) = KeyOf(ids[1])
    BY <1>11 DEF NextCursor, ids
  <2>5. KeyOf(ids[1]) \in Key
    BY <2>3 DEF KeyOf, Key, Dated
  <2>6. KeyOf(ids[1]) # None
    BY <2>5, MessagesAssumption DEF Key
  <2>7. \A m \in S : ~Before(KeyOf(m), KeyOf(ids[1])) => \E i \in 1..n : ids[i] = m
    BY <1>4, <1>7, <2>3
  <2> QED BY <1>3, <1>8, <1>9, <1>10, <2>4, <2>5, <2>6, <2>7 DEF ids
<1>12. CASE ~page1.hasMore
  <2>1. NextCursor(page1) = None
    BY <1>12 DEF NextCursor
  <2>2. \A m \in S : \E i \in 1..n : ids[i] = m
    BY <1>6, <1>7, <1>12
  <2> QED BY <1>3, <1>8, <1>9, <1>10, <2>1, <2>2 DEF ids
<1> QED BY <1>11, <1>12

-----------------------------------------------------------------------------
(*****************************************************************************)
(* What the rows, the calls, the events and the pages are made of.           *)
(*****************************************************************************)
Summaries == [Emojis -> [count: Nat, mine: BOOLEAN]]
ListAnswer == [items: Seq(EntryType), nextCursor: Key \cup {None}]
EventType == [type: {"created", "updated"}, msg: Msgs, entry: EntryType]
             \cup [type: {"deleted", "pinned", "unpinned"}, msg: Msgs]
             \cup [type: {"reacted"}, msg: Msgs, user: Users, reactions: Summaries]
PageType == [kind: {"closed", "loading", "success", "error"}, list: Seq(EntryType),
             cursor: Key \cup {None}, pins: SUBSET Msgs]

Reacting == {"addReaction", "removeReaction"}
Listing == {"load", "older"}
Writing == {"create", "update"}
AboutOne == {"update", "remove", "pinMessage", "unpinMessage"} \cup Reacting

\* A call asks for what it is about, and its answer has the form of its kind.
OpOf(r) == CASE r[2] = "page" -> {"load"} [] r[2] = "older" -> {"older"}
             [] r[2] = "user" -> {"create"} \cup AboutOne [] OTHER -> {"pins"}
CallMade(r, q) ==
    /\ q.op \in OpOf(r) \cup {"none"} /\ (q.op = "none" => q = IdleCall)
    /\ q.msg \in Msgs \cup {NoMsg}
    /\ q.op \in AboutOne => q.msg \in Msgs
    /\ q.op \in Writing => q.arg \in Contents
    /\ q.op \in Reacting => q.arg \in Emojis
    /\ q.op = "load" => q.arg = None
    /\ q.op = "older" => q.arg \in Key
AnswerIn(q, S) == q.at = "answered" => q.reply = Refused \/ q.reply \in S
CallAnswered(q) ==
    /\ q.op \in Writing =>
        /\ q.at \in {"written", "counted"} => q.msg \in Msgs /\ q.reply \in EntryType
        /\ AnswerIn(q, EntryType)
    /\ q.op \in Reacting =>
        /\ q.at = "counted" => q.reply \in Summaries
        /\ AnswerIn(q, Summaries)
    /\ q.op \in Listing =>
        /\ q.at = "listed" => q.reply \in ListAnswer
        /\ AnswerIn(q, ListAnswer)
    /\ q.op = "pins" => AnswerIn(q, SUBSET Msgs)
\* What has been deleted.
Gone(m) == m \in Committed /\ row[m].deleted
CallGone(q) ==
    q.op = "remove" => /\ q.at = "checked" => q.msg \in Committed
                       /\ q.at = "written" => Gone(q.msg)
                       /\ q.at = "answered" => q.reply = Refused \/ Gone(q.msg)

Typed ==
    /\ kind \in Kinds
    /\ row \in [Msgs -> MessageRow] /\ reaction \in [Rids -> ReactionRow]
    /\ joined \subseteq Tabs
    /\ stream \in [Tabs -> Seq(EventType)] /\ page \in [Tabs -> PageType]
    /\ \A r \in Slots : CallMade(r, request[r]) /\ CallAnswered(request[r])

-----------------------------------------------------------------------------
LEMMA EntryIs ==
    ASSUME Typed, NEW m \in Msgs, NEW x \in Summaries
    PROVE  Entry(m, x) \in EntryType /\ Entry(m, x).id = m
<1>1. row[m] \in MessageRow
  BY DEF Typed
<1>2. row[m].author \in Users /\ row[m].content \in Contents /\ row[m].pinned \in BOOLEAN
  BY <1>1 DEF MessageRow
<1> QED BY <1>2 DEF Entry, EntryType, Summaries

LEMMA SummaryIs ==
    ASSUME NEW m, NEW u PROVE Summary(m, u) \in Summaries /\ NoReactions \in Summaries
<1>1. ASSUME NEW e \in Emojis PROVE Cardinality(UNION {Active(m, v, e) : v \in Users}) \in Nat
  <2> DEFINE S == UNION {Active(m, v, e) : v \in Users}
  <2>1. S \subseteq Rids
    BY DEF Active
  <2> HIDE DEF S
  <2>2. IsFiniteSet(S)
    BY <2>1, FS_Subset, MessagesAssumption
  <2>3. Cardinality(S) \in Nat
    BY <2>2, FS_CardinalityType
  <2> QED BY <2>3 DEF S
<1> DEFINE count(e) == Cardinality(UNION {Active(m, v, e) : v \in Users})
           mine(e) == (Active(m, u, e) # {})
<1>2. Summary(m, u) = [e \in Emojis |-> [count |-> count(e), mine |-> mine(e)]]
  BY DEF Summary
<1>3. \A e \in Emojis : count(e) \in Nat /\ mine(e) \in BOOLEAN
  BY <1>1
<1> HIDE DEF count, mine
<1>4. Summary(m, u) \in Summaries
  BY <1>2, <1>3 DEF Summaries
<1>5. NoReactions \in Summaries
  BY DEF NoReactions, Summaries
<1> QED BY <1>4, <1>5

\* An entry as it is told after a change.
LEMMA EntryChanged ==
    ASSUME NEW e \in EntryType
    PROVE  /\ \A c \in Contents : [e EXCEPT !.content = c] \in EntryType /\ [e EXCEPT !.content = c].id = e.id
           /\ \A x \in Summaries : [e EXCEPT !.reactions = x] \in EntryType /\ [e EXCEPT !.reactions = x].id = e.id
           /\ \A b \in BOOLEAN : [e EXCEPT !.pinned = b] \in EntryType /\ [e EXCEPT !.pinned = b].id = e.id
BY DEF EntryType, Summaries

-----------------------------------------------------------------------------
(*****************************************************************************)
(* What a step of a handler does, as far as the pages may tell.              *)
(*****************************************************************************)
\* The call goes on with this stage, message and answer.
Becomes(r, at, msg, reply) ==
    /\ \A s \in Slots \ {r} : request'[s] = request[s]
    /\ request'[r].op = request[r].op /\ request'[r].arg = request[r].arg
    /\ request'[r].at = at /\ request'[r].msg = msg /\ request'[r].reply = reply

\* Nothing of a committed message but its text, and whether it is deleted or pinned, changes.
RowsGrow ==
    /\ row' \in [Msgs -> MessageRow]
    /\ \A m \in Committed : /\ m \in Committed' /\ row'[m].createdAt = row[m].createdAt
                            /\ row[m].deleted => row'[m].deleted
Tells ==
    \/ stream' = stream
    \/ \E e \in EventType : /\ \A t \in Tabs : stream'[t] \in {stream[t], Append(stream[t], e)}
                            /\ stream' = [t \in Tabs |-> stream'[t]]
                            /\ e.type = "deleted" => Gone(e.msg)

\* The list of a page: the entries of these messages, and where it ends.
ListIs(a, ids, cursor) ==
    /\ a \in ListAnswer /\ DOMAIN a.items = DOMAIN ids /\ a.nextCursor = cursor
    /\ \A i \in DOMAIN ids : a.items[i].id = ids[i]
Lists(r) ==
    LET a == request'[r].reply  p == PageOf(request[r].arg) IN
    /\ request'[r].at \in {"listed", "answered"}
    /\ \/ request'[r].at = "answered" /\ a = Refused
       \/ request[r].at = "called" /\ ListIs(a, p.ids, NextCursor(p))
       \/ /\ request[r].at = "listed"
          /\ ListIs(a, [i \in DOMAIN request[r].reply.items |-> request[r].reply.items[i].id],
                    request[r].reply.nextCursor)

Handles(r) ==
    /\ UNCHANGED <<kind, page, joined>> /\ RowsGrow /\ reaction' \in [Rids -> ReactionRow] /\ Tells
    /\ \A s \in Slots \ {r} : request'[s] = request[s]
    /\ request[r].op # "none" /\ request'[r].op = request[r].op /\ request'[r].arg = request[r].arg
    /\ request'[r].at # "called"
    /\ CallMade(r, request'[r]) /\ CallAnswered(request'[r]) /\ CallGone(request[r])'
    /\ request[r].op \in Listing => Lists(r)

LEMMA CallBecomes ==
    ASSUME CallsShaped, NEW r \in Slots, NEW at, NEW msg, NEW found, NEW reply, NEW q,
           q = [op |-> request[r].op, at |-> at, msg |-> msg,
                arg |-> request[r].arg, found |-> found, reply |-> reply],
           request' = [request EXCEPT ![r] = q]
    PROVE  Becomes(r, at, msg, reply)
<1>1. /\ q.op = request[r].op /\ q.at = at /\ q.msg = msg /\ q.arg = request[r].arg
      /\ q.found = found /\ q.reply = reply
  OBVIOUS
<1>2. q = CallOf(q)
  BY <1>1 DEF CallOf
<1>3. TurnsTo(r, q)
  BY <1>2, CallTurns
<1> QED BY <1>1, <1>3 DEF TurnsTo, Becomes

LEMMA ProceedBecomes ==
    ASSUME CallsShaped, NEW r \in Slots, NEW at, NEW found,
           Proceed(r, at) \/ Find(r, at, found)
    PROVE  Becomes(r, at, request[r].msg, request[r].reply)
<1>1. PICK x : x = request[r]
  OBVIOUS
<1>2. x = [op |-> request[r].op, at |-> request[r].at, msg |-> request[r].msg,
           arg |-> request[r].arg, found |-> request[r].found, reply |-> request[r].reply]
  BY <1>1, CallFields
<1>3. CASE Proceed(r, at)
  <2>1. PICK y : y = [x EXCEPT !.at = at]
    OBVIOUS
  <2>2. y = [op |-> request[r].op, at |-> at, msg |-> request[r].msg,
             arg |-> request[r].arg, found |-> request[r].found, reply |-> request[r].reply]
    BY <1>2, <2>1, StageSet
  <2>3. request' = [request EXCEPT ![r] = y]
    BY <1>1, <1>3, <2>1 DEF Proceed
  <2> QED BY <2>2, <2>3, CallBecomes
<1>4. CASE Find(r, at, found)
  <2>1. PICK y : y = [x EXCEPT !.at = at, !.found = found]
    OBVIOUS
  <2>2. y = [op |-> request[r].op, at |-> at, msg |-> request[r].msg,
             arg |-> request[r].arg, found |-> found, reply |-> request[r].reply]
    BY <1>2, <2>1, FoundSet
  <2>3. request' = [request EXCEPT ![r] = y]
    BY <1>1, <1>4, <2>1 DEF Find
  <2> QED BY <2>2, <2>3, CallBecomes
<1> QED BY <1>3, <1>4

LEMMA ReplyBecomes ==
    ASSUME CallsShaped, NEW r \in Slots, NEW at, NEW a,
           Keep(r, at, a) \/ (at = "answered" /\ Answer(r, a))
    PROVE  Becomes(r, at, request[r].msg, a)
<1>1. PICK x : x = request[r]
  OBVIOUS
<1>2. x = [op |-> request[r].op, at |-> request[r].at, msg |-> request[r].msg,
           arg |-> request[r].arg, found |-> request[r].found, reply |-> request[r].reply]
  BY <1>1, CallFields
<1>3. CASE Keep(r, at, a)
  <2>1. PICK y : y = [x EXCEPT !.at = at, !.reply = a]
    OBVIOUS
  <2>2. y = [op |-> request[r].op, at |-> at, msg |-> request[r].msg,
             arg |-> request[r].arg, found |-> request[r].found, reply |-> a]
    BY <1>2, <2>1, ReplySet
  <2>3. request' = [request EXCEPT ![r] = y]
    BY <1>1, <1>3, <2>1 DEF Keep
  <2> QED BY <2>2, <2>3, CallBecomes
<1>4. CASE at = "answered" /\ Answer(r, a)
  <2>1. PICK y : y = [x EXCEPT !.at = "answered", !.found = {}, !.reply = a]
    OBVIOUS
  <2>2. y = [op |-> request[r].op, at |-> "answered", msg |-> request[r].msg,
             arg |-> request[r].arg, found |-> {}, reply |-> a]
    BY <1>2, <2>1, AnswerSet
  <2>3. request' = [request EXCEPT ![r] = y]
    BY <1>1, <1>4, <2>1 DEF Answer
  <2> QED BY <1>4, <2>2, <2>3, CallBecomes
<1> QED BY <1>3, <1>4

LEMMA CreationBecomes ==
    ASSUME CallsShaped, NEW r \in Slots, NEW m, NEW a,
           request' = [request EXCEPT ![r].at = "written", ![r].msg = m, ![r].reply = a]
    PROVE  Becomes(r, "written", m, a)
<1>1. PICK x : x = request[r]
  OBVIOUS
<1>2. x = [op |-> request[r].op, at |-> request[r].at, msg |-> request[r].msg,
           arg |-> request[r].arg, found |-> request[r].found, reply |-> request[r].reply]
  BY <1>1, CallFields
<1>3. PICK y : y = [x EXCEPT !.at = "written", !.msg = m, !.reply = a]
  OBVIOUS
<1>4. y = [op |-> request[r].op, at |-> "written", msg |-> m,
           arg |-> request[r].arg, found |-> request[r].found, reply |-> a]
  BY <1>2, <1>3
<1>5. request' = [request EXCEPT ![r] = y]
  BY <1>1, <1>3
<1> QED BY <1>4, <1>5, CallBecomes

-----------------------------------------------------------------------------
\* The rows are as they were, or one has changed.
LEMMA RowsStay ==
    ASSUME Typed, UNCHANGED row PROVE RowsGrow /\ \A m : Gone(m) => Gone(m)'
BY DEF Typed, RowsGrow, Committed, Gone

LEMMA RowGrows ==
    ASSUME Typed, NEW m \in Msgs, NEW y \in MessageRow, Sets(m, y),
           m \in Committed => y.used /\ y.createdAt = row[m].createdAt /\ (row[m].deleted => y.deleted)
    PROVE  RowsGrow /\ row'[m] = y
<1>1. row \in [Msgs -> MessageRow]
  BY DEF Typed
<1>2. row' \in [Msgs -> MessageRow] /\ row'[m] = y /\ \A n \in Msgs \ {m} : row'[n] = row[n]
  BY <1>1 DEF Sets
<1>3. ASSUME NEW n \in Committed
      PROVE  n \in Committed' /\ row'[n].createdAt = row[n].createdAt /\ (row[n].deleted => row'[n].deleted)
  <2>1. CASE n = m
    BY <1>2, <1>3, <2>1 DEF Committed
  <2>2. CASE n # m
    <3>1. n \in Msgs /\ row'[n] = row[n] /\ row[n].used
      BY <1>2, <1>3, <2>2 DEF Committed
    <3> QED BY <3>1 DEF Committed
  <2> QED BY <2>1, <2>2
<1> QED BY <1>2, <1>3 DEF RowsGrow

LEMMA GoneStays ==
    ASSUME RowsGrow PROVE \A m : Gone(m) => Gone(m)'
BY DEF RowsGrow, Gone

LEMMA UpdateGrows ==
    ASSUME Typed, NEW m \in Msgs, NEW c \in Contents, UpdateMessage(m, c)
    PROVE  RowsGrow
<1>1. PICK y : y = [row[m] EXCEPT !.content = c]
  OBVIOUS
<1>2. row[m] \in MessageRow
  BY DEF Typed
<1>3. y \in MessageRow /\ y.used = row[m].used /\ y.createdAt = row[m].createdAt /\ y.deleted = row[m].deleted
  BY <1>1, <1>2 DEF MessageRow
<1>4. Sets(m, y)
  BY <1>1 DEF UpdateMessage, Sets
<1>5. m \in Committed => y.used
  BY <1>3 DEF Committed
<1> QED BY <1>3, <1>4, <1>5, RowGrows

LEMMA PinGrows ==
    ASSUME Typed, NEW m \in Msgs, PinMessage(m) \/ UnpinMessage(m)
    PROVE  RowsGrow
<1>1. PICK b \in BOOLEAN : row' = [row EXCEPT ![m].pinned = b]
  BY DEF PinMessage, UnpinMessage
<1>2. PICK y : y = [row[m] EXCEPT !.pinned = b]
  OBVIOUS
<1>3. row[m] \in MessageRow
  BY DEF Typed
<1>4. y \in MessageRow /\ y.used = row[m].used /\ y.createdAt = row[m].createdAt /\ y.deleted = row[m].deleted
  BY <1>2, <1>3 DEF MessageRow
<1>5. Sets(m, y)
  BY <1>1, <1>2 DEF Sets
<1>6. m \in Committed => y.used
  BY <1>4 DEF Committed
<1> QED BY <1>4, <1>5, <1>6, RowGrows

LEMMA DeletionGrows ==
    ASSUME Typed, NEW m \in Committed, SoftDeleteMessage(m)
    PROVE  RowsGrow /\ Gone(m)'
<1>1. PICK y : y = [row[m] EXCEPT !.deleted = TRUE, !.pinned = FALSE]
  OBVIOUS
<1>2. row[m] \in MessageRow /\ m \in Msgs
  BY DEF Typed, Committed
<1>3. y \in MessageRow /\ y.used = row[m].used /\ y.createdAt = row[m].createdAt /\ y.deleted = TRUE
  BY <1>1, <1>2 DEF MessageRow
<1>4. Sets(m, y)
  BY <1>1 DEF SoftDeleteMessage, Sets
<1>5. m \in Committed => y.used
  BY <1>3 DEF Committed
<1>6. RowsGrow /\ row'[m] = y
  BY <1>2, <1>3, <1>4, <1>5, RowGrows
<1> QED BY <1>3, <1>6 DEF Gone, RowsGrow

LEMMA CreationGrows ==
    ASSUME Typed, NEW m \in Msgs \ Committed, NEW u \in Users, NEW c \in Contents, CreateMessage(m, u, c)
    PROVE  RowsGrow
<1>1. PICK t \in Times : row' = [row EXCEPT ![m] = [used |-> TRUE, createdAt |-> t, author |-> u,
                                                 content |-> c, deleted |-> FALSE, pinned |-> FALSE]]
  BY DEF CreateMessage
<1>2. PICK y : y = [used |-> TRUE, createdAt |-> t, author |-> u,
                    content |-> c, deleted |-> FALSE, pinned |-> FALSE]
  OBVIOUS
<1>3. y \in MessageRow
  BY <1>2 DEF MessageRow
<1>4. Sets(m, y)
  BY <1>1, <1>2 DEF Sets
<1> QED BY <1>3, <1>4, RowGrows

LEMMA DropTyped ==
    ASSUME Typed, NEW I, DropReactions(I) PROVE reaction' \in [Rids -> ReactionRow]
<1>1. ASSUME NEW i \in Rids, NEW y, y = [reaction[i] EXCEPT !.active = @ /\ i \notin I]
      PROVE  y \in ReactionRow
  <2>1. reaction[i] \in ReactionRow
    BY DEF Typed
  <2>2. PICK b : b = (reaction[i].active /\ i \notin I)
    OBVIOUS
  <2>3. b \in BOOLEAN
    BY <2>2
  <2>4. y = [reaction[i] EXCEPT !.active = b]
    BY <1>1, <2>2
  <2> QED BY <2>1, <2>3, <2>4 DEF ReactionRow
<1> QED BY <1>1 DEF DropReactions

LEMMA CreationTyped ==
    ASSUME Typed, NEW m \in Msgs, NEW u \in Users, NEW e \in Emojis, CreateReaction(m, u, e)
    PROVE  reaction' \in [Rids -> ReactionRow]
<1>1. PICK y : y = [active |-> TRUE, used |-> TRUE, msg |-> m, user |-> u, emoji |-> e]
  OBVIOUS
<1>2. y \in ReactionRow
  BY <1>1 DEF ReactionRow
<1>3. \E i : reaction' = [reaction EXCEPT ![i] = y]
  BY <1>1 DEF CreateReaction
<1> QED BY <1>2, <1>3 DEF Typed

-----------------------------------------------------------------------------
\* The steps of the handlers, by what they change.
OnStages == {"checked", "dropping", "replacing", "removing", "creating", "conflicted", "changed"}

LEMMA CallHandles ==
    ASSUME Typed, NEW r \in Slots, request[r].op # "none", NEW at, NEW msg, NEW reply,
           Becomes(r, at, msg, reply), at # "called", msg = request[r].msg \/ msg \in Msgs,
           UNCHANGED <<kind, page, joined>>, RowsGrow, reaction' \in [Rids -> ReactionRow], Tells,
           CallAnswered(request'[r]), CallGone(request[r])', request[r].op \in Listing => Lists(r)
    PROVE  Handles(r)
<1>1. CallMade(r, request[r])
  BY DEF Typed
<1>2. CallMade(r, request'[r])
  BY <1>1 DEF CallMade, Becomes
<1> QED BY <1>2 DEF Handles, Becomes

\* Nothing but the call changes.
LEMMA ReadHandles ==
    ASSUME Typed, NEW r \in Slots, request[r].op # "none", NEW at, NEW reply,
           Becomes(r, at, request[r].msg, reply), at # "called", Reading, page' = page,
           CallAnswered(request'[r]), CallGone(request'[r]), request[r].op \in Listing => Lists(r)
    PROVE  Handles(r)
<1>1. UNCHANGED <<kind, page, joined, row>> /\ reaction' \in [Rids -> ReactionRow] /\ Tells
  BY DEF Reading, server, Silent, Typed, Tells
<1>2. RowsGrow
  BY <1>1, RowsStay
<1>3. CallGone(request[r])'
  BY <1>1 DEF CallGone, Gone, Committed
<1> QED BY <1>1, <1>2, <1>3, CallHandles

LEMMA OnwardHandles ==
    ASSUME RInv, Typed, NEW r \in Slots, page' = page, Reading,
           NEW at \in OnStages, NEW found, Proceed(r, at) \/ Find(r, at, found),
           request[r].op \in AboutOne,
           request[r].op = "remove" => at = "checked" /\ Live(request[r].msg)
    PROVE  Handles(r)
<1>1. Becomes(r, at, request[r].msg, request[r].reply)
  BY ProceedBecomes DEF RInv
<1>2. CallAnswered(request'[r])
  BY <1>1 DEF CallAnswered, AnswerIn, Becomes, OnStages, AboutOne, Reacting, Listing
<1>3. CallGone(request'[r])
  BY <1>1 DEF CallGone, Becomes, Live, Committed
<1> QED BY <1>1, <1>2, <1>3, ReadHandles DEF OnStages, AboutOne, Reacting, Listing

LEMMA RefuseHandles ==
    ASSUME RInv, Typed, NEW r \in Slots, page' = page, Reading, Refuse(r), request[r].op # "none"
    PROVE  Handles(r)
<1>1. Becomes(r, "answered", request[r].msg, Refused)
  BY ReplyBecomes DEF RInv, Refuse
<1>2. CallAnswered(request'[r]) /\ CallGone(request'[r]) /\ Lists(r)
  BY <1>1 DEF CallAnswered, CallGone, AnswerIn, Becomes, Lists
<1> QED BY <1>1, <1>2, ReadHandles

LEMMA CheckHandles ==
    ASSUME RInv, Typed, NEW r \in Slots, page' = page, NEW ok, CheckMessage(r, ok),
           request[r].op \in AboutOne, ok => Live(request[r].msg)
    PROVE  Handles(r)
<1>1. request[r].op # "none"
  BY DEF AboutOne, Reacting
<1>2. CASE ok
  <2>1. Proceed(r, "checked") /\ Reading
    BY <1>2 DEF CheckMessage
  <2> QED BY <1>2, <2>1, OnwardHandles DEF OnStages
<1>3. CASE ~ok
  <2>1. Refuse(r) /\ Reading
    BY <1>3 DEF CheckMessage
  <2> QED BY <1>1, <2>1, RefuseHandles
<1> QED BY <1>2, <1>3

LEMMA CountHandles ==
    ASSUME RInv, Typed, NEW r \in Slots, page' = page, Reading, request[r].op \in Reacting,
           NEW m, NEW u, NEW at \in {"counted", "answered"},
           Keep(r, at, Summary(m, u)) \/ (at = "answered" /\ Answer(r, Summary(m, u)))
    PROVE  Handles(r)
<1>1. PICK x \in Summaries : x = Summary(m, u)
  BY SummaryIs
<1>2. Becomes(r, at, request[r].msg, x)
  BY <1>1, ReplyBecomes DEF RInv
<1>3. CallAnswered(request'[r]) /\ CallGone(request'[r])
  BY <1>1, <1>2 DEF CallAnswered, CallGone, AnswerIn, Becomes, Reacting, Writing, Listing
<1> QED BY <1>2, <1>3, ReadHandles DEF Reacting, Listing

LEMMA DeletedHandles ==
    ASSUME RInv, Typed, NEW r \in Slots, page' = page, Reading, request[r].op = "remove",
           Answer(r, None), Gone(request[r].msg)
    PROVE  Handles(r)
<1>1. Becomes(r, "answered", request[r].msg, None)
  BY ReplyBecomes DEF RInv
<1>2. CallAnswered(request'[r]) /\ CallGone(request'[r])
  BY <1>1 DEF CallAnswered, CallGone, AnswerIn, Becomes, Reacting, Writing, Listing
<1> QED BY <1>1, <1>2, ReadHandles DEF Listing

LEMMA PinsHandles ==
    ASSUME RInv, Typed, NEW r \in Slots, page' = page, Reading, request[r].op = "pins",
           Answer(r, Pinned)
    PROVE  Handles(r)
<1>1. PICK x \in SUBSET Msgs : x = Pinned
  BY DEF Pinned, Committed
<1>2. Becomes(r, "answered", request[r].msg, x)
  BY <1>1, ReplyBecomes DEF RInv
<1>3. CallAnswered(request'[r]) /\ CallGone(request'[r])
  BY <1>1, <1>2 DEF CallAnswered, CallGone, AnswerIn, Becomes, Reacting, Writing, Listing
<1> QED BY <1>2, <1>3, ReadHandles DEF Listing

-----------------------------------------------------------------------------
\* A row changes.
LEMMA RowHandles ==
    ASSUME Typed, NEW r \in Slots, page' = page, UNCHANGED <<kind, reaction>>, Silent, RowsGrow,
           NEW msg, NEW reply, Becomes(r, "written", msg, reply),
           msg = request[r].msg \/ msg \in Msgs,
           request[r].op \in {"pinMessage", "unpinMessage"} \cup Writing \cup {"remove"},
           request[r].op \in Writing => msg \in Msgs /\ reply \in EntryType,
           request[r].op = "remove" => Gone(msg)'
    PROVE  Handles(r)
<1>1. UNCHANGED <<kind, page, joined>> /\ reaction' \in [Rids -> ReactionRow] /\ Tells
  BY DEF Silent, Typed, Tells
<1>2. CallAnswered(request'[r])
  BY DEF CallAnswered, AnswerIn, Becomes, Reacting, Writing, Listing
<1>3. CallGone(request[r])'
  BY DEF CallGone, Becomes
<1> QED BY <1>1, <1>2, <1>3, CallHandles DEF Listing, Writing

LEMMA CreateHandles ==
    ASSUME RInv, Typed, NEW r \in Slots, page' = page, UNCHANGED <<kind, reaction>>, Silent,
           request[r].op = "create", NEW m \in Msgs \ Committed,
           CreateMessage(m, Caller(r), request[r].arg),
           request' = [request EXCEPT
               ![r].at = "written", ![r].msg = m,
               ![r].reply = [id |-> m, author |-> Caller(r), content |-> request[r].arg,
                             pinned |-> FALSE, reactions |-> NoReactions]]
    PROVE  Handles(r)
<1>1. Caller(r) \in Users
  BY MessagesAssumption DEF Caller, Slots
<1>2. request[r].arg \in Contents
  BY DEF Typed, CallMade, Writing
<1>3. PICK a : a = [id |-> m, author |-> Caller(r), content |-> request[r].arg,
                    pinned |-> FALSE, reactions |-> NoReactions]
  OBVIOUS
<1>4. a \in EntryType
  BY <1>1, <1>2, <1>3, SummaryIs DEF EntryType, Summaries
<1>5. Becomes(r, "written", m, a)
  BY <1>3, CreationBecomes DEF RInv
<1>6. RowsGrow
  BY <1>1, <1>2, CreationGrows
<1> QED BY <1>4, <1>5, <1>6, RowHandles DEF Writing

LEMMA UpdateHandles ==
    ASSUME RInv, Typed, NEW r \in Slots, page' = page, UNCHANGED <<kind, reaction>>, Silent,
           request[r].op = "update", UpdateMessage(request[r].msg, request[r].arg), NEW x \in Summaries,
           Keep(r, "written", [Entry(request[r].msg, x) EXCEPT !.content = request[r].arg])
    PROVE  Handles(r)
<1>1. request[r].arg \in Contents /\ request[r].msg \in Msgs
  BY DEF Typed, CallMade, Writing, AboutOne
<1>2. PICK a : a = [Entry(request[r].msg, x) EXCEPT !.content = request[r].arg]
  OBVIOUS
<1>3. a \in EntryType
  BY <1>1, <1>2, EntryIs, EntryChanged
<1>4. Becomes(r, "written", request[r].msg, a)
  BY <1>2, ReplyBecomes DEF RInv
<1>5. RowsGrow
  BY <1>1, UpdateGrows
<1> QED BY <1>1, <1>3, <1>4, <1>5, RowHandles DEF Writing

LEMMA DeletionHandles ==
    ASSUME RInv, Typed, NEW r \in Slots, page' = page, UNCHANGED <<kind, reaction>>, Silent,
           Handling(r, "remove", "checked"), CallGone(request[r]),
           SoftDeleteMessage(request[r].msg), Proceed(r, "written")
    PROVE  Handles(r)
<1>1. PICK m : m = request[r].msg
  OBVIOUS
<1>2. m \in Committed
  BY <1>1 DEF CallGone, Handling
<1>3. RowsGrow /\ Gone(m)'
  BY <1>1, <1>2, DeletionGrows
<1>4. Becomes(r, "written", m, request[r].reply)
  BY <1>1, ProceedBecomes DEF RInv
<1> QED BY <1>1, <1>3, <1>4, RowHandles DEF Handling, Writing

LEMMA PinHandles ==
    ASSUME RInv, Typed, NEW r \in Slots, page' = page, UNCHANGED <<kind, reaction>>, Silent,
           request[r].op \in {"pinMessage", "unpinMessage"},
           PinMessage(request[r].msg) \/ UnpinMessage(request[r].msg), Proceed(r, "written")
    PROVE  Handles(r)
<1>1. request[r].msg \in Msgs
  BY DEF Typed, CallMade, AboutOne
<1>2. RowsGrow
  BY <1>1, PinGrows
<1>3. Becomes(r, "written", request[r].msg, request[r].reply)
  BY ProceedBecomes DEF RInv
<1> QED BY <1>2, <1>3, RowHandles DEF Writing

\* A reaction is given or taken back.
LEMMA ReactionHandles ==
    ASSUME RInv, Typed, NEW r \in Slots, page' = page, UNCHANGED <<kind, row>>, Silent,
           request[r].op \in Reacting, reaction' \in [Rids -> ReactionRow],
           NEW at \in OnStages, NEW a, Proceed(r, at) \/ Keep(r, at, a)
    PROVE  Handles(r)
<1>1. PICK reply : Becomes(r, at, request[r].msg, reply)
  BY ProceedBecomes, ReplyBecomes DEF RInv
<1>2. UNCHANGED <<kind, page, joined>> /\ Tells /\ RowsGrow
  BY RowsStay DEF Silent, Tells
<1>3. CallAnswered(request'[r])
  BY <1>1 DEF CallAnswered, AnswerIn, Becomes, OnStages, Reacting, Listing, Writing
<1>4. CallGone(request[r])'
  BY <1>1 DEF CallGone, Becomes, Reacting
<1> QED BY <1>1, <1>2, <1>3, <1>4, CallHandles DEF OnStages, Reacting, Listing

-----------------------------------------------------------------------------
\* The room is told, and the caller answered.
LEMMA TellHandles ==
    ASSUME RInv, Typed, NEW r \in Slots, page' = page, UNCHANGED <<server, joined>>,
           NEW e \in EventType, Broadcast(e), e.type = "deleted" => Gone(e.msg),
           NEW a, Answer(r, a), request[r].op \in AboutOne \cup Writing,
           request[r].op \in Writing => a \in EntryType,
           request[r].op \in Reacting => a \in Summaries,
           request[r].op = "remove" => Gone(request[r].msg)
    PROVE  Handles(r)
<1>1. Becomes(r, "answered", request[r].msg, a)
  BY ReplyBecomes DEF RInv
<1>2. UNCHANGED <<kind, page, joined, row, reaction>>
  BY DEF server
<1>3. RowsGrow /\ reaction' \in [Rids -> ReactionRow]
  BY <1>2, RowsStay DEF Typed
<1>4. Tells
  BY DEF Broadcast, Tells
<1>5. CallAnswered(request'[r])
  BY <1>1 DEF CallAnswered, AnswerIn, Becomes, AboutOne, Reacting, Listing, Writing
<1>6. CallGone(request[r])'
  BY <1>1, <1>2 DEF CallGone, Becomes, Gone, Committed
<1> QED BY <1>1, <1>2, <1>3, <1>4, <1>5, <1>6, CallHandles DEF AboutOne, Reacting, Listing, Writing

LEMMA TellEntryHandles ==
    ASSUME RInv, Typed, NEW r \in Slots, page' = page, UNCHANGED <<server, joined>>,
           NEW type \in {"created", "updated"}, request[r].op \in Writing, request[r].at \in {"written", "counted"},
           Broadcast([type |-> type, msg |-> request[r].msg, entry |-> request[r].reply]),
           Answer(r, request[r].reply)
    PROVE  Handles(r)
<1>1. request[r].msg \in Msgs /\ request[r].reply \in EntryType
  BY DEF Typed, CallAnswered
<1>2. PICK e : e = [type |-> type, msg |-> request[r].msg, entry |-> request[r].reply]
  OBVIOUS
<1>3. e \in EventType /\ e.type = type
  BY <1>1, <1>2 DEF EventType
<1> QED BY <1>1, <1>2, <1>3, TellHandles DEF Writing, Reacting, AboutOne

LEMMA TellMarkHandles ==
    ASSUME RInv, Typed, NEW r \in Slots, page' = page, UNCHANGED <<server, joined>>,
           NEW type \in {"deleted", "pinned", "unpinned"},
           request[r].op \in {"remove", "pinMessage", "unpinMessage"},
           type = "deleted" \/ request[r].op = "remove" => Gone(request[r].msg),
           Broadcast([type |-> type, msg |-> request[r].msg]), Answer(r, None)
    PROVE  Handles(r)
<1>1. request[r].msg \in Msgs
  BY DEF Typed, CallMade, AboutOne
<1>2. PICK e : e = [type |-> type, msg |-> request[r].msg]
  OBVIOUS
<1>3. e \in EventType /\ e.type = type /\ e.msg = request[r].msg
  BY <1>1, <1>2 DEF EventType
<1> QED BY <1>1, <1>2, <1>3, TellHandles DEF Writing, Reacting, AboutOne

LEMMA TellReactionHandles ==
    ASSUME RInv, Typed, NEW r \in Slots, page' = page, UNCHANGED <<server, joined>>,
           request[r].op \in Reacting, request[r].at = "counted",
           Broadcast([type |-> "reacted", msg |-> request[r].msg, user |-> Caller(r),
                      reactions |-> request[r].reply]),
           Answer(r, request[r].reply)
    PROVE  Handles(r)
<1>1. request[r].msg \in Msgs /\ request[r].reply \in Summaries /\ Caller(r) \in Users
  BY MessagesAssumption DEF Typed, CallMade, CallAnswered, AboutOne, Caller, Slots
<1>2. PICK e : e = [type |-> "reacted", msg |-> request[r].msg, user |-> Caller(r),
                    reactions |-> request[r].reply]
  OBVIOUS
<1>3. e \in EventType /\ e.type = "reacted"
  BY <1>1, <1>2 DEF EventType
<1> QED BY <1>1, <1>2, <1>3, TellHandles DEF Writing, Reacting, AboutOne

-----------------------------------------------------------------------------
\* The lists of messages.
LEMMA TypedDated == ASSUME Typed PROVE Dated
BY DEF Typed, Dated, MessageRow

LEMMA AnswerIs ==
    ASSUME NEW items, NEW cursor \in Key \cup {None}, NEW a, a = [items |-> items, nextCursor |-> cursor],
           NEW ids \in Seq(Msgs), items = [i \in DOMAIN ids |-> items[i]],
           \A i \in DOMAIN ids : items[i] \in EntryType /\ items[i].id = ids[i]
    PROVE  ListIs(a, ids, cursor)
<1>1. items \in Seq(EntryType) /\ DOMAIN items = DOMAIN ids
  <2>1. DOMAIN ids = 1..Len(ids) /\ Len(ids) \in Nat
    OBVIOUS
  <2>2. items \in [1..Len(ids) -> EntryType]
    BY <2>1
  <2> QED BY <2>1, <2>2
<1>2. a \in ListAnswer /\ a.items = items /\ a.nextCursor = cursor
  BY <1>1 DEF ListAnswer
<1> QED BY <1>1, <1>2 DEF ListIs

LEMMA ListAnswered ==
    ASSUME RInv, Typed, NEW r \in Slots, page' = page, Reading, request[r].op \in Listing,
           NEW at \in {"listed", "answered"}, NEW a \in ListAnswer,
           Keep(r, at, a) \/ (at = "answered" /\ Answer(r, a)),
           \/ request[r].at = "called" /\ ListIs(a, PageOf(request[r].arg).ids, NextCursor(PageOf(request[r].arg)))
           \/ /\ request[r].at = "listed"
              /\ ListIs(a, [i \in DOMAIN request[r].reply.items |-> request[r].reply.items[i].id],
                        request[r].reply.nextCursor)
    PROVE  Handles(r)
<1>1. Becomes(r, at, request[r].msg, a)
  BY ReplyBecomes DEF RInv
<1>2. CallAnswered(request'[r])
  BY <1>1 DEF CallAnswered, AnswerIn, Becomes, Reacting, Listing, Writing
<1>3. CallGone(request'[r])
  BY <1>1 DEF CallGone, Becomes, Listing
<1>4. request'[r].at = at /\ request'[r].reply = a
  BY <1>1 DEF Becomes
<1>5. Lists(r)
  BY <1>4 DEF Lists
<1> QED BY <1>1, <1>2, <1>3, <1>5, ReadHandles DEF Listing

LEMMA ListHandles ==
    ASSUME RInv, Typed, NEW r \in Slots, page' = page, Reading, request[r].op \in Listing,
           request[r].at = "called", NEW at \in {"listed", "answered"}, NEW sums \in [Msgs -> Summaries],
           NEW page1, page1 = PageOf(request[r].arg), NEW a,
           a = [items |-> [i \in DOMAIN page1.ids |-> Entry(page1.ids[i], sums[page1.ids[i]])],
                nextCursor |-> NextCursor(page1)],
           Keep(r, at, a) \/ (at = "answered" /\ Answer(r, a))
    PROVE  Handles(r)
<1>1. PICK ids : ids = page1.ids
  OBVIOUS
<1>2. PICK cursor : cursor = NextCursor(page1)
  OBVIOUS
<1>3. ids \in Seq(Msgs) /\ cursor \in Key \cup {None}
  BY <1>1, <1>2, TypedDated, PageOfIs
<1>4. PICK items : items = [i \in DOMAIN ids |-> Entry(ids[i], sums[ids[i]])]
  OBVIOUS
<1>5. items = [i \in DOMAIN ids |-> items[i]]
      /\ \A i \in DOMAIN ids : items[i] = Entry(ids[i], sums[ids[i]])
  BY <1>4
<1>6. ASSUME NEW i \in DOMAIN ids PROVE items[i] \in EntryType /\ items[i].id = ids[i]
  <2>1. ids[i] \in Msgs
    BY <1>3
  <2>2. sums[ids[i]] \in Summaries
    BY <2>1
  <2> QED BY <1>5, <2>1, <2>2, EntryIs
<1>7. a = [items |-> items, nextCursor |-> cursor]
  BY <1>1, <1>2, <1>4
<1>8. ListIs(a, ids, cursor)
  BY <1>3, <1>5, <1>6, <1>7, AnswerIs
<1>9. a \in ListAnswer
  BY <1>8 DEF ListIs
<1> QED BY <1>1, <1>2, <1>8, <1>9, ListAnswered

LEMMA ListReactionsHandles ==
    ASSUME RInv, Typed, NEW r \in Slots, page' = page, Reading, request[r].op \in Listing,
           request[r].at = "listed", NEW list, list = request[r].reply,
           Answer(r, [list EXCEPT !.items =
               [i \in DOMAIN list.items |->
                   [list.items[i] EXCEPT !.reactions = Summary(list.items[i].id, Caller(r))]]])
    PROVE  Handles(r)
<1>1. list \in ListAnswer
  BY DEF Typed, CallAnswered
<1>2. PICK old : old = list.items
  OBVIOUS
<1>3. PICK cursor : cursor = list.nextCursor
  OBVIOUS
<1>4. old \in Seq(EntryType) /\ cursor \in Key \cup {None}
  BY <1>1, <1>2, <1>3 DEF ListAnswer
<1>5. PICK items : items = [i \in DOMAIN old |-> [old[i] EXCEPT !.reactions = Summary(old[i].id, Caller(r))]]
  OBVIOUS
<1>6. PICK ids : ids = [i \in DOMAIN old |-> old[i].id]
  OBVIOUS
<1>7. ids \in Seq(Msgs) /\ DOMAIN ids = DOMAIN old
  <2>1. DOMAIN old = 1..Len(old) /\ Len(old) \in Nat
    BY <1>4
  <2>2. ASSUME NEW i \in DOMAIN old PROVE old[i].id \in Msgs
    <3>1. old[i] \in EntryType
      BY <1>4
    <3> QED BY <3>1 DEF EntryType
  <2>3. ids \in [1..Len(old) -> Msgs]
    BY <1>6, <2>1, <2>2
  <2> QED BY <1>6, <2>1, <2>3
<1>8. items = [i \in DOMAIN ids |-> items[i]]
  BY <1>5, <1>7
<1>9. ASSUME NEW i \in DOMAIN ids PROVE items[i] \in EntryType /\ items[i].id = ids[i]
  <2>1. old[i] \in EntryType
    BY <1>4, <1>7
  <2>2. PICK x \in Summaries : x = Summary(old[i].id, Caller(r))
    BY SummaryIs
  <2>3. items[i] = [old[i] EXCEPT !.reactions = x] /\ ids[i] = old[i].id
    BY <1>5, <1>6, <1>7, <2>2
  <2> QED BY <2>1, <2>2, <2>3, EntryChanged
<1>10. PICK a : a = [list EXCEPT !.items = items]
  OBVIOUS
<1>11. a = [items |-> items, nextCursor |-> cursor]
  BY <1>1, <1>3, <1>10 DEF ListAnswer
<1>12. ListIs(a, ids, cursor)
  BY <1>4, <1>7, <1>8, <1>9, <1>11, AnswerIs
<1>13. Answer(r, a) /\ a \in ListAnswer
  BY <1>2, <1>5, <1>10, <1>12 DEF ListIs
<1> QED BY <1>2, <1>3, <1>6, <1>12, <1>13, ListAnswered

-----------------------------------------------------------------------------
(* The handlers of a channel. *)
LEMMA ChannelHandles ==
    ASSUME RInv, Typed, NEW r \in Slots, page' = page, CallGone(request[r]),
           request[r].op # "none", ChannelService(r)
    PROVE  Handles(r)
<1> USE DEF Channel, Handling
<1>1. CASE Create(r)
  <2>1. ASSUME CreateWrite(r) PROVE Handles(r)
    <3>1. PICK m \in Msgs \ Committed :
             /\ CreateMessage(m, Caller(r), request[r].arg)
             /\ request' = [request EXCEPT
                    ![r].at = "written", ![r].msg = m,
                    ![r].reply = [id |-> m, author |-> Caller(r), content |-> request[r].arg,
                                  pinned |-> FALSE, reactions |-> NoReactions]]
      BY <2>1 DEF CreateWrite
    <3>2. request[r].op = "create" /\ UNCHANGED <<kind, reaction>> /\ Silent
      BY <2>1 DEF CreateWrite
    <3> QED BY <3>1, <3>2, CreateHandles
  <2>2. ASSUME CreateBroadcast(r) PROVE Handles(r)
    BY <2>2, TellEntryHandles DEF CreateBroadcast, Writing
  <2> QED BY <1>1, <2>1, <2>2 DEF Create
<1>2. CASE Update(r)
  <2>1. ASSUME UpdateCheck(r) PROVE Handles(r)
    <3>1. \/ CheckMessage(r, Live(request[r].msg) /\ row[request[r].msg].author = Caller(r))
          \/ Refuse(r) /\ Reading
      BY <2>1 DEF UpdateCheck
    <3>2. request[r].op = "update"
      BY <2>1 DEF UpdateCheck
    <3> QED BY <3>1, <3>2, CheckHandles, RefuseHandles DEF AboutOne
  <2>2. ASSUME UpdateWrite(r) PROVE Handles(r)
    <3>1. PICK x \in Summaries : x = Summary(request[r].msg, Caller(r))
      BY SummaryIs
    <3> QED BY <2>2, <3>1, UpdateHandles DEF UpdateWrite
  <2>3. ASSUME UpdateBroadcast(r) PROVE Handles(r)
    BY <2>3, TellEntryHandles DEF UpdateBroadcast, Writing
  <2> QED BY <1>2, <2>1, <2>2, <2>3 DEF Update
<1>3. CASE Remove(r)
  <2>1. ASSUME RemoveCheck(r) PROVE Handles(r)
    <3>1. PICK ok : CheckMessage(r, ok) /\ (ok => Live(request[r].msg))
      BY <2>1, Zenon DEF RemoveCheck
    <3>2. request[r].op = "remove"
      BY <2>1 DEF RemoveCheck
    <3> QED BY <3>1, <3>2, CheckHandles DEF AboutOne
  <2>2. ASSUME RemoveWrite(r) PROVE Handles(r)
    BY <2>2, DeletionHandles DEF RemoveWrite
  <2>3. ASSUME RemoveUntold(r) PROVE Handles(r)
    <3>1. /\ Answer(r, None) /\ Reading /\ request[r].op = "remove"
          /\ Gone(request[r].msg)
      BY <2>3 DEF RemoveUntold, CallGone
    <3> QED BY <3>1, DeletedHandles
  <2>4. ASSUME RemoveBroadcast(r) PROVE Handles(r)
    <3>1. Gone(request[r].msg) /\ request[r].op = "remove"
      BY <2>4 DEF RemoveBroadcast, CallGone
    <3> QED BY <2>4, <3>1, TellMarkHandles DEF RemoveBroadcast
  <2> QED BY <1>3, <2>1, <2>2, <2>3, <2>4 DEF Remove
<1>4. CASE Pin(r)
  <2>1. ASSUME PinCheck(r) PROVE Handles(r)
    <3>1. PICK ok : CheckMessage(r, ok) /\ (ok => Live(request[r].msg))
      BY <2>1, Zenon DEF PinCheck
    <3>2. request[r].op \in AboutOne
      BY <2>1 DEF PinCheck, AboutOne
    <3> QED BY <3>1, <3>2, CheckHandles
  <2>2. ASSUME PinWrite(r) \/ UnpinWrite(r) PROVE Handles(r)
    BY <2>2, PinHandles DEF PinWrite, UnpinWrite
  <2>3. ASSUME PinBroadcast(r) PROVE Handles(r)
    BY <2>3, TellMarkHandles DEF PinBroadcast
  <2>4. ASSUME UnpinBroadcast(r) PROVE Handles(r)
    BY <2>4, TellMarkHandles DEF UnpinBroadcast
  <2> QED BY <1>4, <2>1, <2>2, <2>3, <2>4 DEF Pin
<1>5. CASE React(r)
  <2>1. ASSUME ReactionCheck(r) PROVE Handles(r)
    <3>1. CheckMessage(r, Live(request[r].msg)) /\ request[r].op \in AboutOne
      BY <2>1 DEF ReactionCheck, AboutOne, Reacting
    <3> QED BY <3>1, CheckHandles
  <2>2. ASSUME FindActiveByUser(r) PROVE Handles(r)
    <3>1. Reading /\ request[r].op = "addReaction"
          /\ \E at \in OnStages : \E found : Proceed(r, at) \/ Find(r, at, found)
      BY <2>2, Zenon DEF FindActiveByUser, OnStages
    <3> QED BY <3>1, OnwardHandles DEF AboutOne, Reacting
  <2>3. ASSUME SoftDelete(r) PROVE Handles(r)
    <3>1. PICK I : DropReactions(I)
      BY <2>3 DEF SoftDelete
    <3>2. reaction' \in [Rids -> ReactionRow]
      BY <3>1, DropTyped
    <3>3. /\ UNCHANGED <<kind, row>> /\ Silent /\ request[r].op \in Reacting
          /\ \E at \in OnStages : Proceed(r, at)
      BY <2>3 DEF SoftDelete, OnStages, Reacting
    <3> QED BY <3>2, <3>3, ReactionHandles
  <2>4. ASSUME AddReactionWrite(r) PROVE Handles(r)
    <3>1. reaction' \in [Rids -> ReactionRow]
      <4>1. request[r].msg \in Msgs /\ request[r].arg \in Emojis /\ Caller(r) \in Users
        BY <2>4, MessagesAssumption DEF AddReactionWrite, Typed, CallMade, AboutOne, Reacting, Caller, Slots
      <4>2. reaction' = reaction \/ CreateReaction(request[r].msg, Caller(r), request[r].arg)
        BY <2>4 DEF AddReactionWrite
      <4> QED BY <4>1, <4>2, CreationTyped DEF Typed
    <3>2. /\ UNCHANGED <<kind, row>> /\ Silent /\ request[r].op \in Reacting
          /\ \E at \in OnStages : \E a : Proceed(r, at) \/ Keep(r, at, a)
      BY <2>4 DEF AddReactionWrite, OnStages, Reacting
    <3> QED BY <3>1, <3>2, ReactionHandles
  <2>5. ASSUME AddReactionConflicted(r) PROVE Handles(r)
    BY <2>5, CountHandles DEF AddReactionConflicted, Reacting
  <2>6. ASSUME FindActive(r) PROVE Handles(r)
    <3>1. Reading /\ request[r].op = "removeReaction"
          /\ (Refuse(r) \/ \E found : Find(r, "removing", found))
      BY <2>6, Zenon DEF FindActive
    <3> QED BY <3>1, OnwardHandles, RefuseHandles DEF AboutOne, Reacting, OnStages
  <2>7. ASSUME RemoveReactionWrite(r) PROVE Handles(r)
    <3>1. reaction' \in [Rids -> ReactionRow]
      BY <2>7, DropTyped DEF RemoveReactionWrite
    <3>2. /\ UNCHANGED <<kind, row>> /\ Silent /\ request[r].op \in Reacting /\ Proceed(r, "changed")
      BY <2>7 DEF RemoveReactionWrite, Reacting
    <3> QED BY <3>1, <3>2, ReactionHandles DEF OnStages
  <2>8. ASSUME ListWithCounts(r) PROVE Handles(r)
    BY <2>8, CountHandles DEF ListWithCounts, Reacting
  <2>9. ASSUME BroadcastReaction(r) PROVE Handles(r)
    BY <2>9, TellReactionHandles DEF BroadcastReaction, Reacting
  <2> QED BY <1>5, <2>1, <2>2, <2>3, <2>4, <2>5, <2>6, <2>7, <2>8, <2>9 DEF React
<1>6. CASE List(r)
  <2>1. PICK page1 : page1 = PageOf(request[r].arg)
    OBVIOUS
  <2>2. PICK sums : sums = [m \in Msgs |-> Summary(m, Caller(r))]
    OBVIOUS
  <2>3. sums \in [Msgs -> Summaries]
    BY <2>2, SummaryIs
  <2>4. PICK a : a = [items |-> [i \in DOMAIN page1.ids |-> Entry(page1.ids[i], sums[page1.ids[i]])],
                      nextCursor |-> NextCursor(page1)]
    OBVIOUS
  <2>5. \A i \in DOMAIN page1.ids : sums[page1.ids[i]] = Summary(page1.ids[i], Caller(r))
    <3>1. page1.ids \in Seq(Msgs)
      BY <2>1, TypedDated, PageOfIs
    <3> QED BY <2>2, <3>1
  <2>6. Answer(r, a)
    <3>1. Answer(r, [items |-> [i \in DOMAIN page1.ids |-> Entry(page1.ids[i], Summary(page1.ids[i], Caller(r)))],
                     nextCursor |-> NextCursor(page1)])
      BY <1>6, <2>1 DEF List
    <3>2. [i \in DOMAIN page1.ids |-> Entry(page1.ids[i], Summary(page1.ids[i], Caller(r)))]
           = [i \in DOMAIN page1.ids |-> Entry(page1.ids[i], sums[page1.ids[i]])]
      BY <2>5
    <3> QED BY <2>4, <3>1, <3>2
  <2>7. Reading /\ request[r].op \in Listing /\ request[r].at = "called"
    BY <1>6 DEF List, Listing
  <2> QED BY <2>1, <2>3, <2>4, <2>6, <2>7, ListHandles
<1>7. CASE ListPinnedMessages(r)
  BY <1>7, PinsHandles DEF ListPinnedMessages
<1> QED BY <1>1, <1>2, <1>3, <1>4, <1>5, <1>6, <1>7 DEF ChannelService

-----------------------------------------------------------------------------
(* The handlers of a direct conversation, and of a group. *)
LEMMA DirectWritingHandles ==
    ASSUME RInv, Typed, NEW r \in Slots, page' = page, CallGone(request[r]),
           request[r].op # "none", DirectWriting(r)
    PROVE  Handles(r)
<1> USE DEF Direct, Handling
<1>1. ASSUME DirectCreateWrite(r) PROVE Handles(r)
  <2>1. PICK m \in Msgs \ Committed :
           /\ CreateMessage(m, Caller(r), request[r].arg)
           /\ request' = [request EXCEPT
                  ![r].at = "written", ![r].msg = m,
                  ![r].reply = [id |-> m, author |-> Caller(r), content |-> request[r].arg,
                                pinned |-> FALSE, reactions |-> NoReactions]]
    BY <1>1 DEF DirectCreateWrite
  <2>2. request[r].op = "create" /\ UNCHANGED <<kind, reaction>> /\ Silent
    BY <1>1 DEF DirectCreateWrite
  <2> QED BY <2>1, <2>2, CreateHandles
<1>2. ASSUME DirectCreateBroadcast(r) PROVE Handles(r)
  BY <1>2, TellEntryHandles DEF DirectCreateBroadcast, Writing
<1>3. ASSUME DirectUpdateCheck(r) PROVE Handles(r)
  <2>1. CheckMessage(r, Live(request[r].msg) /\ row[request[r].msg].author = Caller(r))
    BY <1>3 DEF DirectUpdateCheck
  <2>2. request[r].op = "update"
    BY <1>3 DEF DirectUpdateCheck
  <2> QED BY <2>1, <2>2, CheckHandles DEF AboutOne
<1>4. ASSUME DirectUpdateWrite(r) PROVE Handles(r)
  BY <1>4, UpdateHandles, SummaryIs DEF DirectUpdateWrite
<1>5. ASSUME DirectUpdateReactions(r) PROVE Handles(r)
  <2>1. PICK x \in Summaries : x = Summary(request[r].msg, Caller(r))
    BY SummaryIs
  <2>2. request[r].reply \in EntryType /\ request[r].op = "update"
        /\ request[r].msg \in Msgs
    BY <1>5 DEF DirectUpdateReactions, Typed, CallAnswered, Writing
  <2>3. PICK a : a = [request[r].reply EXCEPT !.reactions = x]
    OBVIOUS
  <2>4. a \in EntryType
    BY <2>2, <2>3, EntryChanged
  <2>5. Becomes(r, "counted", request[r].msg, a) /\ Reading
    BY <1>5, <2>1, <2>3, ReplyBecomes DEF DirectUpdateReactions, RInv
  <2>6. CallAnswered(request'[r]) /\ CallGone(request'[r])
    BY <2>2, <2>4, <2>5 DEF CallAnswered, CallGone, AnswerIn, Becomes, Reacting, Listing
  <2> QED BY <2>2, <2>5, <2>6, ReadHandles DEF Listing
<1>6. ASSUME DirectUpdateBroadcast(r) PROVE Handles(r)
  BY <1>6, TellEntryHandles DEF DirectUpdateBroadcast, Writing
<1>7. ASSUME DirectDeleteCheck(r) PROVE Handles(r)
  <2> DEFINE m == request[r].msg
  <2>1. Reading /\ request[r].op = "remove"
    BY <1>7 DEF DirectDeleteCheck
  <2>2. CASE m \notin Committed \/ row[m].author # Caller(r)
    <3>1. Refuse(r)
      BY <1>7, <2>2 DEF DirectDeleteCheck
    <3> QED BY <2>1, <3>1, RefuseHandles
  <2>3. CASE m \in Committed /\ row[m].author = Caller(r) /\ row[m].deleted
    <3>1. Answer(r, None)
      BY <1>7, <2>3 DEF DirectDeleteCheck
    <3> QED BY <2>1, <2>3, <3>1, DeletedHandles DEF Gone
  <2>4. CASE m \in Committed /\ row[m].author = Caller(r) /\ ~row[m].deleted
    <3>1. Proceed(r, "checked") /\ Live(m)
      BY <1>7, <2>4 DEF DirectDeleteCheck, Live, Committed
    <3> QED BY <2>1, <3>1, OnwardHandles DEF OnStages, AboutOne
  <2> QED BY <2>2, <2>3, <2>4
<1>8. ASSUME DirectDeleteWrite(r) PROVE Handles(r)
  BY <1>8, DeletionHandles DEF DirectDeleteWrite
<1>9. ASSUME DirectDeleteBroadcast(r) PROVE Handles(r)
  <2>1. Gone(request[r].msg) /\ request[r].op = "remove"
    BY <1>9 DEF DirectDeleteBroadcast, CallGone
  <2> QED BY <1>9, <2>1, TellMarkHandles DEF DirectDeleteBroadcast
<1> QED BY <1>1, <1>2, <1>3, <1>4, <1>5, <1>6, <1>7, <1>8, <1>9 DEF DirectWriting

LEMMA DirectPinHandles ==
    ASSUME RInv, Typed, NEW r \in Slots, page' = page, DirectPin(r)
    PROVE  Handles(r)
<1> USE DEF Direct, Handling
<1>1. ASSUME DirectPinCheck(r) PROVE Handles(r)
  <2>1. CheckMessage(r, Live(request[r].msg)) /\ request[r].op \in AboutOne
    BY <1>1 DEF DirectPinCheck, AboutOne
  <2> QED BY <2>1, CheckHandles
<1>2. ASSUME DirectPinWrite(r) \/ DirectUnpinWrite(r) PROVE Handles(r)
  BY <1>2, PinHandles DEF DirectPinWrite, DirectUnpinWrite
<1>3. ASSUME DirectPinBroadcast(r) PROVE Handles(r)
  BY <1>3, TellMarkHandles DEF DirectPinBroadcast
<1>4. ASSUME DirectUnpinBroadcast(r) PROVE Handles(r)
  BY <1>4, TellMarkHandles DEF DirectUnpinBroadcast
<1> QED BY <1>1, <1>2, <1>3, <1>4 DEF DirectPin

LEMMA DirectReactHandles ==
    ASSUME RInv, Typed, NEW r \in Slots, page' = page, DirectReact(r)
    PROVE  Handles(r)
<1> USE DEF Direct, Handling
<1>1. ASSUME DirectReactionCheck(r) PROVE Handles(r)
  <2>1. CheckMessage(r, Live(request[r].msg)) /\ request[r].op \in AboutOne
    BY <1>1 DEF DirectReactionCheck, AboutOne, Reacting
  <2> QED BY <2>1, CheckHandles
<1>2. ASSUME FindDirectReaction(r) PROVE Handles(r)
  <2>1. Reading /\ request[r].op \in Reacting
        /\ \E at \in OnStages : \E found : Proceed(r, at) \/ Find(r, at, found)
    BY <1>2, Zenon DEF FindDirectReaction, OnStages, Reacting
  <2> QED BY <2>1, OnwardHandles DEF AboutOne, Reacting
<1>3. ASSUME DeleteDirectReaction(r) PROVE Handles(r)
  <2>1. request[r].op \in Reacting /\ UNCHANGED <<kind, row>> /\ Silent
    BY <1>3 DEF DeleteDirectReaction, Reacting
  <2>2. CASE DropReactions(request[r].found) /\ Proceed(r, "changed")
    <3>1. reaction' \in [Rids -> ReactionRow]
      BY <2>2, DropTyped
    <3> QED BY <2>1, <2>2, <3>1, ReactionHandles DEF OnStages
  <2>3. CASE Refuse(r) /\ UNCHANGED reaction
    <3>1. Reading
      BY <2>1, <2>3 DEF Reading, server
    <3> QED BY <2>1, <2>3, <3>1, RefuseHandles DEF Reacting
  <2> QED BY <1>3, <2>2, <2>3 DEF DeleteDirectReaction
<1>4. ASSUME DeleteDirectReactionsForUser(r) PROVE Handles(r)
  <2>1. PICK I : DropReactions(I)
    BY <1>4 DEF DeleteDirectReactionsForUser
  <2>2. reaction' \in [Rids -> ReactionRow]
    BY <2>1, DropTyped
  <2>3. /\ UNCHANGED <<kind, row>> /\ Silent /\ request[r].op \in Reacting /\ Proceed(r, "creating")
    BY <1>4 DEF DeleteDirectReactionsForUser, Reacting
  <2> QED BY <2>2, <2>3, ReactionHandles DEF OnStages
<1>5. ASSUME CreateDirectReaction(r) PROVE Handles(r)
  <2>1. reaction' \in [Rids -> ReactionRow]
    <3>1. request[r].msg \in Msgs /\ request[r].arg \in Emojis /\ Caller(r) \in Users
      BY <1>5, MessagesAssumption
         DEF CreateDirectReaction, Typed, CallMade, AboutOne, Reacting, Caller, Slots
    <3>2. reaction' = reaction \/ CreateReaction(request[r].msg, Caller(r), request[r].arg)
      BY <1>5 DEF CreateDirectReaction
    <3> QED BY <3>1, <3>2, CreationTyped DEF Typed
  <2>2. /\ UNCHANGED <<kind, row>> /\ Silent /\ request[r].op \in Reacting /\ Proceed(r, "changed")
    BY <1>5 DEF CreateDirectReaction, Reacting
  <2> QED BY <2>1, <2>2, ReactionHandles DEF OnStages
<1>6. ASSUME GetDirectMessageReactions(r) PROVE Handles(r)
  BY <1>6, CountHandles DEF GetDirectMessageReactions, Reacting
<1>7. ASSUME BroadcastDirectReaction(r) PROVE Handles(r)
  BY <1>7, TellReactionHandles DEF BroadcastDirectReaction, Reacting
<1> QED BY <1>1, <1>2, <1>3, <1>4, <1>5, <1>6, <1>7 DEF DirectReact

\* The rows first: nobody has reacted, as far as this answer tells.
LEMMA RowsHandle ==
    ASSUME RInv, Typed, NEW r \in Slots, page' = page, Reading, request[r].op \in Listing,
           request[r].at = "called", NEW at \in {"listed", "answered"},
           NEW page1, page1 = PageOf(request[r].arg), NEW a,
           a = [items |-> [i \in DOMAIN page1.ids |-> Entry(page1.ids[i], NoReactions)],
                nextCursor |-> NextCursor(page1)],
           Keep(r, at, a) \/ (at = "answered" /\ Answer(r, a))
    PROVE  Handles(r)
<1>1. PICK sums : sums = [m \in Msgs |-> NoReactions]
  OBVIOUS
<1>2. sums \in [Msgs -> Summaries]
  BY <1>1, SummaryIs
<1>3. page1.ids \in Seq(Msgs)
  BY TypedDated, PageOfIs
<1>4. \A i \in DOMAIN page1.ids : sums[page1.ids[i]] = NoReactions
  BY <1>1, <1>3
<1>5. a = [items |-> [i \in DOMAIN page1.ids |-> Entry(page1.ids[i], sums[page1.ids[i]])],
           nextCursor |-> NextCursor(page1)]
  BY <1>4
<1> QED BY <1>2, <1>5, ListHandles

LEMMA DirectHandles ==
    ASSUME RInv, Typed, NEW r \in Slots, page' = page, CallGone(request[r]),
           request[r].op # "none", DirectService(r)
    PROVE  Handles(r)
<1> USE DEF Direct, Handling
<1>1. ASSUME ListMessagesForConversation(r) PROVE Handles(r)
  <2>1. PICK page1 : page1 = PageOf(request[r].arg)
    OBVIOUS
  <2>2. Reading /\ request[r].op \in Listing /\ request[r].at = "called"
        /\ Keep(r, "listed", [items |-> [i \in DOMAIN page1.ids |-> Entry(page1.ids[i], NoReactions)],
                              nextCursor |-> NextCursor(page1)])
    BY <1>1, <2>1 DEF ListMessagesForConversation, Listing
  <2> QED BY <2>1, <2>2, RowsHandle
<1>2. ASSUME ListDirectReactions(r) PROVE Handles(r)
  <2>1. PICK list : list = request[r].reply
    OBVIOUS
  <2>2. Reading /\ request[r].op \in Listing /\ request[r].at = "listed"
        /\ Answer(r, [list EXCEPT !.items =
               [i \in DOMAIN list.items |->
                   [list.items[i] EXCEPT !.reactions = Summary(list.items[i].id, Caller(r))]]])
    BY <1>2, <2>1 DEF ListDirectReactions, Listing
  <2> QED BY <2>1, <2>2, ListReactionsHandles
<1>3. ASSUME ListDirectPins(r) PROVE Handles(r)
  BY <1>3, PinsHandles DEF ListDirectPins
<1> QED BY <1>1, <1>2, <1>3, DirectWritingHandles, DirectPinHandles, DirectReactHandles DEF DirectService

LEMMA GroupHandles ==
    ASSUME RInv, Typed, NEW r \in Slots, page' = page, GroupService(r)
    PROVE  Handles(r)
<1> USE DEF Group, Handling
<1>1. ASSUME GroupCreateWrite(r) PROVE Handles(r)
  <2>1. PICK m \in Msgs \ Committed :
           /\ CreateMessage(m, Caller(r), request[r].arg)
           /\ request' = [request EXCEPT
                  ![r].at = "written", ![r].msg = m,
                  ![r].reply = [id |-> m, author |-> Caller(r), content |-> request[r].arg,
                                pinned |-> FALSE, reactions |-> NoReactions]]
    BY <1>1 DEF GroupCreateWrite
  <2>2. request[r].op = "create" /\ UNCHANGED <<kind, reaction>> /\ Silent
    BY <1>1 DEF GroupCreateWrite
  <2> QED BY <2>1, <2>2, CreateHandles
<1>2. ASSUME GroupCreateBroadcast(r) PROVE Handles(r)
  BY <1>2, TellEntryHandles DEF GroupCreateBroadcast, Writing
<1>3. ASSUME GroupPinCheck(r) PROVE Handles(r)
  <2>1. PICK ok : CheckMessage(r, ok) /\ (ok => Live(request[r].msg))
    BY <1>3, Zenon DEF GroupPinCheck
  <2>2. request[r].op \in AboutOne
    BY <1>3 DEF GroupPinCheck, AboutOne
  <2> QED BY <2>1, <2>2, CheckHandles
<1>4. ASSUME GroupPinWrite(r) \/ GroupUnpinWrite(r) PROVE Handles(r)
  BY <1>4, PinHandles DEF GroupPinWrite, GroupUnpinWrite
<1>5. ASSUME GroupPinBroadcast(r) PROVE Handles(r)
  BY <1>5, TellMarkHandles DEF GroupPinBroadcast
<1>6. ASSUME GroupUnpinBroadcast(r) PROVE Handles(r)
  BY <1>6, TellMarkHandles DEF GroupUnpinBroadcast
<1>7. ASSUME ListGroupMessages(r) PROVE Handles(r)
  <2>1. PICK page1 : page1 = PageOf(request[r].arg)
    OBVIOUS
  <2>2. Reading /\ request[r].op \in Listing /\ request[r].at = "called"
        /\ Answer(r, [items |-> [i \in DOMAIN page1.ids |-> Entry(page1.ids[i], NoReactions)],
                      nextCursor |-> NextCursor(page1)])
    BY <1>7, <2>1 DEF ListGroupMessages, Listing
  <2> QED BY <2>1, <2>2, RowsHandle
<1>8. ASSUME ListGroupPins(r) PROVE Handles(r)
  BY <1>8, PinsHandles DEF ListGroupPins
<1> QED BY <1>1, <1>2, <1>3, <1>4, <1>5, <1>6, <1>7, <1>8 DEF GroupService

LEMMA ServiceHandles ==
    ASSUME RInv, Typed, NEW r \in Slots, CallGone(request[r]), Service(r) \/ Fails(r)
    PROVE  Handles(r)
<1>1. CASE Service(r)
  <2>1. page' = page /\ request[r].op # "none"
    BY <1>1 DEF Service, IsFree, Typed, CallMade
  <2>2. CASE kind = "channel"
    <3>1. ChannelService(r)
      BY <1>1, <2>2 DEF Service
    <3> QED BY <2>1, <3>1, ChannelHandles
  <2>3. CASE kind = "direct"
    <3>1. DirectService(r)
      BY <1>1, <2>3 DEF Service
    <3> QED BY <2>1, <3>1, DirectHandles
  <2>4. CASE kind = "group"
    <3>1. GroupService(r)
      BY <1>1, <2>4 DEF Service
    <3> QED BY <2>1, <3>1, GroupHandles
  <2>5. kind \in {"channel", "direct", "group"}
    BY DEF RInv
  <2> QED BY <2>2, <2>3, <2>4, <2>5
<1>2. CASE Fails(r)
  <2>1. Reading /\ Refuse(r) /\ page' = page /\ request[r].at # "idle"
    BY <1>2 DEF Fails, Fault
  <2>2. request[r].op # "none"
    <3>1. request[r].op = "none" => request[r] = IdleCall
      BY DEF Typed, CallMade
    <3>2. IdleCall.at = "idle"
      BY DEF IdleCall
    <3> QED BY <2>1, <3>1, <3>2
  <2> QED BY <2>1, <2>2, RefuseHandles
<1> QED BY <1>1, <1>2

-----------------------------------------------------------------------------
(*****************************************************************************)
(* The setters of a page: what is shown stays, once, but for what is taken   *)
(* out because it was deleted.                                               *)
(*****************************************************************************)
\* A list shows a message once, and only while the page has one.
Once(l) == \A i, j \in DOMAIN l : i # j => l[i].id # l[j].id
PageOK(p) == p \in PageType /\ Once(p.list) /\ (p.kind # "success" => p.list = <<>>)
\* An event or an answer may change what a page shows, and drops only what is gone.
Updates(p, q) ==
    /\ PageOK(q) /\ q.kind = p.kind /\ q.cursor = p.cursor
    /\ \A m : Shows(p, m) /\ ~Gone(m) => Shows(q, m)

LEMMA Updated ==
    ASSUME NEW p, NEW q, NEW b, PageOK(p), Updates(p, q), Updates(q, b) PROVE Updates(p, b)
BY DEF Updates

LEMMA SamePage ==
    ASSUME NEW p, PageOK(p) PROVE Updates(p, p)
BY DEF Updates

\* The page gets another list.
LEMMA ListSet ==
    ASSUME NEW p \in PageType, NEW l \in Seq(EntryType), NEW q, q = [p EXCEPT !.list = l]
    PROVE  q \in PageType /\ q.kind = p.kind /\ q.cursor = p.cursor /\ q.list = l
BY DEF PageType

LEMMA ListUpdates ==
    ASSUME NEW p, PageOK(p), NEW l \in Seq(EntryType), NEW q, q = [p EXCEPT !.list = l], Once(l),
           p.kind # "success" => l = <<>>,
           \A m : Shows(p, m) /\ ~Gone(m) => \E i \in DOMAIN l : l[i].id = m
    PROVE  Updates(p, q)
<1>1. q \in PageType /\ q.kind = p.kind /\ q.cursor = p.cursor /\ q.list = l
  BY ListSet DEF PageOK
<1> QED BY <1>1 DEF Updates, PageOK, Shows

LEMMA PinsUpdate ==
    ASSUME NEW p, PageOK(p), NEW S \in SUBSET Msgs, NEW q, q = [p EXCEPT !.pins = S]
    PROVE  Updates(p, q)
<1>1. q \in PageType /\ q.kind = p.kind /\ q.cursor = p.cursor /\ q.list = p.list
  BY DEF PageOK, PageType
<1> QED BY <1>1 DEF Updates, PageOK, Shows

LEMMA RemovePinUpdates ==
    ASSUME NEW p, PageOK(p), NEW m PROVE Updates(p, RemovePinFromState(p, m))
<1>1. PICK S : S = p.pins \ {m}
  OBVIOUS
<1>2. S \in SUBSET Msgs
  BY <1>1 DEF PageOK, PageType
<1>3. PICK q : q = [p EXCEPT !.pins = S]
  OBVIOUS
<1>4. q = RemovePinFromState(p, m)
  BY <1>1, <1>3 DEF RemovePinFromState
<1> QED BY <1>2, <1>3, <1>4, PinsUpdate

\* Entries are replaced by others of the same messages.
LEMMA EntriesUpdate ==
    ASSUME NEW p, PageOK(p), NEW l, l = [i \in DOMAIN p.list |-> l[i]],
           \A i \in DOMAIN p.list : l[i] \in EntryType /\ l[i].id = p.list[i].id,
           NEW q, q = [p EXCEPT !.list = l]
    PROVE  Updates(p, q)
<1>1. PICK old : old = p.list
  OBVIOUS
<1>2. old \in Seq(EntryType)
  BY <1>1 DEF PageOK, PageType
<1>3. DOMAIN old = 1..Len(old) /\ Len(old) \in Nat
  BY <1>2
<1>4. DOMAIN l = DOMAIN old /\ l \in [1..Len(old) -> EntryType]
  BY <1>1, <1>3
<1>5. l \in Seq(EntryType)
  BY <1>3, <1>4
<1>6. Once(l)
  <2>1. Once(old)
    BY <1>1 DEF PageOK
  <2>2. \A i \in DOMAIN l : l[i].id = old[i].id
    BY <1>1, <1>4
  <2> SUFFICES ASSUME NEW i \in DOMAIN l, NEW j \in DOMAIN l, i # j PROVE l[i].id # l[j].id
    BY DEF Once
  <2>3. old[i].id # old[j].id
    BY <1>4, <2>1 DEF Once
  <2> QED BY <2>2, <2>3
<1>7. p.kind # "success" => l = <<>>
  <2> SUFFICES ASSUME p.kind # "success" PROVE l = <<>>
    OBVIOUS
  <2>1. old = <<>>
    BY <1>1 DEF PageOK
  <2>2. DOMAIN l = {}
    BY <1>4, <2>1
  <2> QED BY <1>5, <2>2
<1>8. \A m : Shows(p, m) => \E i \in DOMAIN l : l[i].id = m
  BY <1>1, <1>4 DEF Shows
<1> QED BY <1>5, <1>6, <1>7, <1>8, ListUpdates

LEMMA UpdateInStateUpdates ==
    ASSUME NEW p, PageOK(p), NEW e \in EntryType PROVE Updates(p, UpdateMessageInState(p, e))
<1>1. PICK l : l = [i \in DOMAIN p.list |-> IF p.list[i].id = e.id THEN e ELSE p.list[i]]
  OBVIOUS
<1>2. PICK q : q = [p EXCEPT !.list = l]
  OBVIOUS
<1>3. q = UpdateMessageInState(p, e)
  BY <1>1, <1>2 DEF UpdateMessageInState
<1>4. p.list \in Seq(EntryType)
  BY DEF PageOK, PageType
<1>5. \A i \in DOMAIN p.list : l[i] \in EntryType /\ l[i].id = p.list[i].id
  BY <1>1, <1>4
<1>6. l = [i \in DOMAIN p.list |-> l[i]]
  BY <1>1
<1> QED BY <1>2, <1>3, <1>5, <1>6, EntriesUpdate

LEMMA PinStateUpdates ==
    ASSUME NEW p, PageOK(p), NEW m, NEW b \in BOOLEAN PROVE Updates(p, UpdateMessagePinState(p, m, b))
<1>1. PICK l : l = [i \in DOMAIN p.list |-> IF p.list[i].id = m THEN [p.list[i] EXCEPT !.pinned = b] ELSE p.list[i]]
  OBVIOUS
<1>2. PICK q : q = [p EXCEPT !.list = l]
  OBVIOUS
<1>3. q = UpdateMessagePinState(p, m, b)
  BY <1>1, <1>2 DEF UpdateMessagePinState
<1>4. p.list \in Seq(EntryType)
  BY DEF PageOK, PageType
<1>5. ASSUME NEW i \in DOMAIN p.list PROVE l[i] \in EntryType /\ l[i].id = p.list[i].id
  <2>1. p.list[i] \in EntryType
    BY <1>4
  <2> QED BY <1>1, <2>1, EntryChanged
<1>6. l = [i \in DOMAIN p.list |-> l[i]]
  BY <1>1
<1> QED BY <1>2, <1>3, <1>5, <1>6, EntriesUpdate

LEMMA ReactionsUpdate ==
    ASSUME NEW p, PageOK(p), NEW m, NEW x \in Summaries PROVE Updates(p, UpdateMessageReactions(p, m, x))
<1>1. PICK l : l = [i \in DOMAIN p.list |-> IF p.list[i].id = m THEN [p.list[i] EXCEPT !.reactions = x] ELSE p.list[i]]
  OBVIOUS
<1>2. PICK q : q = [p EXCEPT !.list = l]
  OBVIOUS
<1>3. q = UpdateMessageReactions(p, m, x)
  BY <1>1, <1>2 DEF UpdateMessageReactions
<1>4. p.list \in Seq(EntryType)
  BY DEF PageOK, PageType
<1>5. ASSUME NEW i \in DOMAIN p.list PROVE l[i] \in EntryType /\ l[i].id = p.list[i].id
  <2>1. p.list[i] \in EntryType
    BY <1>4
  <2> QED BY <1>1, <2>1, EntryChanged
<1>6. l = [i \in DOMAIN p.list |-> l[i]]
  BY <1>1
<1> QED BY <1>2, <1>3, <1>5, <1>6, EntriesUpdate

LEMMA MergeIs ==
    ASSUME NEW x \in Summaries, NEW y \in Summaries, NEW b
    PROVE  MergeReactionSummaryForViewer(x, y, b) \in Summaries
<1>1. ASSUME NEW e \in Emojis
      PROVE  (IF y[e].count > 0 THEN [count |-> y[e].count, mine |-> IF b THEN y[e].mine ELSE x[e].mine]
              ELSE IF x[e].mine /\ ~b THEN [count |-> 1, mine |-> TRUE]
              ELSE NoReactions[e]) \in [count: Nat, mine: BOOLEAN]
  <2>1. x[e] \in [count: Nat, mine: BOOLEAN] /\ y[e] \in [count: Nat, mine: BOOLEAN]
    BY DEF Summaries
  <2>2. y[e].count \in Nat /\ y[e].mine \in BOOLEAN /\ x[e].mine \in BOOLEAN
    BY <2>1
  <2>3. NoReactions[e] \in [count: Nat, mine: BOOLEAN]
    BY SummaryIs DEF Summaries
  <2>4. PICK mine : mine = IF b THEN y[e].mine ELSE x[e].mine
    OBVIOUS
  <2>5. mine \in BOOLEAN
    BY <2>2, <2>4
  <2>6. [count |-> y[e].count, mine |-> mine] \in [count: Nat, mine: BOOLEAN]
        /\ [count |-> 1, mine |-> TRUE] \in [count: Nat, mine: BOOLEAN]
    BY <2>2, <2>5
  <2> QED BY <2>3, <2>4, <2>6
<1> QED BY <1>1 DEF MergeReactionSummaryForViewer, Summaries

LEMMA EventReactionsUpdate ==
    ASSUME NEW p, PageOK(p), NEW m, NEW x \in Summaries, NEW b
    PROVE  Updates(p, UpdateMessageReactionsFromEvent(p, m, x, b))
<1>1. PICK l : l = [i \in DOMAIN p.list |->
                     IF p.list[i].id = m
                     THEN [p.list[i] EXCEPT !.reactions = MergeReactionSummaryForViewer(p.list[i].reactions, x, b)]
                     ELSE p.list[i]]
  OBVIOUS
<1>2. PICK q : q = [p EXCEPT !.list = l]
  OBVIOUS
<1>3. q = UpdateMessageReactionsFromEvent(p, m, x, b)
  BY <1>1, <1>2 DEF UpdateMessageReactionsFromEvent
<1>4. p.list \in Seq(EntryType)
  BY DEF PageOK, PageType
<1>5. ASSUME NEW i \in DOMAIN p.list PROVE l[i] \in EntryType /\ l[i].id = p.list[i].id
  <2>1. p.list[i] \in EntryType
    BY <1>4
  <2>2. p.list[i].reactions \in Summaries
    BY <2>1 DEF EntryType, Summaries
  <2>3. PICK y \in Summaries : y = MergeReactionSummaryForViewer(p.list[i].reactions, x, b)
    BY <2>2, MergeIs
  <2>4. p.list[i].id = m => l[i] = [p.list[i] EXCEPT !.reactions = y]
    BY <1>1, <2>3
  <2>5. p.list[i].id # m => l[i] = p.list[i]
    BY <1>1
  <2>6. CASE p.list[i].id = m
    <3>1. PICK e \in EntryType : e = p.list[i]
      BY <2>1
    <3>2. [e EXCEPT !.reactions = y] \in EntryType /\ [e EXCEPT !.reactions = y].id = e.id
      BY EntryChanged
    <3>3. l[i] = [e EXCEPT !.reactions = y]
      BY <2>4, <2>6, <3>1
    <3> QED BY <3>1, <3>2, <3>3
  <2>7. CASE p.list[i].id # m
    BY <2>1, <2>5, <2>7
  <2> QED BY <2>6, <2>7
<1>6. l = [i \in DOMAIN p.list |-> l[i]]
  BY <1>1
<1> QED BY <1>2, <1>3, <1>5, <1>6, EntriesUpdate

\* A message is put in, or taken out.
LEMMA AppendUpdates ==
    ASSUME NEW p, PageOK(p), NEW e \in EntryType PROVE Updates(p, AppendMessage(p, e))
<1>1. CASE p.kind # "success" \/ Shows(p, e.id)
  BY <1>1, SamePage DEF AppendMessage
<1>2. CASE p.kind = "success" /\ ~Shows(p, e.id)
  <2>1. PICK old : old = p.list
    OBVIOUS
  <2>2. PICK l : l = Append(old, e)
    OBVIOUS
  <2>3. PICK q : q = [p EXCEPT !.list = l]
    OBVIOUS
  <2>4. q = AppendMessage(p, e)
    BY <1>2, <2>1, <2>2, <2>3 DEF AppendMessage
  <2>5. old \in Seq(EntryType)
    BY <2>1 DEF PageOK, PageType
  <2>6. /\ l \in Seq(EntryType) /\ DOMAIN l = 1..(Len(old) + 1) /\ DOMAIN old = 1..Len(old) /\ Len(old) \in Nat
        /\ l[Len(old) + 1] = e /\ \A i \in 1..Len(old) : l[i] = old[i]
    BY <2>2, <2>5
  <2>7. \A i \in 1..Len(old) : old[i].id # e.id
    BY <1>2, <2>1, <2>6 DEF Shows
  <2>8. Once(l)
    <3>1. \A i, j \in DOMAIN old : i # j => old[i].id # old[j].id
      BY <2>1 DEF PageOK, Once
    <3>2. \A i, j \in 1..Len(old) : i # j => l[i].id # l[j].id
      BY <2>6, <3>1
    <3>3. \A i \in DOMAIN l : i \in 1..Len(old) \/ i = Len(old) + 1
      BY <2>6
    <3> QED BY <2>6, <2>7, <3>2, <3>3 DEF Once
  <2>9. \A m : Shows(p, m) => \E i \in DOMAIN l : l[i].id = m
    <3> SUFFICES ASSUME NEW m, Shows(p, m) PROVE \E i \in DOMAIN l : l[i].id = m
      OBVIOUS
    <3>1. PICK i \in 1..Len(old) : old[i].id = m
      BY <2>1, <2>6 DEF Shows
    <3>2. i \in DOMAIN l /\ l[i] = old[i]
      BY <2>6
    <3> QED BY <3>1, <3>2
  <2> QED BY <1>2, <2>3, <2>4, <2>6, <2>8, <2>9, ListUpdates
<1> QED BY <1>1, <1>2

LEMMA RemoveUpdates ==
    ASSUME NEW p, PageOK(p), NEW m, Gone(m) PROVE Updates(p, RemoveMessageFromState(p, m))
<1>1. PICK old : old = p.list
  OBVIOUS
<1>2. PICK I : I = {i \in DOMAIN old : old[i].id # m}
  OBVIOUS
<1>3. PICK l : l = KeepAt(old, I)
  OBVIOUS
<1>4. PICK q : q = [p EXCEPT !.list = l]
  OBVIOUS
<1>5. q = RemoveMessageFromState(p, m)
  BY <1>1, <1>2, <1>3, <1>4 DEF RemoveMessageFromState
<1>6. old \in Seq(EntryType)
  BY <1>1 DEF PageOK, PageType
<1>7. /\ l \in Seq(EntryType)
      /\ \A i \in DOMAIN l : \E j \in I : l[i] = old[j]
      /\ \A j \in I : \E i \in DOMAIN l : l[i] = old[j]
      /\ \A i, j \in DOMAIN l : i # j => \E a, b \in I : a # b /\ l[i] = old[a] /\ l[j] = old[b]
  <2>1. I \subseteq DOMAIN old
    BY <1>2
  <2> QED BY <1>3, <1>6, <2>1, KeepAtIs
<1>8. Once(l)
  <2>1. Once(old)
    BY <1>1 DEF PageOK
  <2>2. \A a, b \in I : a # b => old[a].id # old[b].id
    BY <1>2, <2>1 DEF Once
  <2> SUFFICES ASSUME NEW i \in DOMAIN l, NEW j \in DOMAIN l, i # j PROVE l[i].id # l[j].id
    BY DEF Once
  <2>3. PICK a, b \in I : a # b /\ l[i] = old[a] /\ l[j] = old[b]
    BY <1>7
  <2> QED BY <2>2, <2>3
<1>9. p.kind # "success" => l = <<>>
  <2> SUFFICES ASSUME p.kind # "success" PROVE l = <<>>
    OBVIOUS
  <2>1. old = <<>>
    BY <1>1 DEF PageOK
  <2>2. I = {}
    BY <1>2, <2>1
  <2>3. DOMAIN l = {}
    BY <1>7, <2>2
  <2> QED BY <1>7, <2>3
<1>10. ASSUME NEW n, Shows(p, n), ~Gone(n) PROVE \E i \in DOMAIN l : l[i].id = n
  <2>1. PICK j \in DOMAIN old : old[j].id = n
    BY <1>1, <1>10 DEF Shows
  <2>2. j \in I
    BY <1>2, <1>10, <2>1
  <2> QED BY <1>7, <2>1, <2>2
<1> QED BY <1>4, <1>5, <1>7, <1>8, <1>9, <1>10, ListUpdates

\* Older messages are put in front.
LEMMA PrependUpdates ==
    ASSUME NEW p, PageOK(p), NEW items \in Seq(EntryType), Once(items)
    PROVE  /\ Updates(p, PrependMessages(p, items))
           /\ p.kind = "success" => \A i \in DOMAIN items : Shows(PrependMessages(p, items), items[i].id)
<1>1. CASE p.kind # "success"
  BY <1>1, SamePage DEF PrependMessages
<1>2. CASE p.kind = "success"
  <2>1. PICK old : old = p.list
    OBVIOUS
  <2>2. PICK I : I = {i \in DOMAIN items : ~Shows(p, items[i].id)}
    OBVIOUS
  <2>3. PICK new : new = KeepAt(items, I)
    OBVIOUS
  <2>4. PICK l : l = new \o old
    OBVIOUS
  <2>5. PICK q : q = [p EXCEPT !.list = l]
    OBVIOUS
  <2>6. q = PrependMessages(p, items)
    BY <1>2, <2>1, <2>2, <2>3, <2>4, <2>5 DEF PrependMessages
  <2>7. old \in Seq(EntryType) /\ Once(old)
    BY <2>1 DEF PageOK, PageType
  <2>8. /\ new \in Seq(EntryType)
        /\ \A i \in DOMAIN new : \E j \in I : new[i] = items[j]
        /\ \A j \in I : \E i \in DOMAIN new : new[i] = items[j]
        /\ \A i, j \in DOMAIN new : i # j => \E a, b \in I : a # b /\ new[i] = items[a] /\ new[j] = items[b]
    <3>1. I \subseteq DOMAIN items
      BY <2>2
    <3> QED BY <2>3, <3>1, KeepAtIs
  <2>9. Once(new) /\ \A i \in DOMAIN new : ~Shows(p, new[i].id)
    <3>1. \A a, b \in I : a # b => items[a].id # items[b].id
      BY <2>2 DEF Once
    <3>2. ASSUME NEW i \in DOMAIN new, NEW j \in DOMAIN new, i # j PROVE new[i].id # new[j].id
      <4>1. PICK a, b \in I : a # b /\ new[i] = items[a] /\ new[j] = items[b]
        BY <2>8, <3>2
      <4> QED BY <3>1, <4>1
    <3>3. ASSUME NEW i \in DOMAIN new PROVE ~Shows(p, new[i].id)
      <4>1. PICK j \in I : new[i] = items[j]
        BY <2>8
      <4> QED BY <2>2, <4>1
    <3> QED BY <3>2, <3>3 DEF Once
  <2>10. /\ l \in Seq(EntryType) /\ DOMAIN l = 1..(Len(new) + Len(old)) /\ Len(new) \in Nat /\ Len(old) \in Nat
         /\ DOMAIN new = 1..Len(new) /\ DOMAIN old = 1..Len(old)
         /\ \A i \in 1..Len(new) : l[i] = new[i]
         /\ \A i \in 1..Len(old) : l[Len(new) + i] = old[i]
    BY <2>4, <2>7, <2>8
  <2>11. \A i \in DOMAIN l : i \in 1..Len(new) \/ \E j \in 1..Len(old) : i = Len(new) + j
    <3> SUFFICES ASSUME NEW i \in DOMAIN l, i \notin 1..Len(new) PROVE \E j \in 1..Len(old) : i = Len(new) + j
      OBVIOUS
    <3>1. i - Len(new) \in 1..Len(old) /\ i = Len(new) + (i - Len(new))
      BY <2>10
    <3> QED BY <3>1
  <2>12. \A i \in 1..Len(new), j \in 1..Len(old) : new[i].id # old[j].id
    BY <2>1, <2>9, <2>10 DEF Shows
  <2>13. Once(l)
    <3> SUFFICES ASSUME NEW i \in DOMAIN l, NEW j \in DOMAIN l, i # j PROVE l[i].id # l[j].id
      BY DEF Once
    <3>1. CASE i \in 1..Len(new) /\ j \in 1..Len(new)
      BY <2>9, <2>10, <3>1 DEF Once
    <3>2. ASSUME NEW a \in 1..Len(old), i = Len(new) + a, j \in 1..Len(new) PROVE l[i].id # l[j].id
      BY <2>10, <2>12, <3>2
    <3>3. ASSUME NEW a \in 1..Len(old), j = Len(new) + a, i \in 1..Len(new) PROVE l[i].id # l[j].id
      BY <2>10, <2>12, <3>3
    <3>4. ASSUME NEW a \in 1..Len(old), i = Len(new) + a, NEW b \in 1..Len(old), j = Len(new) + b
          PROVE  l[i].id # l[j].id
      <4>1. a # b
        BY <3>4
      <4>2. old[a].id # old[b].id
        BY <2>7, <2>10, <4>1 DEF Once
      <4> QED BY <2>10, <3>4, <4>2
    <3> QED BY <2>11, <3>1, <3>2, <3>3, <3>4
  <2>14. ASSUME NEW m, Shows(p, m) PROVE \E i \in DOMAIN l : l[i].id = m
    <3>1. PICK j \in 1..Len(old) : old[j].id = m
      BY <2>1, <2>10, <2>14 DEF Shows
    <3>2. Len(new) + j \in DOMAIN l /\ l[Len(new) + j] = old[j]
      BY <2>10
    <3> QED BY <3>1, <3>2
  <2>15. Updates(p, q)
    BY <1>2, <2>5, <2>10, <2>13, <2>14, ListUpdates
  <2>16. q.list = l
    BY <2>5, <2>10, ListSet DEF PageOK
  <2>17. ASSUME NEW i \in DOMAIN items PROVE Shows(q, items[i].id)
    <3>1. CASE Shows(p, items[i].id)
      BY <2>14, <2>16, <3>1 DEF Shows
    <3>2. CASE ~Shows(p, items[i].id)
      <4>1. PICK j \in DOMAIN new : new[j] = items[i]
        BY <2>2, <2>8, <3>2
      <4>2. j \in DOMAIN l /\ l[j] = new[j]
        BY <2>10
      <4> QED BY <2>16, <4>1, <4>2 DEF Shows
    <3> QED BY <3>1, <3>2
  <2> QED BY <2>6, <2>15, <2>17
<1> QED BY <1>1, <1>2

-----------------------------------------------------------------------------
(*****************************************************************************)
(* Nothing is skipped.  A list on its way to a page has, down to where it    *)
(* ends, every live message the page knew of; older ones are asked for from  *)
(* where the page ends, unless the page has been opened anew since.          *)
(*****************************************************************************)
\* The call has its list; the list has everything of S from the call's cursor down to its own.
HasList(q) == q.op \in Listing /\ (q.at = "listed" \/ (q.at = "answered" /\ q.reply # Refused))
Ends(k, cursor) == cursor = None \/ ~Before(k, cursor)
Reaches(S, q) ==
    \A m \in S : Live(m) /\ WithinCursor(KeyOf(m), q.arg) /\ Ends(KeyOf(m), q.reply.nextCursor)
                 => \E i \in DOMAIN q.reply.items : q.reply.items[i].id = m

\* The list a page asks for when it is opened, and the older ones it asks for.
PageCall(t) == request[<<t, "page">>]
OlderCall(t) == request[<<t, "older">>]
PagesOK == \A t \in Tabs : PageOK(page[t]) /\ (PageCall(t).op # "none" => page[t].kind = "loading")
CallsGone == \A r \in Slots : CallGone(request[r])
EventsGone == \A t \in Tabs : \A i \in DOMAIN stream[t] :
                 stream[t][i].type = "deleted" => Gone(stream[t][i].msg)
ListsOnce == \A r \in Slots : HasList(request[r]) => Once(request[r].reply.items)
KnownKept == \A t \in Tabs : known[t] \subseteq Committed

FirstPage(t) == HasList(PageCall(t)) => Reaches(known[t], PageCall(t))
OlderPage(t) ==
    Whole(t) /\ OlderCall(t).op # "none" =>
        /\ page[t].kind = "success" /\ OlderCall(t).arg = page[t].cursor
        /\ HasList(OlderCall(t)) => Reaches(known[t], OlderCall(t))
NoGap(t) == page[t].kind = "success" /\ Whole(t) =>
                \A m \in known[t] : Live(m) /\ InView(t, m) => Shows(page[t], m)

VInv == /\ Typed /\ PagesOK /\ CallsGone /\ EventsGone /\ ListsOnce /\ KnownKept
        /\ \A t \in Tabs : FirstPage(t) /\ OlderPage(t) /\ NoGap(t)

-----------------------------------------------------------------------------
\* What the history remembers of the pages.
LEMMA HistoryOfPages ==
    ASSUME History, NEW t \in Tabs
    PROVE  /\ Whole(t)' => IF t \in Opened THEN IsFree(<<t, "older">>) ELSE Whole(t)
           /\ \/ known'[t] = known[t]
              \/ /\ known'[t] = Committed
                 /\ Handling(<<t, "page">>, "load", "called") /\ ~Handling(<<t, "page">>, "load", "called")'
<1>1. \/ known'[t] = known[t]
      \/ /\ known'[t] = Committed
         /\ Handling(<<t, "page">>, "load", "called") /\ ~Handling(<<t, "page">>, "load", "called")'
  <2>1. known' = [u \in Tabs |->
           IF Handling(<<u, "page">>, "load", "called") /\ ~Handling(<<u, "page">>, "load", "called")'
           THEN Committed ELSE known[u]]
    BY DEF History
  <2> QED BY <2>1
<1>2. /\ {c \in crossed : c[1] \notin Opened} \subseteq crossed' /\ Spoilt \subseteq crossed'
  <2> DEFINE kept == {c \in crossed : c[1] \notin Opened}
             lost == Lost \ (Opened \X Msgs)
  <2>1. crossed' = {c : c \in kept \cup lost \cup Crossing' \cup Spoilt}
    BY DEF History
  <2> HIDE DEF kept, lost
  <2>2. crossed' = kept \cup lost \cup Crossing' \cup Spoilt
    BY <2>1
  <2> QED BY <2>2 DEF kept
<1>3. ASSUME Whole(t)' PROVE IF t \in Opened THEN IsFree(<<t, "older">>) ELSE Whole(t)
  <2> DEFINE c == <<t, NoMsg>>
  <2>1. c \notin crossed'
    BY <1>3 DEF Whole
  <2>2. c \notin Spoilt /\ (c \in crossed => t \in Opened)
    BY <1>2, <2>1
  <2>3. t \in Opened => IsFree(<<t, "older">>)
    BY <2>2 DEF Spoilt
  <2> QED BY <2>2, <2>3 DEF Whole
<1> QED BY <1>1, <1>3

LEMMA SlotsOf ==
    ASSUME NEW t \in Tabs
    PROVE  /\ <<t, "page">> \in Slots /\ <<t, "older">> \in Slots /\ <<t, "user">> \in Slots
           /\ <<t, "page">> # <<t, "older">> /\ <<t, "page">> # <<t, "user">> /\ <<t, "older">> # <<t, "user">>
BY DEF Slots

LEMMA NotOpened ==
    ASSUME Typed, NEW t \in Tabs, PageCall(t).op = "none" => PageCall(t)'.op = "none",
           CallMade(<<t, "page">>, PageCall(t))'
    PROVE  t \notin Opened
<1>1. PageCall(t) = IdleCall => PageCall(t).op = "none"
  BY DEF IdleCall
<1>2. PageCall(t)'.op = "none" => PageCall(t)' = IdleCall
  BY DEF CallMade
<1> QED BY <1>1, <1>2 DEF Opened, IsFree, PageCall

-----------------------------------------------------------------------------
(* A handler's step. *)
LEMMA HandlesTyped ==
    ASSUME VInv, NEW r \in Slots, Handles(r)
    PROVE  Typed' /\ CallsGone' /\ EventsGone'
<1>1. Typed /\ CallsGone /\ EventsGone
  BY DEF VInv
<1>2. \A m : Gone(m) => Gone(m)'
  BY GoneStays DEF Handles
<1>3. stream' \in [Tabs -> Seq(EventType)] /\ EventsGone'
  <2>1. CASE stream' = stream
    BY <1>1, <1>2, <2>1 DEF Typed, EventsGone
  <2>2. ASSUME NEW e \in EventType, \A t \in Tabs : stream'[t] \in {stream[t], Append(stream[t], e)},
               stream' = [t \in Tabs |-> stream'[t]], e.type = "deleted" => Gone(e.msg)
        PROVE  stream' \in [Tabs -> Seq(EventType)] /\ EventsGone'
    <3>1. ASSUME NEW t \in Tabs PROVE stream[t] \in Seq(EventType) /\ Append(stream[t], e) \in Seq(EventType)
      BY <1>1 DEF Typed
    <3>2. stream' \in [Tabs -> Seq(EventType)]
      BY <2>2, <3>1
    <3>3. ASSUME NEW t \in Tabs, NEW i \in DOMAIN stream'[t], stream'[t][i].type = "deleted",
                 NEW m, m = stream'[t][i].msg
          PROVE  Gone(m)'
      <4>1. CASE stream'[t] = stream[t]
        <5>1. Gone(m)
          BY <1>1, <3>3, <4>1 DEF EventsGone
        <5> QED BY <1>2, <5>1
      <4>2. CASE stream'[t] = Append(stream[t], e)
        <5>1. (i \in DOMAIN stream[t] /\ stream'[t][i] = stream[t][i]) \/ stream'[t][i] = e
          BY <3>1, <3>3, <4>2
        <5>2. Gone(m)
          BY <1>1, <2>2, <3>3, <5>1 DEF EventsGone
        <5> QED BY <1>2, <5>2
      <4> QED BY <2>2, <4>1, <4>2
    <3> QED BY <3>2, <3>3 DEF EventsGone
  <2> QED BY <2>1, <2>2 DEF Handles, Tells
<1>4. ASSUME NEW s \in Slots PROVE (CallMade(s, request[s]) /\ CallAnswered(request[s]) /\ CallGone(request[s]))'
  <2>1. CASE s = r
    BY <2>1 DEF Handles
  <2>2. CASE s # r
    <3>1. request'[s] = request[s]
      BY <2>2 DEF Handles
    <3>2. CallMade(s, request[s]) /\ CallAnswered(request[s]) /\ CallGone(request[s])
      BY <1>1 DEF Typed, CallsGone
    <3>3. CallMade(s, request'[s]) /\ CallAnswered(request'[s])
      BY <3>1, <3>2
    <3>4. CallGone(request[s])'
      BY <1>2, <3>1, <3>2 DEF CallGone, Handles, RowsGrow
    <3> QED BY <3>3, <3>4
  <2> QED BY <2>1, <2>2
<1>5. CallsGone'
  BY <1>4 DEF CallsGone
<1>6. Typed'
  BY <1>1, <1>3, <1>4 DEF Typed, Handles, RowsGrow
<1> QED BY <1>3, <1>5, <1>6

-----------------------------------------------------------------------------
\* A message that is live was, and is where it was.
LEMMA GrowsBack ==
    ASSUME RowsGrow, NEW m \in Committed
    PROVE  (Live(m)' => Live(m)) /\ KeyOf(m)' = KeyOf(m) /\ m \in Committed'
BY DEF RowsGrow, Live, Committed, KeyOf

LEMMA ReachesStays ==
    ASSUME RowsGrow, NEW S \in SUBSET Committed, NEW q, Reaches(S, q) PROVE Reaches(S, q)'
<1> SUFFICES ASSUME NEW m \in S, Live(m)', WithinCursor(KeyOf(m)', q.arg), Ends(KeyOf(m)', q.reply.nextCursor)
             PROVE  \E i \in DOMAIN q.reply.items : q.reply.items[i].id = m
  BY DEF Reaches
<1>1. Live(m) /\ KeyOf(m)' = KeyOf(m)
  BY GrowsBack
<1> QED BY <1>1 DEF Reaches

\* A list, when it is made, has every live message before the cursor down to its end,
\* each once; later it is handed on.
LEMMA ListsReach ==
    ASSUME VInv, NEW r \in Slots, Handles(r), request[r].op \in Listing,
           NEW q, q = request'[r], HasList(q), NEW S \in SUBSET Committed,
           HasList(request[r]) => Reaches(S, request[r])
    PROVE  Once(q.reply.items) /\ Reaches(S, q)'
<1>1. PICK a : a = q.reply
  OBVIOUS
<1>2. q.op = request[r].op /\ q.arg = request[r].arg /\ RowsGrow
  BY DEF Handles
<1>3. ~(q.at = "answered" /\ a = Refused)
  BY <1>1 DEF HasList
<1>4. CASE request[r].at = "called" /\ ListIs(a, PageOf(request[r].arg).ids, NextCursor(PageOf(request[r].arg)))
  <2>1. PICK p : p = PageOf(request[r].arg)
    OBVIOUS
  <2>2. Dated
    BY TypedDated DEF VInv
  <2>3. /\ \A i, j \in DOMAIN p.ids : i # j => p.ids[i] # p.ids[j]
        /\ \A m \in Msgs : Live(m) /\ WithinCursor(KeyOf(m), request[r].arg)
                           /\ (NextCursor(p) = None \/ ~Before(KeyOf(m), NextCursor(p)))
                           => \E i \in DOMAIN p.ids : p.ids[i] = m
    BY <2>1, <2>2, PageOfIs
  <2>4. DOMAIN a.items = DOMAIN p.ids /\ a.nextCursor = NextCursor(p) /\ \A i \in DOMAIN p.ids : a.items[i].id = p.ids[i]
    BY <1>4, <2>1 DEF ListIs
  <2>5. Once(a.items)
    BY <2>3, <2>4 DEF Once
  <2>6. Reaches(S, q)
    <3> SUFFICES ASSUME NEW m \in S, Live(m), WithinCursor(KeyOf(m), q.arg), Ends(KeyOf(m), a.nextCursor)
                 PROVE  \E i \in DOMAIN a.items : a.items[i].id = m
      BY <1>1 DEF Reaches
    <3>1. m \in Msgs
      BY DEF Committed
    <3>2. PICK i \in DOMAIN p.ids : p.ids[i] = m
      BY <1>2, <2>3, <2>4, <3>1 DEF Ends
    <3> QED BY <2>4, <3>2
  <2> QED BY <1>1, <1>2, <2>5, <2>6, ReachesStays
<1>5. CASE /\ request[r].at = "listed"
           /\ ListIs(a, [i \in DOMAIN request[r].reply.items |-> request[r].reply.items[i].id],
                     request[r].reply.nextCursor)
  <2>1. PICK b : b = request[r].reply
    OBVIOUS
  <2>2. DOMAIN a.items = DOMAIN b.items /\ a.nextCursor = b.nextCursor /\ \A i \in DOMAIN b.items : a.items[i].id = b.items[i].id
    BY <1>5, <2>1 DEF ListIs
  <2>3. HasList(request[r])
    BY <1>5 DEF HasList
  <2>4. Once(b.items)
    BY <2>1, <2>3 DEF VInv, ListsOnce
  <2>5. Once(a.items)
    BY <2>2, <2>4 DEF Once
  <2>6. Reaches(S, q)
    <3>1. Reaches(S, request[r])
      BY <2>3
    <3> SUFFICES ASSUME NEW m \in S, Live(m), WithinCursor(KeyOf(m), q.arg), Ends(KeyOf(m), a.nextCursor)
                 PROVE  \E i \in DOMAIN a.items : a.items[i].id = m
      BY <1>1 DEF Reaches
    <3>2. PICK i \in DOMAIN b.items : b.items[i].id = m
      BY <1>2, <2>1, <2>2, <3>1 DEF Reaches
    <3> QED BY <2>2, <3>2
  <2> QED BY <1>1, <1>2, <2>5, <2>6, ReachesStays
<1> QED BY <1>1, <1>3, <1>4, <1>5 DEF Handles, Lists

LEMMA HandlesKeep ==
    ASSUME VInv, History, NEW r \in Slots, Handles(r)
    PROVE  VInv'
<1>1. Typed' /\ CallsGone' /\ EventsGone' /\ Typed /\ PagesOK /\ ListsOnce /\ KnownKept
  BY HandlesTyped DEF VInv
<1>2. RowsGrow /\ page' = page
  BY DEF Handles
<1>3. ASSUME NEW s \in Slots
      PROVE  /\ request'[s].op = request[s].op /\ request'[s].arg = request[s].arg
             /\ s # r => request'[s] = request[s]
             /\ s = r => request[s].op # "none"
  <2>1. CASE s = r
    BY <2>1 DEF Handles
  <2>2. CASE s # r
    BY <2>2 DEF Handles
  <2> QED BY <2>1, <2>2
<1>4. ASSUME NEW t \in Tabs
      PROVE  /\ PageCall(t)'.op = PageCall(t).op /\ OlderCall(t)'.op = OlderCall(t).op
             /\ OlderCall(t)'.arg = OlderCall(t).arg /\ PageCall(t)' = request'[<<t, "page">>]
             /\ OlderCall(t)' = request'[<<t, "older">>]
  BY <1>3, SlotsOf DEF PageCall, OlderCall
<1>5. PagesOK'
  BY <1>1, <1>2, <1>4 DEF PagesOK
<1>6. KnownKept' /\ \A t \in Tabs : known'[t] \subseteq Committed
  <2>1. \A t \in Tabs : known'[t] \subseteq Committed
    BY <1>1, HistoryOfPages DEF KnownKept
  <2>2. Committed \subseteq Committed'
    BY <1>2, GrowsBack
  <2> QED BY <2>1, <2>2 DEF KnownKept
<1>7. ListsOnce'
  <2> SUFFICES ASSUME NEW s \in Slots, HasList(request[s])' PROVE Once(request'[s].reply.items)
    BY DEF ListsOnce
  <2>1. CASE s # r
    BY <1>1, <1>3, <2>1 DEF ListsOnce, HasList
  <2>2. CASE s = r
    <3>1. PICK q : q = request'[s]
      OBVIOUS
    <3>2. HasList(q) /\ request[s].op \in Listing
      BY <1>3, <3>1 DEF HasList
    <3>3. {} \in SUBSET Committed /\ Reaches({}, request[s])
      BY DEF Reaches
    <3> QED BY <2>2, <3>1, <3>2, <3>3, ListsReach
  <2> QED BY <2>1, <2>2
<1>8. ASSUME NEW t \in Tabs
      PROVE  /\ t \notin Opened /\ (Whole(t)' => Whole(t))
             /\ known'[t] = known[t] \/ (Handling(<<t, "page">>, "load", "called") /\ r = <<t, "page">>)
  <2>1. CallMade(<<t, "page">>, PageCall(t))'
    BY <1>1, SlotsOf DEF Typed, PageCall
  <2>2. t \notin Opened
    BY <1>1, <1>4, <2>1, NotOpened
  <2>3. r # <<t, "page">> => (Handling(<<t, "page">>, "load", "called")' <=> Handling(<<t, "page">>, "load", "called"))
    BY <1>3, SlotsOf DEF Handling
  <2> QED BY <2>2, <2>3, HistoryOfPages
\* A list that has been made, or handed on, or is where it was.
<1>9. ASSUME NEW s \in Slots, HasList(request[s])', NEW S \in SUBSET Committed,
             HasList(request[s]) => Reaches(S, request[s]), NEW q, q = request'[s]
      PROVE  Reaches(S, q)'
  <2>1. CASE s # r
    <3>1. q = request[s] /\ HasList(request[s])
      BY <1>3, <1>9, <2>1 DEF HasList
    <3> QED BY <1>2, <1>9, <3>1, ReachesStays
  <2>2. CASE s = r
    <3>1. HasList(q) /\ request[s].op \in Listing
      BY <1>3, <1>9 DEF HasList
    <3> QED BY <1>9, <2>2, <3>1, ListsReach
  <2> QED BY <2>1, <2>2
<1>10. ASSUME NEW t \in Tabs PROVE FirstPage(t)'
  <2> SUFFICES ASSUME HasList(PageCall(t))' PROVE Reaches(known[t], PageCall(t))'
    BY DEF FirstPage
  <2>1. PICK s : s = <<t, "page">>
    OBVIOUS
  <2>2. PICK S : S = known'[t]
    OBVIOUS
  <2>3. PICK q : q = request'[s]
    OBVIOUS
  <2>4. s \in Slots /\ PageCall(t) = request[s] /\ PageCall(t)' = q
    BY <2>1, <2>3, SlotsOf DEF PageCall
  <2>5. S \in SUBSET Committed
    BY <1>6, <2>2
  <2>6. HasList(request[s]) => Reaches(S, request[s])
    <3>1. ASSUME HasList(request[s]) PROVE S = known[t]
      BY <1>8, <2>1, <2>2, <3>1 DEF HasList, Handling
    <3>2. FirstPage(t)
      BY DEF VInv
    <3> QED BY <2>4, <3>1, <3>2 DEF FirstPage
  <2>7. HasList(request[s])'
    BY <2>1, <2>4 DEF PageCall
  <2>8. Reaches(S, q)'
    BY <1>9, <2>3, <2>4, <2>5, <2>6, <2>7
  <2> QED BY <2>2, <2>4, <2>8
<1>11. ASSUME NEW t \in Tabs PROVE OlderPage(t)'
  <2> SUFFICES ASSUME Whole(t)', OlderCall(t)'.op # "none"
               PROVE  /\ page'[t].kind = "success" /\ OlderCall(t)'.arg = page'[t].cursor
                      /\ HasList(OlderCall(t))' => Reaches(known[t], OlderCall(t))'
    BY DEF OlderPage
  <2>1. Whole(t) /\ OlderCall(t).op # "none"
    BY <1>4, <1>8
  <2>2. /\ page[t].kind = "success" /\ OlderCall(t).arg = page[t].cursor
        /\ HasList(OlderCall(t)) => Reaches(known[t], OlderCall(t))
    BY <2>1 DEF VInv, OlderPage
  <2>3. page'[t].kind = "success" /\ OlderCall(t)'.arg = page'[t].cursor
    BY <1>2, <1>4, <2>2
  <2>4. PICK s : s = <<t, "older">>
    OBVIOUS
  <2>5. PICK S : S = known'[t]
    OBVIOUS
  <2>6. PICK q : q = request'[s]
    OBVIOUS
  <2>7. s \in Slots /\ OlderCall(t) = request[s] /\ OlderCall(t)' = q
    BY <2>4, <2>6, SlotsOf DEF OlderCall
  <2>8. S = known[t] /\ S \in SUBSET Committed
    <3>1. PageCall(t).op = "none"
      BY <1>1, <2>2 DEF PagesOK
    <3>2. ~Handling(<<t, "page">>, "load", "called")
      BY <3>1 DEF Handling, PageCall
    <3> QED BY <1>6, <1>8, <2>5, <3>2
  <2>9. ASSUME HasList(OlderCall(t))' PROVE Reaches(S, q)'
    <3>1. HasList(request[s])'
      BY <2>4, <2>9 DEF OlderCall
    <3>2. HasList(request[s]) => Reaches(S, request[s])
      BY <2>2, <2>7, <2>8
    <3> QED BY <1>9, <2>6, <2>7, <2>8, <3>1, <3>2
  <2> QED BY <2>3, <2>5, <2>7, <2>9
<1>12. ASSUME NEW t \in Tabs PROVE NoGap(t)'
  <2> SUFFICES ASSUME page'[t].kind = "success", Whole(t)', NEW m \in known'[t], Live(m)', InView(t, m)'
               PROVE  Shows(page'[t], m)
    BY DEF NoGap
  <2>1. page[t].kind = "success" /\ Whole(t)
    BY <1>2, <1>8
  <2>2. PageCall(t).op = "none"
    BY <1>1, <2>1 DEF PagesOK
  <2>3. ~Handling(<<t, "page">>, "load", "called")
    BY <2>2 DEF Handling, PageCall
  <2>4. m \in known[t] /\ m \in Committed
    BY <1>6, <1>8, <2>3
  <2>5. Live(m) /\ KeyOf(m)' = KeyOf(m)
    BY <1>2, <2>4, GrowsBack
  <2>6. InView(t, m)
    BY <1>2, <2>5 DEF InView
  <2>7. Shows(page[t], m)
    BY <2>1, <2>4, <2>5, <2>6 DEF VInv, NoGap
  <2> QED BY <1>2, <2>7
<1> QED BY <1>1, <1>5, <1>6, <1>7, <1>10, <1>11, <1>12 DEF VInv

-----------------------------------------------------------------------------
(*****************************************************************************)
(* A step of a page: the server stays, the calls of the page begin or end.   *)
(*****************************************************************************)
\* A step of page t leaves the server and the other pages alone.
Fresh(s, q) == CallMade(s, q) /\ q.at \in {"idle", "called"}
PageFrame(t) ==
    /\ UNCHANGED server /\ joined' \subseteq Tabs
    /\ stream' = [u \in Tabs |-> stream'[u]]
    /\ \A u \in Tabs : \/ stream'[u] = stream[u] \/ stream'[u] = <<>>
                       \/ stream[u] # <<>> /\ stream'[u] = Tail(stream[u])
    /\ page' = [u \in Tabs |-> page'[u]] /\ \A u \in Tabs \ {t} : page'[u] = page[u]
    /\ \A s \in Slots : request'[s] = request[s] \/ (s[1] = t /\ Fresh(s, request'[s]))

LEMMA RowsSame ==
    ASSUME UNCHANGED server
    PROVE  /\ UNCHANGED <<kind, row, reaction>> /\ Committed' = Committed
           /\ \A m : (Live(m)' <=> Live(m)) /\ KeyOf(m)' = KeyOf(m) /\ (Gone(m)' <=> Gone(m))
           /\ \A S, q : Reaches(S, q)' <=> Reaches(S, q)
<1>1. UNCHANGED <<kind, row, reaction>>
  BY DEF server
<1>2. Committed' = Committed /\ \A m : (Live(m)' <=> Live(m)) /\ KeyOf(m)' = KeyOf(m)
  BY <1>1 DEF Committed, Live, KeyOf
<1>3. \A m : Gone(m)' <=> Gone(m)
  BY <1>1, <1>2 DEF Gone
<1>4. \A S, q : Reaches(S, q)' <=> Reaches(S, q)
  BY <1>2 DEF Reaches
<1> QED BY <1>1, <1>2, <1>3, <1>4

LEMMA FreshIs ==
    ASSUME NEW s, NEW q, Fresh(s, q)
    PROVE  CallMade(s, q) /\ CallAnswered(q) /\ CallGone(q) /\ ~HasList(q)
BY DEF Fresh, CallAnswered, CallGone, AnswerIn, HasList

LEMMA FrameTyped ==
    ASSUME VInv, NEW t \in Tabs, PageFrame(t), page'[t] \in PageType
    PROVE  Typed' /\ CallsGone' /\ EventsGone' /\ ListsOnce'
<1>1. Typed /\ CallsGone /\ EventsGone /\ ListsOnce
  BY DEF VInv
<1>2. UNCHANGED <<kind, row, reaction>> /\ \A m : Gone(m)' <=> Gone(m)
  BY RowsSame DEF PageFrame
<1>3. ASSUME NEW u \in Tabs
      PROVE  stream'[u] \in Seq(EventType)
             /\ \A i \in DOMAIN stream'[u] : \E j \in DOMAIN stream[u] : stream'[u][i] = stream[u][j]
  <2>1. PICK a : a = stream[u]
    OBVIOUS
  <2>2. PICK b : b = stream'[u]
    OBVIOUS
  <2>3. a \in Seq(EventType) /\ (b = a \/ b = <<>> \/ (a # <<>> /\ b = Tail(a)))
    BY <1>1, <2>1, <2>2 DEF Typed, PageFrame
  <2>4. CASE b = a
    BY <2>1, <2>2, <2>3, <2>4
  <2>5. CASE b = <<>>
    <3>1. <<>> \in Seq(EventType) /\ DOMAIN <<>> = {}
      OBVIOUS
    <3> QED BY <2>2, <2>5, <3>1
  <2>6. CASE a # <<>> /\ b = Tail(a)
    <3>1. b \in Seq(EventType) /\ \A i \in DOMAIN b : i + 1 \in DOMAIN a /\ b[i] = a[i + 1]
      BY <2>3, <2>6
    <3> QED BY <2>1, <2>2, <3>1
  <2> QED BY <2>3, <2>4, <2>5, <2>6
<1>4. EventsGone'
  <2> SUFFICES ASSUME NEW u \in Tabs, NEW i \in DOMAIN stream'[u], stream'[u][i].type = "deleted",
                      NEW m, m = stream'[u][i].msg
               PROVE  Gone(m)'
    BY DEF EventsGone
  <2>1. PICK j \in DOMAIN stream[u] : stream'[u][i] = stream[u][j]
    BY <1>3
  <2>2. Gone(m)
    BY <1>1, <2>1 DEF EventsGone
  <2> QED BY <1>2, <2>2
<1>5. stream' \in [Tabs -> Seq(EventType)]
  BY <1>3 DEF PageFrame
<1>6. page' \in [Tabs -> PageType]
  <2>1. \A u \in Tabs : page'[u] \in PageType
    BY <1>1 DEF Typed, PageFrame
  <2> QED BY <2>1 DEF PageFrame
<1>7. ASSUME NEW s \in Slots
      PROVE  /\ CallMade(s, request'[s]) /\ CallAnswered(request'[s]) /\ CallGone(request[s])'
             /\ HasList(request'[s]) => Once(request'[s].reply.items)
  <2>1. PICK q : q = request'[s]
    OBVIOUS
  <2>2. CallMade(s, q) /\ CallAnswered(q) /\ CallGone(q) /\ (HasList(q) => Once(q.reply.items))
    <3>1. CASE q = request[s]
      BY <1>1, <2>1, <3>1 DEF Typed, CallsGone, ListsOnce
    <3>2. CASE Fresh(s, q)
      BY <3>2, FreshIs
    <3> QED BY <2>1, <3>1, <3>2 DEF PageFrame
  <2>3. CallGone(q)'
    BY <1>2, <2>2, RowsSame DEF CallGone, PageFrame
  <2> QED BY <2>1, <2>2, <2>3
<1>8. Typed'
  BY <1>1, <1>2, <1>5, <1>6, <1>7 DEF Typed, PageFrame
<1>9. CallsGone' /\ ListsOnce'
  BY <1>7 DEF CallsGone, ListsOnce, HasList
<1> QED BY <1>4, <1>8, <1>9

LEMMA OtherSlots ==
    ASSUME NEW t \in Tabs, PageFrame(t), NEW u \in Tabs, u # t
    PROVE  PageCall(u)' = PageCall(u) /\ OlderCall(u)' = OlderCall(u) /\ page'[u] = page[u]
<1>1. PICK p : p = <<u, "page">>
  OBVIOUS
<1>2. PICK o : o = <<u, "older">>
  OBVIOUS
<1>3. p \in Slots /\ o \in Slots /\ p[1] # t /\ o[1] # t
  BY <1>1, <1>2, SlotsOf
<1>4. request'[p] = request[p] /\ request'[o] = request[o]
  BY <1>3 DEF PageFrame
<1> QED BY <1>1, <1>2, <1>4 DEF PageFrame, PageCall, OlderCall

LEMMA FrameKnown ==
    ASSUME VInv, History, NEW t \in Tabs, PageFrame(t), PageCall(t)' = PageCall(t) \/ PageCall(t).at # "called"
    PROVE  /\ KnownKept'
           /\ \A u \in Tabs : known'[u] = known[u] /\ known[u] \in SUBSET Committed
           /\ \A u \in Tabs : PageCall(u)' = PageCall(u) => (Whole(u)' => Whole(u))
<1>1. ASSUME NEW u \in Tabs PROVE known'[u] = known[u]
  <2>1. CASE PageCall(u)' = PageCall(u)
    <3>1. Handling(<<u, "page">>, "load", "called")' <=> Handling(<<u, "page">>, "load", "called")
      BY <2>1 DEF Handling, PageCall
    <3> QED BY <3>1, HistoryOfPages
  <2>2. CASE PageCall(u).at # "called"
    <3>1. ~Handling(<<u, "page">>, "load", "called")
      BY <2>2 DEF Handling, PageCall
    <3> QED BY <3>1, HistoryOfPages
  <2> QED BY <2>1, <2>2, OtherSlots
<1>2. ASSUME NEW u \in Tabs, PageCall(u)' = PageCall(u), Whole(u)' PROVE Whole(u)
  <2>1. u \notin Opened
    BY <1>2 DEF Opened, IsFree, PageCall
  <2> QED BY <1>2, <2>1, HistoryOfPages
<1>3. \A u \in Tabs : known[u] \in SUBSET Committed
  BY DEF VInv, KnownKept
<1>4. Committed' = Committed
  BY RowsSame DEF PageFrame
<1> QED BY <1>1, <1>2, <1>3, <1>4 DEF KnownKept

LEMMA FrameKeeps ==
    ASSUME VInv, History, NEW t \in Tabs, PageFrame(t),
           PageCall(t)' = PageCall(t) \/ PageCall(t).at # "called",
           PageOK(page'[t]), PageCall(t)'.op # "none" => page'[t].kind = "loading",
           FirstPage(t)', OlderPage(t)', NoGap(t)'
    PROVE  VInv'
<1>1. Typed' /\ CallsGone' /\ EventsGone' /\ ListsOnce'
  BY FrameTyped DEF PageOK
<1>2. KnownKept' /\ \A u \in Tabs : known'[u] = known[u]
  BY FrameKnown
<1>3. PagesOK'
  <2> SUFFICES ASSUME NEW u \in Tabs
               PROVE  PageOK(page'[u]) /\ (PageCall(u)'.op # "none" => page'[u].kind = "loading")
    BY DEF PagesOK
  <2>1. CASE u = t
    BY <2>1
  <2>2. CASE u # t
    BY <2>2, OtherSlots DEF VInv, PagesOK
  <2> QED BY <2>1, <2>2
<1>4. ASSUME NEW u \in Tabs PROVE FirstPage(u)' /\ OlderPage(u)' /\ NoGap(u)'
  <2>1. CASE u = t
    BY <2>1
  <2>2. CASE u # t
    <3>1. PageCall(u)' = PageCall(u) /\ OlderCall(u)' = OlderCall(u) /\ page'[u] = page[u] /\ known'[u] = known[u]
      BY <1>2, <2>2, OtherSlots
    <3>2. (Whole(u)' => Whole(u)) /\ FirstPage(u) /\ OlderPage(u) /\ NoGap(u)
      BY <3>1, FrameKnown DEF VInv
    <3>3. PICK S : S = known[u]
      OBVIOUS
    <3>4. PICK p : p = PageCall(u)
      OBVIOUS
    <3>5. PICK o : o = OlderCall(u)
      OBVIOUS
    <3>6. (Reaches(S, p)' <=> Reaches(S, p)) /\ (Reaches(S, o)' <=> Reaches(S, o))
      BY RowsSame DEF PageFrame
    <3>7. FirstPage(u)'
      BY <3>1, <3>2, <3>3, <3>4, <3>6 DEF FirstPage
    <3>8. OlderPage(u)'
      BY <3>1, <3>2, <3>3, <3>5, <3>6 DEF OlderPage
    <3>9. NoGap(u)'
      <4>1. \A m : (Live(m)' <=> Live(m)) /\ KeyOf(m)' = KeyOf(m)
        BY RowsSame DEF PageFrame
      <4> QED BY <3>1, <3>2, <4>1 DEF NoGap, InView
    <3> QED BY <3>7, <3>8, <3>9
  <2> QED BY <2>1, <2>2
<1> QED BY <1>1, <1>2, <1>3, <1>4 DEF VInv

\* The page goes on with what it shows.
LEMMA UpdateKeepsV ==
    ASSUME VInv, History, NEW t \in Tabs, PageFrame(t),
           PageCall(t)' = PageCall(t), OlderCall(t)' = OlderCall(t), Updates(page[t], page'[t])
    PROVE  VInv'
<1>1. PICK b : b = page'[t]
  OBVIOUS
<1>2. PageOK(b) /\ b.kind = page[t].kind /\ b.cursor = page[t].cursor /\ \A m : Shows(page[t], m) /\ ~Gone(m) => Shows(b, m)
  BY <1>1 DEF Updates
<1>3. PageCall(t)'.op # "none" => b.kind = "loading"
  BY <1>2 DEF VInv, PagesOK
<1>4. known'[t] = known[t] /\ known[t] \in SUBSET Committed /\ (Whole(t)' => Whole(t)) /\ FirstPage(t) /\ OlderPage(t) /\ NoGap(t)
  BY FrameKnown DEF VInv
<1>5. PICK S : S = known[t]
  OBVIOUS
<1>6. PICK p : p = PageCall(t)
  OBVIOUS
<1>7. PICK o : o = OlderCall(t)
  OBVIOUS
<1>8. (Reaches(S, p)' <=> Reaches(S, p)) /\ (Reaches(S, o)' <=> Reaches(S, o))
  BY RowsSame DEF PageFrame
<1>9. FirstPage(t)'
  BY <1>4, <1>5, <1>6, <1>8 DEF FirstPage
<1>10. OlderPage(t)'
  BY <1>1, <1>2, <1>4, <1>5, <1>7, <1>8 DEF OlderPage
<1>11. NoGap(t)'
  <2>1. \A m : (Live(m)' <=> Live(m)) /\ KeyOf(m)' = KeyOf(m)
    BY RowsSame DEF PageFrame
  <2>2. ASSUME NEW m, Live(m) PROVE ~Gone(m)
    BY <2>2 DEF Live, Gone
  <2> SUFFICES ASSUME b.kind = "success", Whole(t)', NEW m \in known[t], Live(m)', InView(t, m)'
               PROVE  Shows(b, m)
    BY <1>1, <1>4 DEF NoGap
  <2>3. Live(m) /\ InView(t, m)
    BY <1>1, <1>2, <2>1 DEF InView
  <2>4. Shows(page[t], m)
    BY <1>2, <1>4, <2>3 DEF NoGap
  <2> QED BY <1>2, <2>2, <2>3, <2>4
<1> QED BY <1>1, <1>2, <1>3, <1>9, <1>10, <1>11, FrameKeeps

-----------------------------------------------------------------------------
\* What a page's step may write.
LEMMA PageSet ==
    ASSUME Typed, NEW t \in Tabs, NEW p, SetPage(t, p)
    PROVE  page'[t] = p /\ page' = [u \in Tabs |-> page'[u]] /\ \A u \in Tabs \ {t} : page'[u] = page[u]
BY DEF SetPage, Typed

LEMMA PageLeft ==
    ASSUME Typed, NEW t \in Tabs, page' = page
    PROVE  /\ page' = [u \in Tabs |-> page'[u]] /\ \A u \in Tabs : page'[u] = page[u]
           /\ PageOK(page[t]) => Updates(page[t], page'[t])
BY SamePage DEF Typed

\* A page's stream loses its first event, or all.
Passes(a, b) == b = a \/ b = <<>> \/ (a # <<>> /\ b = Tail(a))
LEMMA EventsPass ==
    ASSUME Typed, NEW t \in Tabs,
           \/ stream' = stream
           \/ stream' = [stream EXCEPT ![t] = <<>>]
           \/ stream[t] # <<>> /\ Taken(t)
    PROVE  stream' = [u \in Tabs |-> stream'[u]] /\ \A u \in Tabs : Passes(stream[u], stream'[u])
<1>1. stream = [u \in Tabs |-> stream[u]]
  BY DEF Typed
<1>2. CASE stream' = stream
  BY <1>1, <1>2 DEF Passes
<1>3. CASE stream' = [stream EXCEPT ![t] = <<>>]
  <2>1. stream' = [u \in Tabs |-> IF u = t THEN <<>> ELSE stream[u]]
    BY <1>1, <1>3
  <2> QED BY <2>1 DEF Passes
<1>4. CASE stream[t] # <<>> /\ Taken(t)
  <2>1. PICK b : b = Tail(stream[t])
    OBVIOUS
  <2>2. stream' = [u \in Tabs |-> IF u = t THEN b ELSE stream[u]]
    BY <1>1, <1>4, <2>1 DEF Taken
  <2> QED BY <1>4, <2>1, <2>2 DEF Passes
<1> QED BY <1>2, <1>3, <1>4

\* What a page has slots for.
Purposes == {"user", "page", "older"} \cup PinLoads

LEMMA PurposesAre ==
    "user" \in Purposes /\ "page" \in Purposes /\ "older" \in Purposes /\ \A i \in PinLoads : i \in Purposes
BY DEF Purposes

LEMMA CallSet ==
    ASSUME CallsShaped, NEW t \in Tabs, NEW what \in Purposes, NEW q,
           request' = [request EXCEPT ![<<t, what>>] = q]
    PROVE  /\ request'[<<t, what>>] = q /\ \A s \in Slots \ {<<t, what>>} : request'[s] = request[s]
           /\ Fresh(<<t, what>>, q) =>
                \A s \in Slots : request'[s] = request[s] \/ (s[1] = t /\ Fresh(s, request'[s]))
           /\ what # "page" => PageCall(t)' = PageCall(t)
           /\ what # "older" => OlderCall(t)' = OlderCall(t)
<1>1. PICK r : r = <<t, what>>
  OBVIOUS
<1>2. r \in Slots /\ r[1] = t
  BY <1>1 DEF Slots, Purposes
<1>3. request' = [s \in Slots |-> IF s = r THEN q ELSE request[s]]
  BY <1>1 DEF CallsShaped
<1>4. request'[r] = q /\ \A s \in Slots \ {r} : request'[s] = request[s]
  BY <1>2, <1>3
<1>5. what # "page" => PageCall(t)' = PageCall(t)
  <2>1. <<t, "page">> \in Slots /\ (what # "page" => <<t, "page">> # r)
    BY <1>1 DEF Slots
  <2> QED BY <1>4, <2>1 DEF PageCall
<1>6. what # "older" => OlderCall(t)' = OlderCall(t)
  <2>1. <<t, "older">> \in Slots /\ (what # "older" => <<t, "older">> # r)
    BY <1>1 DEF Slots
  <2> QED BY <1>4, <2>1 DEF OlderCall
<1> QED BY <1>1, <1>2, <1>4, <1>5, <1>6

LEMMA IdleIsFresh ==
    ASSUME NEW s \in Slots PROVE Fresh(s, IdleCall)
BY DEF Fresh, CallMade, IdleCall, Writing, Reacting, Listing, AboutOne

LEMMA CalledIs ==
    ASSUME NEW op, NEW m, NEW arg, NEW q, q = Called(op, m, arg)
    PROVE  q.op = op /\ q.at = "called" /\ q.msg = m /\ q.arg = arg
<1>1. q = [op |-> op, at |-> "called", msg |-> m, arg |-> arg, found |-> {}, reply |-> None]
  BY DEF Called, IdleCall
<1> QED BY <1>1

LEMMA ReadIsFresh ==
    ASSUME NEW t \in Tabs
    PROVE  /\ \A i \in PinLoads : Fresh(<<t, i>>, Called("pins", NoMsg, None))
           /\ Fresh(<<t, "page">>, Called("load", NoMsg, None))
           /\ \A k \in Key : Fresh(<<t, "older">>, Called("older", NoMsg, k))
<1>1. PICK q : q = Called("pins", NoMsg, None)
  OBVIOUS
<1>2. ASSUME NEW i \in PinLoads PROVE Fresh(<<t, i>>, q)
  <2>1. i \notin {"user", "page", "older"}
    BY PinSlots
  <2> QED BY <1>1, <2>1, CalledIs DEF Fresh, CallMade, OpOf, Writing, Reacting, AboutOne
<1>3. PICK p : p = Called("load", NoMsg, None)
  OBVIOUS
<1>4. Fresh(<<t, "page">>, p)
  BY <1>3, CalledIs DEF Fresh, CallMade, OpOf, Writing, Reacting, AboutOne
<1>5. ASSUME NEW k \in Key PROVE Fresh(<<t, "older">>, Called("older", NoMsg, k))
  <2>1. PICK o : o = Called("older", NoMsg, k)
    OBVIOUS
  <2>2. Fresh(<<t, "older">>, o)
    BY <2>1, CalledIs DEF Fresh, CallMade, OpOf, Writing, Reacting, AboutOne
  <2> QED BY <2>1, <2>2
<1> QED BY <1>1, <1>2, <1>3, <1>4, <1>5

LEMMA AskIsFresh ==
    ASSUME NEW t \in Tabs, NEW op \in {"create"} \cup AboutOne, NEW m \in Msgs \cup {NoMsg}, NEW arg,
           op \in AboutOne => m \in Msgs, op \in Writing => arg \in Contents, op \in Reacting => arg \in Emojis
    PROVE  Fresh(<<t, "user">>, Called(op, m, arg))
<1>1. PICK q : q = Called(op, m, arg)
  OBVIOUS
<1>2. q.op = op /\ q.at = "called" /\ q.msg = m /\ q.arg = arg
  BY <1>1, CalledIs
<1>3. op \notin {"none", "load", "older"}
  BY DEF AboutOne, Reacting
<1>4. op \in OpOf(<<t, "user">>)
  BY DEF OpOf
<1> QED BY <1>1, <1>2, <1>3, <1>4 DEF Fresh, CallMade

-----------------------------------------------------------------------------
(* The socket. *)
LEMMA SocketKeepsV ==
    ASSUME VInv, History, NEW t \in Tabs, Join(t) \/ Disconnect(t) PROVE VInv'
<1>1. UNCHANGED <<server, request, page>> /\ joined' \subseteq Tabs
      /\ (stream' = stream \/ stream' = [stream EXCEPT ![t] = <<>>])
  BY DEF Join, Disconnect, VInv, Typed
<1>2. Typed /\ PageOK(page[t])
  BY DEF VInv, PagesOK
<1>3. stream' = [u \in Tabs |-> stream'[u]] /\ \A u \in Tabs : Passes(stream[u], stream'[u])
  BY <1>1, <1>2, EventsPass
<1>4. page' = [u \in Tabs |-> page'[u]] /\ Updates(page[t], page'[t])
  BY <1>1, <1>2, PageLeft
<1>5. PageFrame(t)
  BY <1>1, <1>3, <1>4 DEF PageFrame, Passes
<1>6. PageCall(t)' = PageCall(t) /\ OlderCall(t)' = OlderCall(t)
  BY <1>1 DEF PageCall, OlderCall
<1> QED BY <1>4, <1>5, <1>6, UpdateKeepsV

LEMMA HeadIs ==
    ASSUME VInv, NEW t \in Tabs, NEW type, Arrives(t, type), NEW e, e = Head(stream[t])
    PROVE  /\ e.type = type
           /\ type \in {"created", "updated"} => e.entry \in EntryType
           /\ type = "deleted" => Gone(e.msg)
           /\ type = "reacted" => e.reactions \in Summaries
<1>1. PICK a : a = stream[t]
  OBVIOUS
<1>2. a \in Seq(EventType) /\ a # <<>> /\ e = Head(a) /\ e.type = type
  BY <1>1 DEF VInv, Typed, Arrives
<1>3. 1 \in DOMAIN a /\ e = a[1] /\ a[1] \in EventType
  BY <1>2
<1>4. type = "deleted" => Gone(e.msg)
  BY <1>1, <1>2, <1>3 DEF VInv, EventsGone
<1>5. type \in {"created", "updated"} => e.entry \in EntryType
  BY <1>2, <1>3 DEF EventType
<1>6. type = "reacted" => e.reactions \in Summaries
  BY <1>2, <1>3 DEF EventType
<1> QED BY <1>2, <1>4, <1>5, <1>6

LEMMA ReceiveKeepsV ==
    ASSUME VInv, History, NEW t \in Tabs, NEW type, Arrives(t, type), NEW p, Receive(t, p), Updates(page[t], p)
    PROVE  VInv'
<1>1. UNCHANGED <<server, request, joined>> /\ Taken(t) /\ stream[t] # <<>> /\ SetPage(t, p)
  BY DEF Receive, Arrives
<1>2. Typed /\ joined' \subseteq Tabs
  BY <1>1 DEF VInv, Typed
<1>3. stream' = [u \in Tabs |-> stream'[u]] /\ \A u \in Tabs : Passes(stream[u], stream'[u])
  BY <1>1, <1>2, EventsPass
<1>4. page' = [u \in Tabs |-> page'[u]] /\ page'[t] = p /\ \A u \in Tabs \ {t} : page'[u] = page[u]
  BY <1>1, <1>2, PageSet
<1>5. PageFrame(t)
  BY <1>1, <1>2, <1>3, <1>4 DEF PageFrame, Passes
<1>6. PageCall(t)' = PageCall(t) /\ OlderCall(t)' = OlderCall(t)
  BY <1>1 DEF PageCall, OlderCall
<1> QED BY <1>4, <1>5, <1>6, UpdateKeepsV

LEMMA EventKeepsV ==
    ASSUME VInv, CallsShaped, History, NEW t \in Tabs, Event(t) PROVE VInv'
<1>1. PageOK(page[t]) /\ Typed
  BY DEF VInv, PagesOK
<1>2. PICK e : e = Head(stream[t])
  OBVIOUS
<1>3. CASE HandleMessageCreated(t)
  <2>1. Arrives(t, "created") /\ \E p \in {page[t], AppendMessage(page[t], e.entry)} : Receive(t, p)
    BY <1>2, <1>3, Zenon DEF HandleMessageCreated
  <2>2. e.entry \in EntryType
    BY <1>2, <2>1, HeadIs
  <2>3. Updates(page[t], page[t]) /\ Updates(page[t], AppendMessage(page[t], e.entry))
    BY <1>1, <2>2, SamePage, AppendUpdates
  <2> QED BY <2>1, <2>3, ReceiveKeepsV
<1>4. CASE HandleMessageUpdated(t)
  <2>1. Arrives(t, "updated") /\ Receive(t, UpdateMessageInState(page[t], e.entry))
    BY <1>2, <1>4 DEF HandleMessageUpdated
  <2>2. e.entry \in EntryType
    BY <1>2, <2>1, HeadIs
  <2>3. Updates(page[t], UpdateMessageInState(page[t], e.entry))
    BY <1>1, <2>2, UpdateInStateUpdates
  <2> QED BY <2>1, <2>3, ReceiveKeepsV
<1>5. CASE HandleMessageDeleted(t)
  <2>1. PICK m : m = e.msg
    OBVIOUS
  <2>2. Arrives(t, "deleted") /\ Receive(t, RemovePinFromState(RemoveMessageFromState(page[t], m), m))
    BY <1>2, <1>5, <2>1 DEF HandleMessageDeleted
  <2>3. Gone(m)
    BY <1>2, <2>1, <2>2, HeadIs
  <2>4. PICK q : q = RemoveMessageFromState(page[t], m)
    OBVIOUS
  <2>5. Updates(page[t], q)
    BY <1>1, <2>3, <2>4, RemoveUpdates
  <2>6. Updates(q, RemovePinFromState(q, m))
    BY <2>5, RemovePinUpdates DEF Updates
  <2>7. Updates(page[t], RemovePinFromState(q, m))
    BY <1>1, <2>5, <2>6, Updated
  <2> QED BY <2>2, <2>4, <2>7, ReceiveKeepsV
<1>6. CASE HandleMessagePinned(t)
  <2>1. PICK p \in {page[t], UpdateMessagePinState(page[t], e.msg, TRUE)} : SetPage(t, p)
    BY <1>2, <1>6, Zenon DEF HandleMessagePinned
  <2>2. LoadPins(t) /\ Taken(t) /\ UNCHANGED <<server, joined>> /\ stream[t] # <<>>
    BY <1>6 DEF HandleMessagePinned, Arrives
  <2>3. Updates(page[t], p)
    BY <1>1, <2>1, SamePage, PinStateUpdates
  <2>4. stream' = [u \in Tabs |-> stream'[u]] /\ \A u \in Tabs : Passes(stream[u], stream'[u])
    BY <1>1, <2>2, EventsPass
  <2>5. page' = [u \in Tabs |-> page'[u]] /\ page'[t] = p /\ \A u \in Tabs \ {t} : page'[u] = page[u]
    BY <1>1, <2>1, PageSet
  <2>6. PICK i \in PinLoads : request' = [request EXCEPT ![<<t, i>>] = Called("pins", NoMsg, None)]
    <3>1. MayLoadPins(t) /\ request' = [request EXCEPT ![NextPins(t)] = Called("pins", NoMsg, None)]
      BY <2>2 DEF LoadPins
    <3> QED BY <3>1, PinsNext
  <2>7. /\ \A s \in Slots : request'[s] = request[s] \/ (s[1] = t /\ Fresh(s, request'[s]))
        /\ PageCall(t)' = PageCall(t) /\ OlderCall(t)' = OlderCall(t)
    BY <2>6, CallSet, PurposesAre, ReadIsFresh, PinSlots
  <2>8. joined' \subseteq Tabs
    BY <1>1, <2>2 DEF Typed
  <2>9. PageFrame(t)
    BY <2>2, <2>4, <2>5, <2>7, <2>8 DEF PageFrame, Passes
  <2> QED BY <2>3, <2>5, <2>7, <2>9, UpdateKeepsV
<1>7. CASE HandleMessageUnpinned(t)
  <2>1. PICK m : m = e.msg
    OBVIOUS
  <2>2. PICK q : q = UpdateMessagePinState(page[t], m, FALSE)
    OBVIOUS
  <2>3. Arrives(t, "unpinned") /\ \E p \in {page[t], RemovePinFromState(q, m)} : Receive(t, p)
    BY <1>2, <1>7, <2>1, <2>2, Zenon DEF HandleMessageUnpinned
  <2>4. Updates(page[t], q)
    BY <1>1, <2>2, PinStateUpdates
  <2>5. Updates(q, RemovePinFromState(q, m))
    BY <2>4, RemovePinUpdates DEF Updates
  <2>6. Updates(page[t], RemovePinFromState(q, m)) /\ Updates(page[t], page[t])
    BY <1>1, <2>4, <2>5, Updated, SamePage
  <2> QED BY <2>3, <2>6, ReceiveKeepsV
<1>8. CASE HandleReaction(t)
  <2>1. PICK b : b = (e.user = UserOf[t])
    OBVIOUS
  <2>2. Arrives(t, "reacted") /\ Receive(t, UpdateMessageReactionsFromEvent(page[t], e.msg, e.reactions, b))
    BY <1>2, <1>8, <2>1 DEF HandleReaction
  <2>3. e.reactions \in Summaries
    BY <1>2, <2>2, HeadIs
  <2>4. Updates(page[t], UpdateMessageReactionsFromEvent(page[t], e.msg, e.reactions, b))
    BY <1>1, <2>3, EventReactionsUpdate
  <2> QED BY <2>2, <2>4, ReceiveKeepsV
<1> QED BY <1>3, <1>4, <1>5, <1>6, <1>7, <1>8 DEF Event

-----------------------------------------------------------------------------
(* The calls of the user, and what the page makes of their answers. *)
LEMMA QuietFrame ==
    ASSUME Typed, CallsShaped, UNCHANGED server, Silent, NEW t \in Tabs,
           NEW p, SetPage(t, p) \/ (page' = page /\ p = page[t]),
           NEW what \in Purposes, NEW q, Fresh(<<t, what>>, q),
           request' = [request EXCEPT ![<<t, what>>] = q]
    PROVE  /\ PageFrame(t) /\ page'[t] = p
           /\ what # "page" => PageCall(t)' = PageCall(t)
           /\ what # "older" => OlderCall(t)' = OlderCall(t)
<1>1. stream' = [u \in Tabs |-> stream'[u]] /\ \A u \in Tabs : Passes(stream[u], stream'[u])
  BY EventsPass DEF Silent
<1>2. page' = [u \in Tabs |-> page'[u]] /\ page'[t] = p /\ \A u \in Tabs \ {t} : page'[u] = page[u]
  BY PageSet, PageLeft
<1>3. joined' \subseteq Tabs
  BY DEF Silent, Typed
<1>4. \A s \in Slots : request'[s] = request[s] \/ (s[1] = t /\ Fresh(s, request'[s]))
  BY CallSet
<1>5. PageFrame(t)
  BY <1>1, <1>2, <1>3, <1>4 DEF PageFrame, Passes
<1>6. (what # "page" => PageCall(t)' = PageCall(t)) /\ (what # "older" => OlderCall(t)' = OlderCall(t))
  BY CallSet
<1> QED BY <1>2, <1>5, <1>6

LEMMA AnswerOf ==
    ASSUME NEW q, CallAnswered(q), q.at = "answered"
    PROVE  /\ q.op \in Writing => q.reply = Refused \/ q.reply \in EntryType
           /\ q.op \in Reacting => q.reply = Refused \/ q.reply \in Summaries
           /\ q.op \in Listing => q.reply = Refused \/ q.reply \in ListAnswer
           /\ q.op = "pins" => q.reply = Refused \/ q.reply \in SUBSET Msgs
<1>1. ASSUME NEW S, AnswerIn(q, S) PROVE q.reply = Refused \/ q.reply \in S
  BY <1>1 DEF AnswerIn
<1>2. q.op \in Writing => q.reply = Refused \/ q.reply \in EntryType
  BY <1>1 DEF CallAnswered
<1>3. q.op \in Reacting => q.reply = Refused \/ q.reply \in Summaries
  BY <1>1 DEF CallAnswered
<1>4. q.op \in Listing => q.reply = Refused \/ q.reply \in ListAnswer
  BY <1>1 DEF CallAnswered
<1>5. q.op = "pins" => q.reply = Refused \/ q.reply \in SUBSET Msgs
  BY <1>1 DEF CallAnswered
<1> QED BY <1>2, <1>3, <1>4, <1>5

LEMMA AskKeepsV ==
    ASSUME VInv, CallsShaped, History, NEW t \in Tabs, NEW op \in {"create"} \cup AboutOne,
           NEW m \in Msgs \cup {NoMsg}, NEW arg, Ask(t, op, m, arg),
           op \in AboutOne => m \in Msgs, op \in Writing => arg \in Contents, op \in Reacting => arg \in Emojis
    PROVE  VInv'
<1>1. Typed /\ PageOK(page[t])
  BY DEF VInv, PagesOK
<1>2. Fresh(<<t, "user">>, Called(op, m, arg))
  BY AskIsFresh
<1>3. UNCHANGED <<server, page>> /\ Silent /\ request' = [request EXCEPT ![<<t, "user">>] = Called(op, m, arg)]
  BY DEF Ask
<1>4. PageFrame(t) /\ page'[t] = page[t] /\ PageCall(t)' = PageCall(t) /\ OlderCall(t)' = OlderCall(t)
  BY <1>1, <1>2, <1>3, QuietFrame, PurposesAre
<1> QED BY <1>1, <1>4, SamePage, UpdateKeepsV

LEMMA ClicksKeepV ==
    ASSUME VInv, CallsShaped, History, NEW t \in Tabs, Clicks(t) PROVE VInv'
<1>1. ASSUME NEW c \in Contents, Submit(t, c) PROVE VInv'
  BY <1>1, AskKeepsV DEF Submit, AboutOne, Reacting
<1>2. ASSUME NEW m \in Msgs, ClickUnpin(t, m) PROVE VInv'
  BY <1>2, AskKeepsV DEF ClickUnpin, AboutOne, Reacting, Writing
<1>3. ASSUME NEW i \in DOMAIN page[t].list, NEW e, e = page[t].list[i],
             \/ \E c \in Contents \ {e.content} : EditSubmit(t, e, c)
             \/ Delete(t, e)
             \/ ClickPin(t, e)
             \/ \E emoji \in Emojis : ReactionClick(t, e, emoji)
      PROVE  VInv'
  <2>1. e \in EntryType
    <3>1. PICK l : l = page[t].list
      OBVIOUS
    <3>2. l \in Seq(EntryType)
      BY <3>1 DEF VInv, Typed, PageType
    <3> QED BY <1>3, <3>1, <3>2
  <2>2. PICK m : m = e.id
    OBVIOUS
  <2>3. m \in Msgs
    BY <2>1, <2>2 DEF EntryType
  <2>4. ASSUME NEW c \in Contents, EditSubmit(t, e, c) PROVE VInv'
    BY <2>2, <2>3, <2>4, AskKeepsV DEF EditSubmit, AboutOne, Reacting
  <2>5. CASE Delete(t, e)
    BY <2>2, <2>3, <2>5, AskKeepsV DEF Delete, AboutOne, Reacting, Writing
  <2>6. CASE ClickPin(t, e)
    BY <2>2, <2>3, <2>6, AskKeepsV DEF ClickPin, AboutOne, Reacting, Writing
  <2>7. ASSUME NEW emoji \in Emojis, ReactionClick(t, e, emoji) PROVE VInv'
    <3>1. \E op \in Reacting : Ask(t, op, m, emoji)
      BY <2>2, <2>7, Zenon DEF ReactionClick, Reacting
    <3> QED BY <2>3, <3>1, AskKeepsV DEF AboutOne, Reacting, Writing
  <2> QED BY <1>3, <2>4, <2>5, <2>6, <2>7
<1>4. \A i \in DOMAIN page[t].list : \E e : e = page[t].list[i]
  OBVIOUS
<1> QED BY <1>1, <1>2, <1>3, Zenon DEF Clicks

LEMMA AnsweringKeepsV ==
    ASSUME VInv, CallsShaped, History, NEW t \in Tabs, NEW p, Answering(t, p),
           Reply(t) # Refused => Updates(page[t], p)
    PROVE  VInv'
<1>1. Typed /\ PageOK(page[t])
  BY DEF VInv, PagesOK
<1>2. PICK q : q = IF Reply(t) = Refused THEN page[t] ELSE p
  OBVIOUS
<1>3. Updates(page[t], q)
  BY <1>1, <1>2, SamePage
<1>4. SetPage(t, q) /\ UNCHANGED server /\ Silent /\ request' = [request EXCEPT ![<<t, "user">>] = IdleCall]
  BY <1>2 DEF Answering, Settle
<1>5. Fresh(<<t, "user">>, IdleCall)
  BY SlotsOf, IdleIsFresh
<1>6. PageFrame(t) /\ page'[t] = q /\ PageCall(t)' = PageCall(t) /\ OlderCall(t)' = OlderCall(t)
  BY <1>1, <1>4, <1>5, QuietFrame, PurposesAre
<1> QED BY <1>3, <1>6, UpdateKeepsV

LEMMA AnsweredKeepsV ==
    ASSUME VInv, CallsShaped, History, NEW t \in Tabs,
           \/ Submitted(t) \/ Edited(t) \/ Deleted(t) \/ PinAnswered(t) \/ UnpinAnswered(t)
           \/ ReactionAnswered(t)
    PROVE  VInv'
<1>1. PageOK(page[t]) /\ Typed
  BY DEF VInv, PagesOK
<1>2. PICK q : q = request[<<t, "user">>]
  OBVIOUS
<1>3. CallMade(<<t, "user">>, q) /\ CallAnswered(q) /\ CallGone(q)
  BY <1>2, SlotsOf DEF VInv, Typed, CallsGone
<1>4. Reply(t) = q.reply /\ Subject(t) = q.msg /\ \A op : Told(t, op) <=> q.op = op /\ q.at = "answered"
  BY <1>2 DEF Reply, Subject, Told, Answered, Handling
<1>5. PICK m : m = q.msg
  OBVIOUS
<1>6. PICK a : a = q.reply
  OBVIOUS
<1>7. CASE Submitted(t)
  <2>1. q.op = "create" /\ q.at = "answered" /\ Answering(t, AppendMessage(page[t], a))
    BY <1>4, <1>6, <1>7 DEF Submitted
  <2>2. a = Refused \/ a \in EntryType
    BY <1>3, <1>6, <2>1, AnswerOf DEF Writing
  <2>3. a # Refused => Updates(page[t], AppendMessage(page[t], a))
    BY <1>1, <2>2, AppendUpdates
  <2> QED BY <1>4, <1>6, <2>1, <2>3, AnsweringKeepsV
<1>8. CASE Edited(t)
  <2>1. q.op = "update" /\ q.at = "answered" /\ Answering(t, UpdateMessageInState(page[t], a))
    BY <1>4, <1>6, <1>8 DEF Edited
  <2>2. a = Refused \/ a \in EntryType
    BY <1>3, <1>6, <2>1, AnswerOf DEF Writing
  <2>3. a # Refused => Updates(page[t], UpdateMessageInState(page[t], a))
    BY <1>1, <2>2, UpdateInStateUpdates
  <2> QED BY <1>4, <1>6, <2>1, <2>3, AnsweringKeepsV
<1>9. CASE Deleted(t)
  <2>1. q.op = "remove" /\ q.at = "answered" /\ Answering(t, RemoveMessageFromState(page[t], m))
    BY <1>4, <1>5, <1>9 DEF Deleted
  <2>2. a # Refused => Gone(m)
    BY <1>3, <1>5, <1>6, <2>1 DEF CallGone
  <2>3. a # Refused => Updates(page[t], RemoveMessageFromState(page[t], m))
    BY <1>1, <2>2, RemoveUpdates
  <2> QED BY <1>4, <1>6, <2>1, <2>3, AnsweringKeepsV
<1>10. CASE PinAnswered(t)
  <2>1. PICK b : b = UpdateMessagePinState(page[t], m, TRUE)
    OBVIOUS
  <2>2. PICK c : c = [b EXCEPT !.pins = @ \cup {m}]
    OBVIOUS
  <2>3. q.op = "pinMessage" /\ Answering(t, c)
    BY <1>4, <1>5, <1>10, <2>1, <2>2 DEF PinAnswered
  <2>4. Updates(page[t], b)
    BY <1>1, <2>1, PinStateUpdates
  <2>5. PICK S : S = b.pins \cup {m}
    OBVIOUS
  <2>6. m \in Msgs
    BY <1>3, <1>5, <2>3 DEF CallMade, AboutOne
  <2>7. S \in SUBSET Msgs
    BY <2>4, <2>5, <2>6 DEF Updates, PageOK, PageType
  <2>8. c = [b EXCEPT !.pins = S]
    BY <2>2, <2>5
  <2>9. Updates(b, c)
    BY <2>4, <2>7, <2>8, PinsUpdate DEF Updates
  <2>10. Updates(page[t], c)
    BY <1>1, <2>4, <2>9, Updated
  <2> QED BY <2>3, <2>10, AnsweringKeepsV
<1>11. CASE UnpinAnswered(t)
  <2>1. PICK b : b = UpdateMessagePinState(page[t], m, FALSE)
    OBVIOUS
  <2>2. Answering(t, RemovePinFromState(b, m))
    BY <1>4, <1>5, <1>11, <2>1 DEF UnpinAnswered
  <2>3. Updates(page[t], b)
    BY <1>1, <2>1, PinStateUpdates
  <2>4. Updates(b, RemovePinFromState(b, m))
    BY <2>3, RemovePinUpdates DEF Updates
  <2>5. Updates(page[t], RemovePinFromState(b, m))
    BY <1>1, <2>3, <2>4, Updated
  <2> QED BY <2>2, <2>5, AnsweringKeepsV
<1>12. CASE ReactionAnswered(t)
  <2>1. q.op \in Reacting /\ q.at = "answered" /\ Answering(t, UpdateMessageReactions(page[t], m, a))
    BY <1>4, <1>5, <1>6, <1>12 DEF ReactionAnswered, Reacting
  <2>2. a = Refused \/ a \in Summaries
    BY <1>3, <1>6, <2>1, AnswerOf
  <2>3. a # Refused => Updates(page[t], UpdateMessageReactions(page[t], m, a))
    BY <1>1, <2>2, ReactionsUpdate
  <2> QED BY <1>4, <1>6, <2>1, <2>3, AnsweringKeepsV
<1> QED BY <1>7, <1>8, <1>9, <1>10, <1>11, <1>12

LEMMA PinsLoadedKeepsV ==
    ASSUME VInv, CallsShaped, History, NEW t \in Tabs, NEW i \in PinLoads, PinsLoaded(t, i) PROVE VInv'
<1>1. PageOK(page[t]) /\ Typed /\ <<t, i>> \in Slots /\ i \notin {"user", "page", "older"}
  BY PinSlots DEF VInv, PagesOK
<1>2. PICK a : a = request[<<t, i>>].reply
  OBVIOUS
<1>3. PICK b : b = [page[t] EXCEPT !.pins = a]
  OBVIOUS
<1>4. /\ (a = Refused /\ page' = page) \/ (a # Refused /\ SetPage(t, b))
      /\ UNCHANGED server /\ Silent /\ request' = [request EXCEPT ![<<t, i>>] = IdleCall]
      /\ request[<<t, i>>].op = "pins" /\ request[<<t, i>>].at = "answered"
  BY <1>2, <1>3 DEF PinsLoaded, Settle, Answered, Handling
<1>5. a = Refused \/ a \in SUBSET Msgs
  <2>1. CallAnswered(request[<<t, i>>])
    BY <1>1 DEF Typed
  <2> QED BY <1>2, <1>4, <2>1 DEF CallAnswered, AnswerIn
<1>6. PICK p : p = IF a = Refused THEN page[t] ELSE b
  OBVIOUS
<1>7. Updates(page[t], p)
  BY <1>1, <1>3, <1>5, <1>6, SamePage, PinsUpdate
<1>8. SetPage(t, p) \/ (page' = page /\ p = page[t])
  BY <1>4, <1>6
<1>9. Fresh(<<t, i>>, IdleCall)
  BY <1>1, IdleIsFresh
<1>10. PageFrame(t) /\ page'[t] = p /\ PageCall(t)' = PageCall(t) /\ OlderCall(t)' = OlderCall(t)
  BY <1>1, <1>4, <1>8, <1>9, QuietFrame, PurposesAre
<1> QED BY <1>7, <1>10, UpdateKeepsV

-----------------------------------------------------------------------------
(* A page is opened, and what has been listed for it comes in. *)
LEMMA OpenKeepsV ==
    ASSUME VInv, CallsShaped, History, NEW t \in Tabs, Open(t) PROVE VInv'
<1>1. Typed /\ PageOK(page[t])
  BY DEF VInv, PagesOK
<1>2. PICK p : p = [page[t] EXCEPT !.kind = "loading", !.list = <<>>]
  OBVIOUS
<1>3. PICK q : q = Called("load", NoMsg, None)
  OBVIOUS
<1>4. /\ UNCHANGED server /\ SetPage(t, p) /\ IsFree(<<t, "page">>)
      /\ request' = [request EXCEPT ![<<t, "page">>] = q]
      /\ joined' = joined \ {t} /\ stream' = [stream EXCEPT ![t] = <<>>]
  BY <1>2, <1>3 DEF Open
<1>5. stream' = [u \in Tabs |-> stream'[u]] /\ \A u \in Tabs : Passes(stream[u], stream'[u])
  BY <1>1, <1>4, EventsPass
<1>6. page' = [u \in Tabs |-> page'[u]] /\ page'[t] = p /\ \A u \in Tabs \ {t} : page'[u] = page[u]
  BY <1>1, <1>4, PageSet
<1>7. Fresh(<<t, "page">>, q)
  BY <1>3, ReadIsFresh
<1>8. \A s \in Slots : request'[s] = request[s] \/ (s[1] = t /\ Fresh(s, request'[s]))
  BY <1>4, <1>7, CallSet, PurposesAre
<1>9. PageFrame(t)
  BY <1>1, <1>4, <1>5, <1>6, <1>8 DEF PageFrame, Passes, Typed
<1>10. PageCall(t)' = q /\ q.at = "called" /\ OlderCall(t)' = OlderCall(t) /\ PageCall(t).at # "called"
  <2>1. PageCall(t)' = q
    <3>1. request'[<<t, "page">>] = q
      BY <1>4, SlotsOf DEF CallsShaped
    <3> QED BY <3>1 DEF PageCall
  <2>2. q.at = "called"
    BY <1>3, CalledIs
  <2>3. OlderCall(t)' = OlderCall(t)
    BY <1>4, CallSet, PurposesAre
  <2>4. PageCall(t).at # "called"
    BY <1>4 DEF IsFree, PageCall, IdleCall
  <2> QED BY <2>1, <2>2, <2>3, <2>4
<1>11. PageOK(p) /\ p.kind = "loading"
  <2>1. <<>> \in Seq(EntryType)
    OBVIOUS
  <2>2. p \in PageType /\ p.kind = "loading" /\ p.list = <<>>
    BY <1>1, <1>2, <2>1 DEF PageOK, PageType
  <2> QED BY <2>2 DEF PageOK, Once
<1>12. FirstPage(t)'
  BY <1>10 DEF FirstPage, HasList
<1>13. OlderPage(t)'
  <2>1. q # IdleCall
    BY <1>10 DEF IdleCall
  <2>2. t \in Opened
    BY <1>4, <1>10, <2>1 DEF Opened, IsFree, PageCall
  <2>3. Whole(t)' => IsFree(<<t, "older">>)
    BY <2>2, HistoryOfPages
  <2>4. IsFree(<<t, "older">>) => OlderCall(t)'.op = "none"
    BY <1>10 DEF IsFree, OlderCall, IdleCall
  <2> QED BY <2>3, <2>4 DEF OlderPage
<1>14. NoGap(t)'
  BY <1>6, <1>11 DEF NoGap
<1> QED BY <1>6, <1>9, <1>10, <1>11, <1>12, <1>13, <1>14, FrameKeeps

\* What a step that leaves the page's first call alone has from before.
LEMMA StillFirst ==
    ASSUME VInv, History, NEW t \in Tabs, PageFrame(t), PageCall(t)' = PageCall(t)
    PROVE  /\ FirstPage(t)' /\ known'[t] = known[t] /\ (Whole(t)' => Whole(t))
           /\ \A m \in known[t] : m \in Committed
<1>1. known'[t] = known[t] /\ known[t] \in SUBSET Committed /\ (Whole(t)' => Whole(t)) /\ FirstPage(t)
  BY FrameKnown DEF VInv
<1>2. PICK S : S = known[t]
  OBVIOUS
<1>3. PICK p : p = PageCall(t)
  OBVIOUS
<1>4. Reaches(S, p)' <=> Reaches(S, p)
  BY RowsSame DEF PageFrame
<1>5. FirstPage(t)'
  BY <1>1, <1>2, <1>3, <1>4 DEF FirstPage
<1> QED BY <1>1, <1>5

\* A page that shows what it did, and more.
LEMMA NoGapStays ==
    ASSUME VInv, History, NEW t \in Tabs, PageFrame(t), PageCall(t)' = PageCall(t), page'[t] = page[t]
    PROVE  NoGap(t)'
<1> SUFFICES ASSUME page'[t].kind = "success", Whole(t)', NEW m \in known[t], Live(m)', InView(t, m)'
             PROVE  Shows(page'[t], m)
  BY StillFirst DEF NoGap
<1>1. Live(m) /\ InView(t, m) /\ Whole(t)
  BY RowsSame, StillFirst DEF PageFrame, InView
<1> QED BY <1>1 DEF VInv, NoGap

LEMMA LoadOlderKeepsV ==
    ASSUME VInv, CallsShaped, History, NEW t \in Tabs, LoadOlderMessages(t) PROVE VInv'
<1>1. Typed /\ PageOK(page[t])
  BY DEF VInv, PagesOK
<1>2. PICK k : k = page[t].cursor
  OBVIOUS
<1>3. k \in Key
  BY <1>1, <1>2 DEF PageOK, PageType, LoadOlderMessages
<1>4. PICK q : q = Called("older", NoMsg, k)
  OBVIOUS
<1>5. /\ UNCHANGED <<server, page>> /\ Silent /\ page[t].kind = "success"
      /\ request' = [request EXCEPT ![<<t, "older">>] = q]
  BY <1>2, <1>4 DEF LoadOlderMessages
<1>6. Fresh(<<t, "older">>, q) /\ q.arg = k /\ q.at = "called"
  <2>1. Fresh(<<t, "older">>, q)
    BY <1>3, <1>4, ReadIsFresh
  <2>2. q.arg = k /\ q.at = "called"
    BY <1>4, CalledIs
  <2> QED BY <2>1, <2>2
<1>7. PageFrame(t) /\ page'[t] = page[t] /\ PageCall(t)' = PageCall(t) /\ request'[<<t, "older">>] = q
  <2>1. PageFrame(t) /\ page'[t] = page[t] /\ PageCall(t)' = PageCall(t)
    BY <1>1, <1>5, <1>6, QuietFrame, PurposesAre
  <2> QED BY <1>5, <2>1, SlotsOf DEF CallsShaped
<1>8. OlderPage(t)'
  BY <1>2, <1>5, <1>6, <1>7 DEF OlderPage, OlderCall, HasList
<1>9. PageCall(t)'.op # "none" => page'[t].kind = "loading"
  BY <1>7 DEF VInv, PagesOK
<1> QED BY <1>1, <1>7, <1>8, <1>9, StillFirst, NoGapStays, FrameKeeps

LEMMA LoadedKeepsV ==
    ASSUME VInv, CallsShaped, History, NEW t \in Tabs, Loaded(t) PROVE VInv'
<1>1. Typed /\ PageOK(page[t]) /\ (PageCall(t).op # "none" => page[t].kind = "loading")
  BY DEF VInv, PagesOK
<1>2. PICK c : c = PageCall(t)
  OBVIOUS
<1>3. PICK a : a = c.reply
  OBVIOUS
<1>4. c.op = "load" /\ c.at = "answered" /\ UNCHANGED server /\ Silent
  BY <1>2 DEF Loaded, Answered, Handling, PageCall
<1>5. page[t].kind = "loading" /\ page[t].list = <<>> /\ page[t] \in PageType
  BY <1>1, <1>2, <1>4 DEF PageOK
<1>6. OlderPage(t) /\ page[t].kind # "success"
  BY <1>5 DEF VInv
<1>7. stream' = [u \in Tabs |-> stream'[u]] /\ \A u \in Tabs : Passes(stream[u], stream'[u])
  BY <1>1, <1>4, EventsPass DEF Silent
\* The calls that end and begin, whatever the answer.
<1>8. ASSUME NEW p, SetPage(t, p), PageOK(p), PageCall(t)' = IdleCall, OlderCall(t)' = OlderCall(t),
             \A s \in Slots : request'[s] = request[s] \/ (s[1] = t /\ Fresh(s, request'[s])),
             p.kind = "success" => HasList(c) /\ p.list = a.items /\ p.cursor = a.nextCursor
      PROVE  VInv'
  <2>1. page' = [u \in Tabs |-> page'[u]] /\ page'[t] = p /\ \A u \in Tabs \ {t} : page'[u] = page[u]
    BY <1>1, <1>8, PageSet
  <2>2. PageFrame(t)
    BY <1>1, <1>4, <1>7, <1>8, <2>1 DEF PageFrame, Passes, Silent, Typed
  <2>3. PageCall(t)'.op = "none" /\ PageCall(t)'.at = "idle" /\ PageCall(t).at # "called"
    BY <1>2, <1>4, <1>8 DEF IdleCall
  <2>4. FirstPage(t)'
    BY <2>3 DEF FirstPage, HasList
  <2>5. Whole(t)' => Whole(t)
    <3>1. t \notin Opened
      <4>1. ~IsFree(<<t, "page">>)
        BY <1>2, <1>4 DEF IsFree, PageCall, IdleCall
      <4> QED BY <4>1 DEF Opened
    <3> QED BY <3>1, HistoryOfPages
  <2>6. OlderPage(t)'
    <3>1. Whole(t) => OlderCall(t).op = "none"
      BY <1>6 DEF OlderPage
    <3> QED BY <1>8, <2>5, <3>1 DEF OlderPage
  <2>7. NoGap(t)'
    <3>1. known'[t] = known[t] /\ known[t] \in SUBSET Committed
      BY <2>2, <2>3, FrameKnown
    <3> SUFFICES ASSUME p.kind = "success", NEW m \in known[t], Live(m)', InView(t, m)' PROVE Shows(p, m)
      BY <2>1, <3>1 DEF NoGap
    <3>2. Live(m) /\ Ends(KeyOf(m), a.nextCursor)
      BY <1>4, <1>8, <2>1, RowsSame DEF InView, Ends
    <3>3. Reaches(known[t], c)
      BY <1>2, <1>8 DEF VInv, FirstPage
    <3>4. c.arg = None
      BY <1>1, <1>2, <1>4, SlotsOf DEF Typed, CallMade, PageCall
    <3>5. PICK i \in DOMAIN a.items : a.items[i].id = m
      BY <1>3, <3>2, <3>3, <3>4 DEF Reaches, WithinCursor
    <3> QED BY <1>8, <3>5 DEF Shows
  <2> QED BY <1>8, <2>1, <2>2, <2>3, <2>4, <2>6, <2>7, FrameKeeps
<1>9. CASE a = Refused
  <2>1. PICK p : p = [page[t] EXCEPT !.kind = "error"]
    OBVIOUS
  <2>2. SetPage(t, p) /\ request' = [request EXCEPT ![<<t, "page">>] = IdleCall]
    BY <1>2, <1>3, <1>9, <2>1 DEF Loaded, Settle, PageCall
  <2>3. p.kind = "error" /\ p.list = <<>> /\ p \in PageType
    BY <1>5, <2>1 DEF PageType
  <2>4. PageOK(p)
    BY <2>3 DEF PageOK, Once
  <2>5. Fresh(<<t, "page">>, IdleCall)
    BY SlotsOf, IdleIsFresh
  <2>6. /\ \A s \in Slots : request'[s] = request[s] \/ (s[1] = t /\ Fresh(s, request'[s]))
        /\ OlderCall(t)' = OlderCall(t)
    BY <2>2, <2>5, CallSet, PurposesAre
  <2>7. PageCall(t)' = IdleCall
    <3>1. request'[<<t, "page">>] = IdleCall
      BY <2>2, SlotsOf DEF CallsShaped
    <3> QED BY <3>1 DEF PageCall
  <2> QED BY <1>8, <2>2, <2>3, <2>4, <2>6, <2>7
<1>10. CASE a # Refused
  <2> DEFINE ps == <<t, "page">>
             ns == NextPins(t)
  <2>1. PICK p : p = [page[t] EXCEPT !.kind = "success", !.list = a.items, !.cursor = a.nextCursor]
    OBVIOUS
  <2>2. PICK q : q = Called("pins", NoMsg, None)
    OBVIOUS
  <2>3. SetPage(t, p) /\ MayLoadPins(t) /\ request' = [request EXCEPT ![ps] = IdleCall, ![ns] = q]
    BY <1>2, <1>3, <1>10, <2>1, <2>2 DEF Loaded, PageCall
  <2>4. a \in ListAnswer
    <3>1. CallAnswered(c)
      BY <1>1, <1>2, SlotsOf DEF Typed, PageCall
    <3> QED BY <1>3, <1>4, <1>10, <3>1, AnswerOf DEF Listing
  <2>5. a.items \in Seq(EntryType) /\ a.nextCursor \in Key \cup {None}
    BY <2>4 DEF ListAnswer
  <2>6. p.kind = "success" /\ p.list = a.items /\ p.cursor = a.nextCursor /\ p \in PageType
    BY <1>5, <2>1, <2>5 DEF PageType
  <2>7. HasList(c)
    BY <1>3, <1>4, <1>10 DEF HasList, Listing
  <2>8. Once(a.items)
    BY <1>2, <1>3, <2>7, SlotsOf DEF VInv, ListsOnce, PageCall
  <2>9. PageOK(p)
    BY <2>6, <2>8 DEF PageOK
  <2>10. Fresh(ps, IdleCall) /\ Fresh(ns, q) /\ ps \in Slots /\ ns \in Slots /\ ps # ns /\ ps[1] = t /\ ns[1] = t
         /\ <<t, "older">> \in Slots /\ <<t, "older">> # ps /\ <<t, "older">> # ns
    <3>1. PICK i \in PinLoads : ns = <<t, i>>
      BY <2>3, PinsNext
    <3>2. ns \in Slots /\ i \notin {"user", "page", "older"}
      BY <3>1, PinSlots
    <3>3. ps \in Slots /\ Fresh(ps, IdleCall) /\ Fresh(ns, q)
      BY <2>2, <3>1, SlotsOf, IdleIsFresh, ReadIsFresh
    <3>4. ns[1] = t /\ ns[2] \notin {"user", "page", "older"}
      BY <3>1, <3>2
    <3>5. ps # ns /\ ps[1] = t
      BY <3>4
    <3>6. <<t, "older">> \in Slots /\ <<t, "older">> # ps
      BY SlotsOf
    <3>7. <<t, "older">> # ns
      BY <3>4
    <3> QED BY <3>2, <3>3, <3>4, <3>5, <3>6, <3>7
  <2> HIDE DEF ps, ns
  <2>11. request' = [s \in Slots |-> IF s = ns THEN q ELSE IF s = ps THEN IdleCall ELSE request[s]]
    BY <2>3, <2>10 DEF CallsShaped
  <2>12. request'[ps] = IdleCall /\ request'[ns] = q /\ \A s \in Slots : s # ps /\ s # ns => request'[s] = request[s]
    BY <2>10, <2>11
  <2>13. \A s \in Slots : request'[s] = request[s] \/ (s[1] = t /\ Fresh(s, request'[s]))
    BY <2>10, <2>12
  <2>14. PageCall(t)' = IdleCall
    BY <2>12 DEF PageCall, ps
  <2>15. OlderCall(t)' = OlderCall(t)
    BY <2>10, <2>12 DEF OlderCall
  <2> QED BY <1>8, <2>3, <2>6, <2>7, <2>9, <2>13, <2>14, <2>15
<1> QED BY <1>9, <1>10

LEMMA OlderLoadedKeepsV ==
    ASSUME VInv, CallsShaped, History, NEW t \in Tabs, OlderLoaded(t) PROVE VInv'
<1>1. Typed /\ PageOK(page[t]) /\ (PageCall(t).op # "none" => page[t].kind = "loading")
  BY DEF VInv, PagesOK
<1>2. PICK c : c = OlderCall(t)
  OBVIOUS
<1>3. PICK a : a = c.reply
  OBVIOUS
<1>4. PICK b : b = PrependMessages(page[t], a.items)
  OBVIOUS
<1>5. PICK d : d = [b EXCEPT !.cursor = a.nextCursor]
  OBVIOUS
<1>6. /\ c.op = "older" /\ c.at = "answered" /\ UNCHANGED server /\ Silent
      /\ (a = Refused /\ page' = page) \/ (a # Refused /\ SetPage(t, d))
      /\ request' = [request EXCEPT ![<<t, "older">>] = IdleCall]
  BY <1>2, <1>3, <1>4, <1>5 DEF OlderLoaded, Answered, Handling, OlderCall, Settle
<1>7. PICK p : p = IF a = Refused THEN page[t] ELSE d
  OBVIOUS
<1>8. SetPage(t, p) \/ (page' = page /\ p = page[t])
  BY <1>6, <1>7
<1>9. Fresh(<<t, "older">>, IdleCall)
  BY SlotsOf, IdleIsFresh
<1>10. PageFrame(t) /\ page'[t] = p /\ PageCall(t)' = PageCall(t) /\ request'[<<t, "older">>] = IdleCall
  <2>1. PageFrame(t) /\ page'[t] = p /\ PageCall(t)' = PageCall(t)
    BY <1>1, <1>6, <1>8, <1>9, QuietFrame, PurposesAre
  <2> QED BY <1>6, <2>1, SlotsOf DEF CallsShaped
<1>11. OlderPage(t)'
  BY <1>10 DEF OlderPage, OlderCall, IdleCall
<1>12. CASE a = Refused
  <2>1. page'[t] = page[t]
    BY <1>7, <1>10, <1>12
  <2> QED BY <1>1, <1>10, <1>11, <2>1, StillFirst, NoGapStays, FrameKeeps
<1>13. CASE a # Refused
  <2>1. a \in ListAnswer
    <3>1. CallAnswered(c)
      BY <1>1, <1>2, SlotsOf DEF Typed, OlderCall
    <3> QED BY <1>3, <1>6, <1>13, <3>1, AnswerOf DEF Listing
  <2>2. a.items \in Seq(EntryType) /\ a.nextCursor \in Key \cup {None}
    BY <2>1 DEF ListAnswer
  <2>3. HasList(c)
    BY <1>3, <1>6, <1>13 DEF HasList, Listing
  <2>4. Once(a.items)
    BY <1>2, <1>3, <2>3, SlotsOf DEF VInv, ListsOnce, OlderCall
  <2>5. /\ Updates(page[t], b)
        /\ page[t].kind = "success" => \A i \in DOMAIN a.items : Shows(b, a.items[i].id)
    BY <1>1, <1>4, <2>2, <2>4, PrependUpdates
  <2>6. d \in PageType /\ d.kind = b.kind /\ d.list = b.list /\ d.cursor = a.nextCursor
    BY <1>5, <2>2, <2>5 DEF Updates, PageOK, PageType
  <2>7. p = d /\ PageOK(p) /\ p.kind = page[t].kind /\ \A m : Shows(p, m) <=> Shows(b, m)
    BY <1>7, <1>13, <2>5, <2>6 DEF Updates, PageOK, Shows
  <2>8. NoGap(t)'
    <3>1. known'[t] = known[t] /\ (Whole(t)' => Whole(t))
      BY <1>10, StillFirst
    <3> SUFFICES ASSUME p.kind = "success", Whole(t)', NEW m \in known[t], Live(m)', InView(t, m)' PROVE Shows(p, m)
      BY <1>10, <3>1 DEF NoGap
    <3>2. Live(m) /\ Whole(t) /\ Ends(KeyOf(m), a.nextCursor) /\ page[t].kind = "success"
      BY <1>6, <1>10, <2>6, <2>7, <3>1, RowsSame DEF InView, Ends
    <3>3. CASE InView(t, m)
      <4>1. Shows(page[t], m)
        BY <3>2, <3>3 DEF VInv, NoGap
      <4>2. ~Gone(m)
        BY <3>2 DEF Live, Gone
      <4> QED BY <2>5, <2>7, <4>1, <4>2 DEF Updates
    <3>4. CASE ~InView(t, m)
      <4>1. c.arg = page[t].cursor /\ Reaches(known[t], c)
        <5>1. OlderPage(t)
          BY DEF VInv
        <5> QED BY <1>2, <1>6, <2>3, <3>2, <5>1 DEF OlderPage
      <4>2. WithinCursor(KeyOf(m), c.arg)
        BY <3>4, <4>1 DEF InView, WithinCursor
      <4>3. PICK i \in DOMAIN a.items : a.items[i].id = m
        BY <1>3, <3>2, <4>1, <4>2 DEF Reaches
      <4> QED BY <2>5, <2>7, <3>2, <4>3
    <3> QED BY <3>3, <3>4
  <2>9. PageCall(t)'.op # "none" => page'[t].kind = "loading"
    BY <1>1, <1>10, <2>7
  <2> QED BY <1>10, <1>11, <2>7, <2>8, <2>9, StillFirst, FrameKeeps
<1> QED BY <1>12, <1>13

-----------------------------------------------------------------------------
LEMMA AnswersKeepV ==
    ASSUME VInv, CallsShaped, History, NEW t \in Tabs, Answers(t) PROVE VInv'
<1>1. CASE Submitted(t) \/ Edited(t) \/ Deleted(t) \/ PinAnswered(t) \/ UnpinAnswered(t)
           \/ ReactionAnswered(t)
  BY <1>1, AnsweredKeepsV
<1>2. CASE Loaded(t)
  BY <1>2, LoadedKeepsV
<1>3. CASE OlderLoaded(t)
  BY <1>3, OlderLoadedKeepsV
<1>4. ASSUME NEW i \in PinLoads, PinsLoaded(t, i) PROVE VInv'
  BY <1>4, PinsLoadedKeepsV
<1> QED BY <1>1, <1>2, <1>3, <1>4, Zenon DEF Answers

\* Nothing of the conversation and its pages moves.
LEMMA StillV ==
    ASSUME VInv, UNCHANGED <<vars, pageHistory>> PROVE VInv'
<1>1. /\ UNCHANGED <<kind, row, reaction, request, joined, stream, page>>
      /\ UNCHANGED <<crossed, known>>
  BY DEF vars, server, pageHistory
<1>2. Committed' = Committed
  BY <1>1 DEF Committed
<1>3. /\ \A m : (Live(m)' <=> Live(m)) /\ (Gone(m)' <=> Gone(m)) /\ KeyOf(m)' = KeyOf(m)
      /\ \A t : /\ (Whole(t)' <=> Whole(t))
                /\ PageCall(t)' = PageCall(t) /\ OlderCall(t)' = OlderCall(t)
      /\ \A t, m : InView(t, m)' <=> InView(t, m)
  BY <1>1, <1>2 DEF Live, Gone, KeyOf, Whole, PageCall, OlderCall, InView
<1>4. Typed'
  BY <1>1 DEF VInv, Typed
<1>5. PagesOK'
  BY <1>1, <1>3 DEF VInv, PagesOK
<1>6. CallsGone' /\ EventsGone'
  BY <1>1, <1>2, <1>3 DEF VInv, CallsGone, CallGone, EventsGone
<1>7. ListsOnce' /\ KnownKept'
  BY <1>1, <1>2 DEF VInv, ListsOnce, KnownKept
<1>8. ASSUME NEW t \in Tabs PROVE FirstPage(t)' /\ OlderPage(t)' /\ NoGap(t)'
  <2>1. FirstPage(t) /\ OlderPage(t) /\ NoGap(t)
    BY DEF VInv
  <2>2. \A S, q : Reaches(S, q) => Reaches(S, q)'
    BY <1>3 DEF Reaches
  <2>3. FirstPage(t)'
    BY <1>1, <1>3, <2>1, <2>2 DEF FirstPage
  <2>4. OlderPage(t)'
    BY <1>1, <1>3, <2>1, <2>2 DEF OlderPage
  <2>5. NoGap(t)'
    BY <1>1, <1>3, <2>1 DEF NoGap
  <2> QED BY <2>3, <2>4, <2>5
<1> QED BY <1>4, <1>5, <1>6, <1>7, <1>8 DEF VInv

LEMMA StepKeepsV ==
    ASSUME RInv, VInv, [MCNext]_mcvars PROVE VInv'
<1>1. CASE Step /\ History
  <2>1. CallsShaped /\ Typed /\ CallsGone
    BY DEF RInv, VInv
  <2>2. ASSUME NEW r \in Slots, Service(r) \/ Fails(r) PROVE VInv'
    <3>1. CallGone(request[r])
      BY <2>1 DEF CallsGone
    <3>2. Handles(r)
      BY <2>1, <2>2, <3>1, ServiceHandles
    <3> QED BY <1>1, <3>2, HandlesKeep
  <2>3. ASSUME NEW t \in Tabs, Open(t) \/ LoadOlderMessages(t) PROVE VInv'
    BY <1>1, <2>1, <2>3, OpenKeepsV, LoadOlderKeepsV
  <2>4. ASSUME NEW t \in Tabs, Join(t) \/ Disconnect(t) PROVE VInv'
    BY <1>1, <2>4, SocketKeepsV
  <2>5. ASSUME NEW t \in Tabs, Event(t) \/ Clicks(t) \/ Answers(t) PROVE VInv'
    BY <1>1, <2>1, <2>5, EventKeepsV, ClicksKeepV, AnswersKeepV
  <2> QED BY <1>1, <2>2, <2>3, <2>4, <2>5, Zenon DEF Step
<1>2. CASE UNCHANGED <<vars, pageHistory>>
  BY <1>2, StillV
<1> QED BY <1>1, <1>2 DEF MCNext, mcvars

-----------------------------------------------------------------------------
LEMMA KeptTyped ==
    ASSUME NEW author, NEW createdAt, NEW n, author = [m \in 1..n |-> u1],
           createdAt \in [1..n -> Times], row = Kept(author, createdAt)
    PROVE  row \in [Msgs -> MessageRow]
<1>1. PICK x : x = NoRow
  OBVIOUS
<1>2. x \in MessageRow
  <2>1. PICK c, u, co : /\ c \in Times /\ u \in Users /\ co \in Contents
                        /\ x = [used |-> FALSE, createdAt |-> c, author |-> u, content |-> co,
                                deleted |-> FALSE, pinned |-> FALSE]
    BY <1>1, MessagesAssumption DEF NoRow
  <2> QED BY <2>1 DEF MessageRow
<1>3. ASSUME NEW m \in 1..n
      PROVE  [x EXCEPT !.used = TRUE, !.author = author[m], !.createdAt = createdAt[m]] \in MessageRow
  <2>1. author[m] \in Users /\ createdAt[m] \in Times
    BY WorkloadsAssumption
  <2> QED BY <1>2, <2>1 DEF MessageRow
<1>4. row = [m \in Msgs |-> IF m \in 1..n
                            THEN [x EXCEPT !.used = TRUE, !.author = author[m], !.createdAt = createdAt[m]]
                            ELSE x]
  BY <1>1 DEF Kept
<1>5. ASSUME NEW m \in Msgs PROVE row[m] \in MessageRow
  BY <1>2, <1>3, <1>4
<1> QED BY <1>4, <1>5

LEMMA NoneKeptTyped ==
    ASSUME row = Kept(<<>>, <<>>) PROVE row \in [Msgs -> MessageRow]
<1>1. PICK x : x = NoRow
  OBVIOUS
<1>2. x \in MessageRow
  <2>1. PICK c, u, co : /\ c \in Times /\ u \in Users /\ co \in Contents
                        /\ x = [used |-> FALSE, createdAt |-> c, author |-> u, content |-> co,
                                deleted |-> FALSE, pinned |-> FALSE]
    BY <1>1, MessagesAssumption DEF NoRow
  <2> QED BY <2>1 DEF MessageRow
<1>3. row = [m \in Msgs |-> x]
  BY <1>1 DEF Kept
<1> QED BY <1>2, <1>3

\* No calls, no events, and pages that are closed or show the newest messages.
LEMMA Begins ==
    ASSUME kind \in Kinds, row \in [Msgs -> MessageRow], reaction = [i \in Rids |-> NoReaction],
           request = [r \in Slots |-> IdleCall], joined \subseteq Tabs, stream = [t \in Tabs |-> <<>>],
           page = [t \in Tabs |-> page[t]], known = [t \in Tabs |-> known[t]],
           \A t \in Tabs : /\ PageOK(page[t]) /\ known[t] \subseteq Committed
                           /\ NoGap(t)
    PROVE  VInv
<1>1. PICK x : x = NoReaction
  OBVIOUS
<1>2. PICK m, u, e : /\ m \in Msgs /\ u \in Users /\ e \in Emojis
                     /\ x = [active |-> FALSE, used |-> FALSE, msg |-> m, user |-> u, emoji |-> e]
  BY <1>1, MessagesAssumption DEF NoReaction
<1>3. x \in ReactionRow
  BY <1>2 DEF ReactionRow
<1>4. reaction \in [Rids -> ReactionRow]
  BY <1>1, <1>3
<1>5. PICK q : q = IdleCall
  OBVIOUS
<1>6. /\ q.op = "none" /\ q.at = "idle" /\ q.msg = NoMsg
      /\ \A r \in Slots : request[r] = q
  BY <1>5 DEF IdleCall
<1>7. \A r \in Slots : CallMade(r, request[r]) /\ CallAnswered(request[r])
  BY <1>5, <1>6 DEF CallMade, CallAnswered, AnswerIn, AboutOne, Writing, Reacting, Listing
<1>8. \A t \in Tabs : stream[t] = <<>>
  OBVIOUS
<1>9. stream \in [Tabs -> Seq(EventType)]
  BY <1>8
<1>10. page \in [Tabs -> PageType]
  BY DEF PageOK
<1>11. Typed
  BY <1>4, <1>7, <1>9, <1>10 DEF Typed
<1>12. CallsGone /\ ListsOnce
  BY <1>6 DEF CallsGone, CallGone, ListsOnce, HasList, Listing
<1>13. EventsGone
  BY <1>8 DEF EventsGone
<1>14. \A t \in Tabs : PageCall(t) = q /\ OlderCall(t) = q
  BY <1>6 DEF PageCall, OlderCall, Slots
<1>15. PagesOK
  BY <1>6, <1>14 DEF PagesOK
<1>16. \A t \in Tabs : FirstPage(t) /\ OlderPage(t)
  BY <1>6, <1>14 DEF FirstPage, OlderPage, HasList, Listing
<1> QED BY <1>11, <1>12, <1>13, <1>15, <1>16 DEF VInv, KnownKept

LEMMA ClosedIsOK == PageOK(ClosedPage) /\ ClosedPage.kind = "closed"
<1>1. PICK p : p = ClosedPage
  OBVIOUS
<1>2. p = [kind |-> "closed", list |-> <<>>, cursor |-> None, pins |-> {}]
  BY <1>1 DEF ClosedPage
<1>3. p \in PageType /\ p.list = <<>> /\ p.kind = "closed"
  BY <1>2 DEF PageType
<1> QED BY <1>1, <1>3 DEF PageOK, Once

\* A page that is shown from the beginning has all down to its cursor.
LEMMA ShownIsOK ==
    ASSUME row \in [Msgs -> MessageRow], NEW t \in Tabs, NEW p, p = ShownPage(t)
    PROVE  /\ PageOK(p)
           /\ \A m \in Committed : Live(m) /\ (p.cursor = None \/ ~Before(KeyOf(m), p.cursor)) => Shows(p, m)
<1>1. Dated
  BY DEF Dated, MessageRow
<1>2. PICK page1 : page1 = PageOf(None)
  OBVIOUS
<1>3. PICK ids, cursor : ids = page1.ids /\ cursor = NextCursor(page1)
  OBVIOUS
<1>4. /\ ids \in Seq(Msgs) /\ \A i \in DOMAIN ids : Live(ids[i])
      /\ \A i, j \in DOMAIN ids : i # j => ids[i] # ids[j]
      /\ cursor \in Key \cup {None}
      /\ \A m \in Msgs : Live(m) /\ WithinCursor(KeyOf(m), None)
                         /\ (cursor = None \/ ~Before(KeyOf(m), cursor))
                         => \E i \in DOMAIN ids : ids[i] = m
  BY <1>1, <1>2, <1>3, PageOfIs
<1>5. PICK l : l = [i \in DOMAIN ids |-> Entry(ids[i], NoReactions)]
  OBVIOUS
<1>6. p = [kind |-> "success", cursor |-> cursor, pins |-> Pinned, list |-> l]
  BY <1>2, <1>3, <1>5 DEF ShownPage
<1>7. /\ p.kind = "success" /\ p.cursor = cursor /\ p.pins = Pinned /\ p.list = l
  BY <1>6
<1>8. NoReactions \in Summaries
  BY SummaryIs
<1>9. ASSUME NEW i \in DOMAIN ids PROVE l[i] \in EntryType /\ l[i].id = ids[i]
  <2>1. ids[i] \in Msgs
    BY <1>4
  <2>2. row[ids[i]] \in MessageRow
    BY <2>1
  <2>3. l[i] = Entry(ids[i], NoReactions)
    BY <1>5
  <2> QED BY <1>8, <2>1, <2>2, <2>3 DEF Entry, EntryType, Summaries, MessageRow
<1>10. l \in Seq(EntryType) /\ DOMAIN l = DOMAIN ids
  <2>1. DOMAIN ids = 1..Len(ids) /\ Len(ids) \in Nat
    BY <1>4
  <2>2. l \in [1..Len(ids) -> EntryType]
    BY <1>5, <1>9, <2>1
  <2> QED BY <2>1, <2>2
<1>11. Pinned \subseteq Msgs
  BY DEF Pinned, Committed
<1>12. p \in PageType
  BY <1>4, <1>6, <1>10, <1>11 DEF PageType
<1>13. Once(p.list)
  BY <1>4, <1>7, <1>9, <1>10 DEF Once
<1>14. ASSUME NEW m \in Committed, Live(m), cursor = None \/ ~Before(KeyOf(m), cursor)
       PROVE  Shows(p, m)
  <2>1. m \in Msgs /\ WithinCursor(KeyOf(m), None)
    BY DEF Committed, WithinCursor
  <2>2. PICK i \in DOMAIN ids : ids[i] = m
    BY <1>4, <1>14, <2>1
  <2> QED BY <1>7, <1>9, <1>10, <2>2 DEF Shows
<1> QED BY <1>7, <1>12, <1>13, <1>14 DEF PageOK

LEMMA InitV ==
    ASSUME MCInit PROVE VInv
<1>1. workload \in Workloads
  BY DEF MCInit
<1>2. CASE workload.about = "pages" /\ PagesInit
  <2>1. /\ kind \in workload.kinds /\ reaction = [i \in Rids |-> NoReaction]
        /\ request = [r \in Slots |-> IdleCall] /\ joined = workload.shown
        /\ stream = [t \in Tabs |-> <<>>]
        /\ page = [t \in Tabs |-> IF t \in workload.shown THEN ShownPage(t) ELSE ClosedPage]
        /\ known = [t \in Tabs |-> IF t \in workload.shown THEN Committed ELSE {}]
    BY <1>2, Zenon DEF PagesInit
  <2>2. kind \in Kinds /\ joined \subseteq Tabs
    BY <1>1, <1>2, <2>1, WorkloadsAssumption
  <2>3. row \in [Msgs -> MessageRow]
    <3>1. PICK n : n = workload.rows
      OBVIOUS
    <3>2. PICK createdAt \in [1..n -> Times] : row = Kept([m \in 1..n |-> u1], createdAt)
      BY <1>2, <3>1, Zenon DEF PagesInit
    <3> QED BY <3>2, KeptTyped
  <2>4. ASSUME NEW t \in Tabs
        PROVE  PageOK(page[t]) /\ known[t] \subseteq Committed /\ NoGap(t)
    <3>1. CASE t \in workload.shown
      <4>1. page[t] = ShownPage(t) /\ known[t] = Committed
        BY <2>1, <3>1
      <4> QED BY <2>3, <4>1, ShownIsOK DEF NoGap, InView
    <3>2. CASE t \notin workload.shown
      <4>1. page[t] = ClosedPage /\ known[t] = {}
        BY <2>1, <3>2
      <4> QED BY <4>1, ClosedIsOK DEF NoGap
    <3> QED BY <3>1, <3>2
  <2>5. page = [t \in Tabs |-> page[t]] /\ known = [t \in Tabs |-> known[t]]
    <3>1. PICK a, b : /\ a = [t \in Tabs |-> IF t \in workload.shown THEN ShownPage(t) ELSE ClosedPage]
                      /\ b = [t \in Tabs |-> IF t \in workload.shown THEN Committed ELSE {}]
      OBVIOUS
    <3> QED BY <2>1, <3>1
  <2> QED BY <2>1, <2>2, <2>3, <2>4, <2>5, Begins
<1>3. CASE workload.about = "files" /\ NoPages
  <2>1. /\ kind = "channel" /\ reaction = [i \in Rids |-> NoReaction] /\ row = Kept(<<>>, <<>>)
        /\ request = [r \in Slots |-> IdleCall] /\ joined = {}
        /\ stream = [t \in Tabs |-> <<>>] /\ page = [t \in Tabs |-> ClosedPage]
        /\ known = [t \in Tabs |-> {}]
    BY <1>3 DEF NoPages
  <2>2. kind \in Kinds
    BY <1>1, <1>3, <2>1, WorkloadsAssumption
  <2>3. row \in [Msgs -> MessageRow]
    BY <2>1, NoneKeptTyped
  <2>4. ASSUME NEW t \in Tabs
        PROVE  PageOK(page[t]) /\ known[t] \subseteq Committed /\ NoGap(t)
    <3>1. page[t] = ClosedPage /\ known[t] = {}
      BY <2>1
    <3> QED BY <3>1, ClosedIsOK DEF NoGap
  <2>5. page = [t \in Tabs |-> page[t]] /\ known = [t \in Tabs |-> known[t]]
    BY <2>1
  <2> QED BY <2>1, <2>2, <2>3, <2>4, <2>5, Begins
<1> QED BY <1>2, <1>3 DEF MCInit

\* Paging by cursor leaves out nothing and shows nothing twice, for any pages,
\* messages, timestamps and page sizes: a page shows, down to its cursor, every live
\* message there was when it was loaded, whatever is written, deleted, told and
\* asked for meanwhile.
THEOREM NothingIsSkipped == MCSpec => []PagesSkipNothing
<1>1. MCInit => RInv /\ VInv
  BY InitR, InitV
<1>2. RInv /\ VInv /\ [MCNext]_mcvars => (RInv /\ VInv)'
  BY StepKeepsR, StepKeepsV
<1>3. RInv /\ VInv => PagesSkipNothing
  <2> SUFFICES ASSUME VInv, NEW t \in Tabs, page[t].kind = "success"
               PROVE  /\ \A m \in known[t] : Live(m) /\ InView(t, m) /\ Whole(t) => Shows(page[t], m)
                      /\ \A i, j \in DOMAIN page[t].list :
                             i # j => page[t].list[i].id # page[t].list[j].id
    BY DEF PagesSkipNothing
  <2>1. NoGap(t) /\ PageOK(page[t])
    BY DEF VInv, PagesOK
  <2> QED BY <2>1 DEF NoGap, PageOK, Once
<1> QED BY <1>1, <1>2, <1>3, PTL DEF MCSpec


\* What each variable of the pages and of their files holds, in every state: the
\* rows, what the pages show, the events' and answers' entries, and that every key
\* stored, in a table or in a call is one that was drawn.
THEOREM PagesTyped == MCSpec => []TypeOK
<1>1. MCInit => RInv /\ VInv /\ FInv /\ WorkloadOK
  BY InitR, InitV, InitFInv
<1>2. RInv /\ VInv /\ FInv /\ WorkloadOK /\ [MCNext]_mcvars => (RInv /\ VInv /\ FInv /\ WorkloadOK)'
  BY StepKeepsR, StepKeepsV, StepKeepsFInv
<1>3. VInv /\ FInv => TypeOK
  <2> SUFFICES ASSUME VInv, FInv PROVE TypeOK
    OBVIOUS
  <2>1. kind \in Kinds /\ row \in [Msgs -> MessageRow] /\ reaction \in [Rids -> ReactionRow] /\ joined \subseteq Tabs
    BY DEF VInv, Typed
  <2>2. \A r \in Slots : request[r].msg \in Msgs \cup {NoMsg}
    BY DEF VInv, Typed, CallMade
  <2>3. ASSUME NEW t \in Tabs
        PROVE  /\ page[t].kind \in {"closed", "loading", "success", "error"}
               /\ page[t].kind # "success" => page[t].list = <<>>
               /\ \A i \in DOMAIN page[t].list : page[t].list[i] \in EntryType
               /\ page[t].cursor = None \/ page[t].cursor \in Key
               /\ page[t].pins \subseteq Msgs
    <3>1. PageOK(page[t])
      BY DEF VInv, PagesOK
    <3>2. page[t].list \in Seq(EntryType)
      BY <3>1 DEF PageOK, PageType
    <3>3. \A i \in DOMAIN page[t].list : page[t].list[i] \in EntryType
      BY <3>2
    <3> QED BY <3>1, <3>3 DEF PageOK, PageType
  <2>4. ASSUME NEW k \in KeySpace, k[2] <= drawn PROVE k \in Keys
    <3>1. drawn \in 0..MaxKeys /\ MaxKeys \in Nat
      BY FilesAssumption DEF FInv, FilesTyped, TablesTyped
    <3>2. PICK p \in Prefixes, n \in Nat \ {0} : k = <<p, n>>
      BY DEF KeySpace
    <3>3. n \in 1..MaxKeys
      BY <2>4, <3>1, <3>2
    <3> QED BY <3>2, <3>3 DEF Keys
  <2>5. object \subseteq Keys /\ aged \subseteq Keys /\ Rows \subseteq Keys
    BY <2>4 DEF FInv, FilesTyped, TablesTyped
  <2>6. /\ \A k \in Rows : fileRow[k] \in DOMAIN post \cup {NoPost}
        /\ \A m \in DOMAIN post : post[m] \in Places
    BY DEF FInv, FilesTyped, TablesTyped
  <2>7. ASSUME NEW j \in JobSlots
        PROVE  /\ job[j].keys \subseteq Keys /\ job[j].reply \in {"none", "done", "refused"}
               /\ job[j].at = "answered" <=> job[j].reply # "none"
    <3>1. JobKnown(j) /\ job[j] \in JobRecord /\ job[j].keys \subseteq KeySpace
      BY KnownJob
    <3>2. \A k \in job[j].keys : k[2] <= drawn
      BY <3>1 DEF JobKnown, KnownCall, Copy, Upload
    <3> QED BY <2>4, <3>1, <3>2 DEF JobKnown, KnownCall, JobRecord
  <2>8. sendState \in {"idle", "loading", "error"}
        /\ \A f \in Files : draft[f].status \in {"new", "ready", "uploading", "uploaded", "failed", "gone"}
    BY Composing DEF DraftRecord
  <2> QED BY <2>1, <2>2, <2>3, <2>5, <2>6, <2>7, <2>8 DEF TypeOK
<1> QED BY <1>1, <1>2, <1>3, PTL DEF MCSpec
=============================================================================
