------------------------- MODULE SessionWireProofs -------------------------
(***************************************************************************)
(* Proofs about RespFraming and SessionWire: readResp takes what was       *)
(* written as one value, and nothing else, off any stream.                 *)
(***************************************************************************)
EXTENDS SessionWire, AppSessionProofs

LOCAL INSTANCE SequencesExt

LEMMA Heads ==
    /\ Crlf \in Symbols /\ Symbols \cap Int = {}
    /\ Symbols \ {Crlf} = {Star, Dollar, Plus, Minus, Colon, Byte}
    /\ Crlf \notin {Star, Dollar, Plus, Minus, Colon, Byte}
    /\ Star \notin {Dollar, Plus, Minus, Colon} /\ Dollar \notin {Plus, Minus, Colon}
    /\ Colon \notin {Plus, Minus}
  <1> DEFINE all == <<Star, Dollar, Plus, Minus, Colon, Crlf, Byte>>
  <1>1. \A i, j \in 1..7 : all[i] = all[j] => i = j
    BY FramingAssumption
  <1>2. /\ Star # Dollar /\ Star # Plus /\ Star # Minus /\ Star # Colon /\ Star # Crlf
        /\ Dollar # Plus /\ Dollar # Minus /\ Dollar # Colon /\ Dollar # Crlf
        /\ Plus # Crlf /\ Plus # Colon /\ Minus # Crlf /\ Minus # Colon /\ Colon # Crlf
        /\ Byte # Crlf
    BY <1>1
  <1> QED
    BY <1>2, FramingAssumption DEF Symbols

LEMMA LineEndIs ==
    ASSUME NEW s, NEW n \in Nat, DOMAIN s = 1..n, NEW e \in 1..n, s[e] = Crlf,
           \A i \in 1..n : i < e => s[i] # Crlf
    PROVE  LineEnd(s) = e
  <1> DEFINE ends == {i \in DOMAIN s : s[i] = Crlf}
  <1>1. e \in ends /\ \A j \in ends : e <= j
    OBVIOUS
  <1>2. \A i \in ends : (\A j \in ends : i <= j) => i = e
    BY <1>1
  <1>3. (CHOOSE i \in ends : \A j \in ends : i <= j) = e
    BY <1>1, <1>2
  <1> QED
    BY <1>1, <1>3 DEF LineEnd

LEMMA NoLineEnd ==
    ASSUME NEW s, \A i \in DOMAIN s : s[i] # Crlf
    PROVE  LineEnd(s) = 0
  BY DEF LineEnd

LEMMA LineEndType ==
    ASSUME NEW s, NEW n \in Nat, DOMAIN s = 1..n
    PROVE  LineEnd(s) \in 0..n
  <1> DEFINE ends == {i \in DOMAIN s : s[i] = Crlf}
  <1>1. CASE ends = {}
    BY <1>1 DEF LineEnd
  <1>2. CASE ends # {}
    <2> HIDE DEF ends
    <2>1. ends \subseteq Nat /\ ends \subseteq 0..n
      BY DEF ends
    <2>2. \E i \in ends : \A j \in ends : i <= j
      BY <1>2, <2>1, LeastNumber
    <2>3. (CHOOSE i \in ends : \A j \in ends : i <= j) \in ends
      BY <2>2
    <2> QED
      BY <1>2, <2>1, <2>3 DEF LineEnd, ends
  <1> QED
    BY <1>1, <1>2

-----------------------------------------------------------------------------
\* The recursion of Reader, depth by depth.
ReadsTo(f, depth) ==
    f = [d \in 0..depth |-> IF d = 0 THEN [s \in Streams |-> Fails]
                            ELSE [s \in Streams |-> ReadOne(f[d - 1], s)]]

LEMMA ReadsExtend ==
    ASSUME NEW depth \in Nat, NEW f, ReadsTo(f, depth)
    PROVE  \E g : ReadsTo(g, depth + 1)
  <1> DEFINE g == [d \in 0..(depth + 1) |->
                     IF d = depth + 1 THEN [s \in Streams |-> ReadOne(f[depth], s)] ELSE f[d]]
  <1>1. \A d \in 0..(depth + 1) :
          g[d] = IF d = 0 THEN [s \in Streams |-> Fails]
                 ELSE [s \in Streams |-> ReadOne(g[d - 1], s)]
    <2> SUFFICES ASSUME NEW d \in 0..(depth + 1)
                 PROVE  g[d] = IF d = 0 THEN [s \in Streams |-> Fails]
                               ELSE [s \in Streams |-> ReadOne(g[d - 1], s)]
      OBVIOUS
    <2>1. CASE d = depth + 1
      <3>1. g[depth + 1] = [s \in Streams |-> ReadOne(f[depth], s)] /\ g[depth] = f[depth]
        BY SMT
      <3>2. depth + 1 # 0 /\ (depth + 1) - 1 = depth
        OBVIOUS
      <3> HIDE DEF g
      <3> QED
        BY <2>1, <3>1, <3>2
    <2>2. CASE d # depth + 1
      <3>1. d \in 0..depth /\ g[d] = f[d] /\ (d # 0 => d - 1 \in 0..depth /\ g[d - 1] = f[d - 1])
        BY <2>2
      <3>2. f[d] = IF d = 0 THEN [s \in Streams |-> Fails]
                   ELSE [s \in Streams |-> ReadOne(f[d - 1], s)]
        BY <3>1 DEF ReadsTo
      <3> QED
        BY <3>1, <3>2
    <2> QED
      BY <2>1, <2>2
  <1>2. ReadsTo(g, depth + 1)
    <2>1. g = [d \in 0..(depth + 1) |-> g[d]]
      OBVIOUS
    <2> HIDE DEF g
    <2> QED
      BY <1>1, <2>1 DEF ReadsTo
  <1> QED
    BY <1>2

LEMMA ReadsExist ==
    ASSUME NEW depth \in Nat
    PROVE  \E f : ReadsTo(f, depth)
  <1> DEFINE T == {m \in Nat : ~\E f : ReadsTo(f, m)}
  <1>1. CASE T # {}
    <2> HIDE DEF T
    <2>1. T \subseteq Nat
      BY DEF T
    <2>2. PICK m \in T : \A k \in T : m <= k
      BY <1>1, <2>1, LeastNumber
    <2>3. m # 0
      <3> DEFINE f == [d \in 0..0 |-> [s \in Streams |-> Fails]]
      <3>1. ReadsTo(f, 0)
        BY DEF ReadsTo
      <3> QED
        BY <3>1 DEF T
    <2>4. m - 1 \in Nat /\ m - 1 \notin T /\ (m - 1) + 1 = m
      BY <2>1, <2>2, <2>3
    <2>5. PICK f : ReadsTo(f, m - 1)
      BY <2>4 DEF T
    <2>6. \E g : ReadsTo(g, m)
      BY <2>4, <2>5, ReadsExtend
    <2> QED
      BY <2>6 DEF T
  <1> QED
    BY <1>1

LEMMA ReadsUnique ==
    ASSUME NEW m \in Nat, NEW n \in Nat, m <= n, NEW f, NEW g, ReadsTo(f, m), ReadsTo(g, n)
    PROVE  \A d \in 0..m : f[d] = g[d]
  <1> DEFINE T == {d \in Nat : d <= m /\ f[d] # g[d]}
  <1>1. CASE T # {}
    <2> HIDE DEF T
    <2>1. T \subseteq Nat
      BY DEF T
    <2>2. PICK d \in T : \A k \in T : d <= k
      BY <1>1, <2>1, LeastNumber
    <2>3. d \in 0..m /\ d \in 0..n /\ f[d] # g[d]
      BY <2>1, <2>2 DEF T
    <2>4. /\ f[d] = IF d = 0 THEN [s \in Streams |-> Fails]
                    ELSE [s \in Streams |-> ReadOne(f[d - 1], s)]
          /\ g[d] = IF d = 0 THEN [s \in Streams |-> Fails]
                    ELSE [s \in Streams |-> ReadOne(g[d - 1], s)]
      BY <2>3 DEF ReadsTo
    <2>5. d # 0 /\ d - 1 \in Nat /\ d - 1 <= m /\ d - 1 \notin T
      BY <2>2, <2>3, <2>4
    <2> QED
      BY <2>3, <2>4, <2>5 DEF T
  <1> QED
    BY <1>1 DEF T

\* Reader(depth) reads with Reader(depth - 1).
LEMMA ReaderSteps ==
    ASSUME NEW depth \in Nat
    PROVE  Reader(depth) = IF depth = 0 THEN [s \in Streams |-> Fails]
                           ELSE [s \in Streams |-> ReadOne(Reader(depth - 1), s)]
  <1> DEFINE F(n) == CHOOSE f : ReadsTo(f, n)
  <1>1. \A n \in Nat : ReadsTo(F(n), n) /\ Reader(n) = F(n)[n]
    <2> SUFFICES ASSUME NEW n \in Nat PROVE ReadsTo(F(n), n) /\ Reader(n) = F(n)[n]
      OBVIOUS
    <2>1. ReadsTo(F(n), n)
      BY ReadsExist
    <2>2. Reader(n) = F(n)[n]
      BY DEF Reader, ReadsTo
    <2> QED
      BY <2>1, <2>2
  <1> HIDE DEF F
  <1>2. CASE depth = 0
    <2>1. F(0)[0] = [s \in Streams |-> Fails]
      BY <1>1 DEF ReadsTo
    <2> QED
      BY <1>1, <1>2, <2>1
  <1>3. CASE depth # 0
    <2>1. depth - 1 \in Nat /\ depth - 1 \in 0..(depth - 1) /\ depth \in 0..depth
      BY <1>3
    <2>2. F(depth)[depth - 1] = F(depth - 1)[depth - 1]
      <3>1. ReadsTo(F(depth - 1), depth - 1) /\ ReadsTo(F(depth), depth)
        BY <1>1, <2>1
      <3>2. \A d \in 0..(depth - 1) : F(depth - 1)[d] = F(depth)[d]
        BY <2>1, <3>1, ReadsUnique
      <3> QED
        BY <2>1, <3>2
    <2>3. F(depth)[depth] = [s \in Streams |-> ReadOne(F(depth)[depth - 1], s)]
      <3>1. ReadsTo(F(depth), depth)
        BY <1>1
      <3> QED
        BY <1>3, <2>1, <3>1 DEF ReadsTo
    <2> QED
      BY <1>1, <1>3, <2>1, <2>2, <2>3
  <1> QED
    BY <1>2, <1>3

-----------------------------------------------------------------------------
\* The recursion of ReadItems, item by item.
Before(before, nested) ==
    LET item == nested[before.rest]
    IN IF before.value = Failed \/ item.value = Failed THEN Fails
       ELSE Read(Array(Append(before.value.items, item.value)), item.rest)
Takes(f, nested, n, s) ==
    f = [i \in 0..n |-> IF i = 0 THEN Read(Array(<<>>), s) ELSE Before(f[i - 1], nested)]

LEMMA TakesExtend ==
    ASSUME NEW nested, NEW s, NEW n \in Nat, NEW f, Takes(f, nested, n, s)
    PROVE  \E g : Takes(g, nested, n + 1, s)
  <1> DEFINE g == [i \in 0..(n + 1) |-> IF i = n + 1 THEN Before(f[n], nested) ELSE f[i]]
  <1>1. \A i \in 0..(n + 1) :
          g[i] = IF i = 0 THEN Read(Array(<<>>), s) ELSE Before(g[i - 1], nested)
    <2> SUFFICES ASSUME NEW i \in 0..(n + 1)
                 PROVE  g[i] = IF i = 0 THEN Read(Array(<<>>), s) ELSE Before(g[i - 1], nested)
      OBVIOUS
    <2>1. CASE i = n + 1
      BY <2>1
    <2>2. CASE i # n + 1
      <3>1. i \in 0..n /\ g[i] = f[i] /\ (i # 0 => i - 1 \in 0..n /\ g[i - 1] = f[i - 1])
        BY <2>2
      <3>2. f[i] = IF i = 0 THEN Read(Array(<<>>), s) ELSE Before(f[i - 1], nested)
        BY <3>1 DEF Takes
      <3> QED
        BY <3>1, <3>2
    <2> QED
      BY <2>1, <2>2
  <1>2. Takes(g, nested, n + 1, s)
    <2>1. g = [i \in 0..(n + 1) |-> g[i]]
      OBVIOUS
    <2> HIDE DEF g
    <2> QED
      BY <1>1, <2>1 DEF Takes
  <1> QED
    BY <1>2

LEMMA TakesExist ==
    ASSUME NEW nested, NEW s, NEW n \in Nat
    PROVE  \E f : Takes(f, nested, n, s)
  <1> DEFINE T == {m \in Nat : ~\E f : Takes(f, nested, m, s)}
  <1>1. CASE T # {}
    <2> HIDE DEF T
    <2>1. T \subseteq Nat
      BY DEF T
    <2>2. PICK m \in T : \A k \in T : m <= k
      BY <1>1, <2>1, LeastNumber
    <2>3. m # 0
      <3> DEFINE f == [i \in 0..0 |-> Read(Array(<<>>), s)]
      <3>1. Takes(f, nested, 0, s)
        BY DEF Takes
      <3> QED
        BY <3>1 DEF T
    <2>4. m - 1 \in Nat /\ m - 1 \notin T /\ (m - 1) + 1 = m
      BY <2>1, <2>2, <2>3
    <2>5. PICK f : Takes(f, nested, m - 1, s)
      BY <2>4 DEF T
    <2>6. \E g : Takes(g, nested, m, s)
      BY <2>4, <2>5, TakesExtend
    <2> QED
      BY <2>6 DEF T
  <1> QED
    BY <1>1

LEMMA TakesUnique ==
    ASSUME NEW nested, NEW s, NEW m \in Nat, NEW n \in Nat, m <= n, NEW f, NEW g,
           Takes(f, nested, m, s), Takes(g, nested, n, s)
    PROVE  \A d \in 0..m : f[d] = g[d]
  <1> DEFINE T == {d \in Nat : d <= m /\ f[d] # g[d]}
  <1>1. CASE T # {}
    <2> HIDE DEF T
    <2>1. T \subseteq Nat
      BY DEF T
    <2>2. PICK d \in T : \A k \in T : d <= k
      BY <1>1, <2>1, LeastNumber
    <2>3. d \in 0..m /\ d \in 0..n /\ f[d] # g[d]
      BY <2>1, <2>2 DEF T
    <2>4. /\ f[d] = IF d = 0 THEN Read(Array(<<>>), s) ELSE Before(f[d - 1], nested)
          /\ g[d] = IF d = 0 THEN Read(Array(<<>>), s) ELSE Before(g[d - 1], nested)
      BY <2>3 DEF Takes
    <2>5. d # 0 /\ d - 1 \in Nat /\ d - 1 <= m /\ d - 1 \notin T
      BY <2>2, <2>3, <2>4
    <2> QED
      BY <2>3, <2>4, <2>5 DEF T
  <1> QED
    BY <1>1 DEF T

LEMMA ItemsSteps ==
    ASSUME NEW nested, NEW s, NEW n \in Nat
    PROVE  ReadItems(nested, n, s) = IF n = 0 THEN Read(Array(<<>>), s)
                                     ELSE Before(ReadItems(nested, n - 1, s), nested)
  <1> DEFINE F(k) == CHOOSE f : Takes(f, nested, k, s)
  <1>1. \A k \in Nat : Takes(F(k), nested, k, s) /\ ReadItems(nested, k, s) = F(k)[k]
    <2> SUFFICES ASSUME NEW k \in Nat
                 PROVE  Takes(F(k), nested, k, s) /\ ReadItems(nested, k, s) = F(k)[k]
      OBVIOUS
    <2>1. Takes(F(k), nested, k, s)
      BY TakesExist
    <2>2. ReadItems(nested, k, s) = F(k)[k]
      BY DEF ReadItems, Takes, Before
    <2> QED
      BY <2>1, <2>2
  <1> HIDE DEF F
  <1>2. CASE n = 0
    <2>1. F(0)[0] = Read(Array(<<>>), s)
      BY <1>1 DEF Takes
    <2> QED
      BY <1>1, <1>2, <2>1
  <1>3. CASE n # 0
    <2>1. n - 1 \in Nat /\ n - 1 \in 0..(n - 1) /\ n \in 0..n
      BY <1>3
    <2>2. F(n)[n - 1] = F(n - 1)[n - 1]
      <3>1. Takes(F(n - 1), nested, n - 1, s) /\ Takes(F(n), nested, n, s)
        BY <1>1, <2>1
      <3>2. \A d \in 0..(n - 1) : F(n - 1)[d] = F(n)[d]
        BY <2>1, <3>1, TakesUnique
      <3> QED
        BY <2>1, <3>2
    <2>3. F(n)[n] = Before(F(n)[n - 1], nested)
      <3>1. Takes(F(n), nested, n, s)
        BY <1>1
      <3> QED
        BY <1>3, <2>1, <3>1 DEF Takes
    <2> QED
      BY <1>1, <1>3, <2>1, <2>2, <2>3
  <1> QED
    BY <1>2, <1>3

-----------------------------------------------------------------------------
\* No call gives back more than it was given.
Trim(r, n) == r = Read(r.value, r.rest) /\ r.rest \in Streams /\ Len(r.rest) <= n

LEMMA FailsTrim ==
    \A n \in Nat : Trim(Fails, n)
  <1>1. Fails.value = Failed /\ Fails.rest = <<>> /\ <<>> \in Streams /\ Len(<<>>) = 0
    BY DEF Fails, Read, Streams
  <1> QED
    BY <1>1 DEF Trim, Fails

LEMMA ReadTrim ==
    ASSUME NEW v, NEW t \in Streams, NEW n \in Nat, Len(t) <= n
    PROVE  Trim(Read(v, t), n)
  BY DEF Trim, Read

LEMMA ItemsTrim ==
    ASSUME NEW nested, NEW N \in Nat, NEW s \in Streams, Len(s) <= N,
           \A t \in Streams : Len(t) <= N => Trim(nested[t], Len(t)),
           NEW n \in Nat
    PROVE  Trim(ReadItems(nested, n, s), Len(s))
  <1> DEFINE T == {m \in Nat : ~Trim(ReadItems(nested, m, s), Len(s))}
  <1>0. Len(s) \in Nat
    BY DEF Streams
  <1>1. CASE T # {}
    <2> HIDE DEF T
    <2>1. T \subseteq Nat
      BY DEF T
    <2>2. PICK m \in T : \A k \in T : m <= k
      BY <1>1, <2>1, LeastNumber
    <2>3. m \in Nat /\ ~Trim(ReadItems(nested, m, s), Len(s))
      BY <2>1 DEF T
    <2>4. m # 0
      <3>1. ReadItems(nested, 0, s) = Read(Array(<<>>), s)
        BY ItemsSteps
      <3> QED
        BY <1>0, <2>3, <3>1, ReadTrim
    <2>5. m - 1 \in Nat /\ m - 1 \notin T
      BY <2>2, <2>3, <2>4
    <2> DEFINE before == ReadItems(nested, m - 1, s)
               item == nested[before.rest]
    <2>6. Trim(before, Len(s))
      BY <2>5 DEF T
    <2>7. ReadItems(nested, m, s) = Before(before, nested)
      BY <2>3, <2>4, ItemsSteps
    <2> HIDE DEF before
    <2>8. before.rest \in Streams /\ Len(before.rest) \in Nat /\ Len(before.rest) <= Len(s)
      BY <2>6 DEF Trim, Streams
    <2>9. Trim(item, Len(before.rest))
      BY <1>0, <2>8
    <2>10. item.rest \in Streams /\ Len(item.rest) \in Nat /\ Len(item.rest) <= Len(s)
      BY <1>0, <2>8, <2>9 DEF Trim, Streams
    <2>11. \/ Before(before, nested) = Fails
           \/ \E v : Before(before, nested) = Read(v, item.rest)
      BY DEF Before
    <2> QED
      BY <1>0, <2>3, <2>7, <2>10, <2>11, FailsTrim, ReadTrim
  <1> QED
    BY <1>1 DEF T

\* The rest of a stream after its first line, and the number in the line.
LEMMA AfterLine ==
    ASSUME NEW s \in Streams, LineEnd(s) # 0
    PROVE  LET end == LineEnd(s)
               rest == SubSeq(s, end + 1, Len(s))
               body == SubSeq(s, 2, end - 1)
           IN /\ end \in 1..Len(s) /\ Len(s) \in Nat
              /\ rest \in Streams /\ Len(rest) = Len(s) - end /\ Len(rest) \in Nat
              /\ IsNumber(body) => body[1] \in Int
  <1>1. Len(s) \in Nat /\ DOMAIN s = 1..Len(s) /\ \A i \in 1..Len(s) : s[i] \in Symbols \cup Int
    BY DEF Streams
  <1>2. LineEnd(s) \in 1..Len(s)
    BY <1>1, LineEndType
  <1> DEFINE end == LineEnd(s)
             rest == SubSeq(s, end + 1, Len(s))
             body == SubSeq(s, 2, end - 1)
  <1>3. rest \in Streams /\ Len(rest) = Len(s) - end /\ Len(rest) \in Nat
    <2>1. \A i \in (end + 1)..Len(s) : s[i] \in Symbols \cup Int
      BY <1>1, <1>2
    <2>2. /\ rest \in Seq(Symbols \cup Int)
          /\ Len(rest) = IF end + 1 <= Len(s) THEN Len(s) - (end + 1) + 1 ELSE 0
      BY <1>1, <1>2, <2>1, SubSeqProperties
    <2> QED
      BY <1>1, <1>2, <2>2 DEF Streams
  <1>4. IsNumber(body) => body[1] \in Int
    <2>1. \A i \in 2..(end - 1) : s[i] \in Symbols \cup Int
      BY <1>1, <1>2
    <2>2. body \in Seq(Symbols \cup Int)
      BY <1>1, <1>2, <2>1, SubSeqProperties
    <2>3. Len(body) = 1 => body[1] \in Symbols \cup Int
      BY <2>2
    <2> QED
      BY <2>3 DEF IsNumber
  <1> QED
    BY <1>1, <1>2, <1>3, <1>4

\* ReadOne chooses by the first line.
Choice(end, head, number, minus, items, null, bulk, integer, bytes, inline) ==
    CASE end = 0 -> Fails
      [] end > 0 /\ head \in {Star, Dollar, Colon} /\ ~number -> Fails
      [] end > 0 /\ head = Star /\ number -> IF minus THEN null ELSE items
      [] end > 0 /\ head = Dollar /\ number -> bulk
      [] end > 0 /\ head = Colon /\ number -> integer
      [] end > 0 /\ head \in {Plus, Minus} -> bytes
      [] end > 0 /\ head \notin {Star, Dollar, Colon, Plus, Minus} -> inline

\* A call, by the head of the first line.
LEMMA ReadOneIs ==
    ASSUME NEW nested, NEW s \in Streams
    PROVE  LET end == LineEnd(s)
               head == s[1]
               body == SubSeq(s, 2, end - 1)
               rest == SubSeq(s, end + 1, Len(s))
           IN /\ end = 0 => ReadOne(nested, s) = Fails
              /\ end # 0 =>
                   /\ head \in {Star, Dollar, Colon} /\ ~IsNumber(body)
                        => ReadOne(nested, s) = Fails
                   /\ head = Star /\ IsNumber(body) /\ body[1] < 0
                        => ReadOne(nested, s) = Read(Null, rest)
                   /\ head = Star /\ IsNumber(body) /\ ~(body[1] < 0)
                        => ReadOne(nested, s) = ReadItems(nested, body[1], rest)
                   /\ head = Dollar /\ IsNumber(body)
                        => ReadOne(nested, s) = ReadBulk(body[1], rest)
                   /\ head = Colon /\ IsNumber(body)
                        => ReadOne(nested, s) = Read(Number(body[1]), rest)
                   /\ head \in {Plus, Minus} => ReadOne(nested, s) = Read(Bytes(body), rest)
                   /\ head \notin {Star, Dollar, Colon, Plus, Minus}
                        => ReadOne(nested, s)
                             = Read(Array(IF end = 1 THEN <<>>
                                          ELSE <<Bytes(SubSeq(s, 1, end - 1))>>), rest)
  <1> DEFINE end == LineEnd(s)
             head == s[1]
             body == SubSeq(s, 2, end - 1)
             rest == SubSeq(s, end + 1, Len(s))
             number == IsNumber(body)
             minus == body[1] < 0
             items == ReadItems(nested, body[1], rest)
             null == Read(Null, rest)
             bulk == ReadBulk(body[1], rest)
             integer == Read(Number(body[1]), rest)
             bytes == Read(Bytes(body), rest)
             inline == Read(Array(IF end = 1 THEN <<>>
                                  ELSE <<Bytes(SubSeq(s, 1, end - 1))>>), rest)
             choice == ReadOne(nested, s)
  <1>1. choice = Choice(end, head, number, minus, items, null, bulk, integer, bytes, inline)
    BY DEF ReadOne, Choice
  <1>2. end = 0 => choice = Fails
    BY DEF ReadOne
  <1>3. end # 0 => end \in Nat /\ end > 0
    <2>1. end # 0 => end \in 1..Len(s) /\ Len(s) \in Nat
      BY AfterLine, Zenon
    <2> HIDE DEF end
    <2> QED
      BY <2>1
  <1>4. number \in BOOLEAN
    BY DEF IsNumber
  <1>5. minus \in BOOLEAN
    OBVIOUS
  <1> HIDE DEF end, head, number, minus, items, null, bulk, integer, bytes, inline, choice
  <1>6. end # 0 /\ head = Star /\ ~number => choice = Fails
    BY <1>1, <1>3, Heads DEF Choice
  <1>7. end # 0 /\ head = Dollar /\ ~number => choice = Fails
    BY <1>1, <1>3, Heads DEF Choice
  <1>8. end # 0 /\ head = Colon /\ ~number => choice = Fails
    BY <1>1, <1>3, Heads DEF Choice
  <1>9. end # 0 /\ head = Star /\ number /\ minus => choice = null
    BY <1>1, <1>3, Heads DEF Choice
  <1>10. end # 0 /\ head = Star /\ number /\ ~minus => choice = items
    BY <1>1, <1>3, Heads DEF Choice
  <1>11. end # 0 /\ head = Dollar /\ number => choice = bulk
    BY <1>1, <1>3, Heads DEF Choice
  <1>12. end # 0 /\ head = Colon /\ number => choice = integer
    BY <1>1, <1>3, Heads DEF Choice
  <1>13. end # 0 /\ head \in {Plus, Minus} => choice = bytes
    BY <1>1, <1>3, Heads DEF Choice
  <1>14. end # 0 /\ head \notin {Star, Dollar, Colon, Plus, Minus} => choice = inline
    BY <1>1, <1>3, Heads DEF Choice
  <1> QED
    BY <1>2, <1>6, <1>7, <1>8, <1>9, <1>10, <1>11, <1>12, <1>13, <1>14 DEF end, head, number, minus, items, null, bulk, integer, bytes, inline, choice

\* What a call may give.
LEMMA ReadOneCases ==
    ASSUME NEW nested, NEW s \in Streams
    PROVE  LET end == LineEnd(s)
               rest == SubSeq(s, end + 1, Len(s))
               body == SubSeq(s, 2, end - 1)
           IN \/ ReadOne(nested, s) = Fails
              \/ end # 0 /\ \E v : ReadOne(nested, s) = Read(v, rest)
              \/ /\ end # 0 /\ IsNumber(body) /\ ~(body[1] < 0)
                 /\ ReadOne(nested, s) = ReadItems(nested, body[1], rest)
              \/ /\ end # 0 /\ IsNumber(body)
                 /\ ReadOne(nested, s) = ReadBulk(body[1], rest)
  <1> DEFINE end == LineEnd(s)
             rest == SubSeq(s, end + 1, Len(s))
             body == SubSeq(s, 2, end - 1)
             read == ReadOne(nested, s)
  <1>1. /\ end = 0 => read = Fails
        /\ end # 0 /\ s[1] \in {Star, Dollar, Colon} /\ ~IsNumber(body) => read = Fails
        /\ end # 0 /\ s[1] = Star /\ IsNumber(body) /\ ~(body[1] < 0)
             => read = ReadItems(nested, body[1], rest)
        /\ end # 0 /\ s[1] = Dollar /\ IsNumber(body) => read = ReadBulk(body[1], rest)
    BY ReadOneIs, Zenon
  <1>2. /\ end # 0 /\ s[1] = Star /\ IsNumber(body) /\ body[1] < 0
             => \E v : read = Read(v, rest)
        /\ end # 0 /\ s[1] = Colon /\ IsNumber(body) => \E v : read = Read(v, rest)
        /\ end # 0 /\ s[1] \in {Plus, Minus} => \E v : read = Read(v, rest)
        /\ end # 0 /\ s[1] \notin {Star, Dollar, Colon, Plus, Minus}
             => \E v : read = Read(v, rest)
    BY ReadOneIs, Zenon
  <1> HIDE DEF end, rest, body, read
  <1>3. \/ read = Fails
        \/ end # 0 /\ \E v : read = Read(v, rest)
        \/ /\ end # 0 /\ IsNumber(body) /\ ~(body[1] < 0)
           /\ read = ReadItems(nested, body[1], rest)
        \/ end # 0 /\ IsNumber(body) /\ read = ReadBulk(body[1], rest)
    BY <1>1, <1>2, Zenon
  <1> QED
    BY <1>3 DEF end, rest, body, read

\* It depends on shorter streams only.
LEMMA ReadOneLocal ==
    ASSUME NEW nested, NEW other, NEW s \in Streams,
           LET end == LineEnd(s)
               rest == SubSeq(s, end + 1, Len(s))
           IN end # 0 => \A n \in Nat : ReadItems(nested, n, rest) = ReadItems(other, n, rest)
    PROVE  ReadOne(nested, s) = ReadOne(other, s)
  <1> DEFINE end == LineEnd(s)
             rest == SubSeq(s, end + 1, Len(s))
             body == SubSeq(s, 2, end - 1)
             n == body[1]
  <1>1. end # 0 /\ IsNumber(body) => n \in Int
    BY AfterLine, Zenon
  <1>2. end # 0 /\ IsNumber(body) /\ ~(n < 0)
           => ReadItems(nested, n, rest) = ReadItems(other, n, rest)
    <2> HIDE DEF end, rest, body, n
    <2>1. end # 0 /\ IsNumber(body) /\ ~(n < 0) => n \in Nat
      BY <1>1
    <2>2. end # 0 => \A m \in Nat : ReadItems(nested, m, rest) = ReadItems(other, m, rest)
      BY DEF end, rest
    <2> QED
      BY <2>1, <2>2
  <1>3. end # 0 /\ s[1] = Star /\ IsNumber(body) /\ ~(body[1] < 0)
           => ReadOne(nested, s) = ReadOne(other, s)
    BY <1>2, ReadOneIs, Zenon
  <1>4. \/ end = 0 \/ s[1] # Star \/ ~IsNumber(body) \/ body[1] < 0
        => ReadOne(nested, s) = ReadOne(other, s)
    BY ReadOneIs, Zenon
  <1> QED
    BY <1>3, <1>4

LEMMA BulkTrim ==
    ASSUME NEW n \in Int, NEW s \in Streams
    PROVE  Trim(ReadBulk(n, s), Len(s))
  <1>1. Len(s) \in Nat /\ \A i \in 1..Len(s) : s[i] \in Symbols \cup Int
    BY DEF Streams
  <1>2. CASE n < 0
    BY <1>1, <1>2, ReadTrim DEF ReadBulk
  <1>3. CASE n >= 0 /\ Len(s) < n + 1
    BY <1>1, <1>3, FailsTrim DEF ReadBulk
  <1>4. CASE n >= 0 /\ Len(s) >= n + 1
    <2> DEFINE rest == SubSeq(s, n + 2, Len(s))
    <2>1. \A i \in (n + 2)..Len(s) : s[i] \in Symbols \cup Int
      BY <1>1, <1>4
    <2>2. /\ rest \in Seq(Symbols \cup Int)
          /\ Len(rest) = IF n + 2 <= Len(s) THEN Len(s) - (n + 2) + 1 ELSE 0
      BY <1>1, <1>4, <2>1, SubSeqProperties
    <2>3. rest \in Streams /\ Len(rest) <= Len(s)
      BY <1>1, <1>4, <2>2 DEF Streams
    <2>4. ReadBulk(n, s) = Read(Bytes(SubSeq(s, 1, n)), rest)
      BY <1>1, <1>4 DEF ReadBulk
    <2> QED
      BY <1>1, <2>3, <2>4, ReadTrim
  <1> QED
    BY <1>1, <1>2, <1>3, <1>4

LEMMA ReaderTrim ==
    ASSUME NEW depth \in Nat, NEW s \in Streams
    PROVE  Trim(Reader(depth)[s], Len(s))
  <1> DEFINE T == {m \in Nat : \E t \in Streams : ~Trim(Reader(m)[t], Len(t))}
  <1>1. CASE T # {}
    <2> HIDE DEF T
    <2>1. T \subseteq Nat
      BY DEF T
    <2>2. PICK m \in T : \A k \in T : m <= k
      BY <1>1, <2>1, LeastNumber
    <2>3. m \in Nat
      BY <2>1
    <2>4. PICK t \in Streams : ~Trim(Reader(m)[t], Len(t))
      BY DEF T
    <2>5. Len(t) \in Nat
      BY DEF Streams
    <2>6. m # 0
      BY <2>3, <2>4, <2>5, ReaderSteps, FailsTrim
    <2>7. m - 1 \in Nat /\ m - 1 \notin T
      BY <2>2, <2>3, <2>6
    <2>8. \A u \in Streams : Trim(Reader(m - 1)[u], Len(u))
      BY <2>7 DEF T
    <2>9. Reader(m)[t] = ReadOne(Reader(m - 1), t)
      BY <2>3, <2>6, ReaderSteps
    <2> DEFINE end == LineEnd(t)
               rest == SubSeq(t, end + 1, Len(t))
               body == SubSeq(t, 2, end - 1)
    <2>10. end # 0 => /\ rest \in Streams /\ Len(rest) \in Nat /\ Len(rest) <= Len(t)
                      /\ IsNumber(body) => body[1] \in Int
      <3>1. end # 0 => /\ rest \in Streams /\ Len(rest) \in Nat /\ Len(rest) = Len(t) - end
                       /\ end \in 1..Len(t)
                       /\ IsNumber(body) => body[1] \in Int
        BY AfterLine, Zenon
      <3> HIDE DEF end, rest, body
      <3> QED
        BY <2>5, <3>1
    <2>11. \/ ReadOne(Reader(m - 1), t) = Fails
           \/ end # 0 /\ \E v : ReadOne(Reader(m - 1), t) = Read(v, rest)
           \/ /\ end # 0 /\ IsNumber(body) /\ ~(body[1] < 0)
              /\ ReadOne(Reader(m - 1), t) = ReadItems(Reader(m - 1), body[1], rest)
           \/ /\ end # 0 /\ IsNumber(body)
              /\ ReadOne(Reader(m - 1), t) = ReadBulk(body[1], rest)
      BY ReadOneCases
    <2> HIDE DEF end, rest, body
    <2>12. \A r : end # 0 /\ Trim(r, Len(rest)) => Trim(r, Len(t))
      BY <2>5, <2>10 DEF Trim, Streams
    <2>13. end # 0 /\ IsNumber(body) /\ ~(body[1] < 0)
             => Trim(ReadItems(Reader(m - 1), body[1], rest), Len(rest))
      <3> SUFFICES ASSUME end # 0, IsNumber(body), ~(body[1] < 0)
                   PROVE  Trim(ReadItems(Reader(m - 1), body[1], rest), Len(rest))
        OBVIOUS
      <3>1. body[1] \in Nat /\ rest \in Streams /\ Len(rest) \in Nat /\ Len(rest) <= Len(rest)
        BY <2>10
      <3>2. \A u \in Streams : Len(u) <= Len(rest) => Trim(Reader(m - 1)[u], Len(u))
        BY <2>8
      <3> QED
        BY <3>1, <3>2, ItemsTrim
    <2> QED
      BY <2>4, <2>5, <2>9, <2>10, <2>11, <2>12, <2>13, FailsTrim, ReadTrim, BulkTrim
  <1> QED
    BY <1>1 DEF T

\* Two that agree on short streams take the same items from one of them.
LEMMA ItemsAgree ==
    ASSUME NEW nested, NEW other, NEW N \in Nat, NEW s \in Streams, Len(s) <= N,
           \A t \in Streams : Len(t) <= N => Trim(nested[t], Len(t)) /\ nested[t] = other[t],
           NEW n \in Nat
    PROVE  ReadItems(nested, n, s) = ReadItems(other, n, s)
  <1> DEFINE T == {m \in Nat : ReadItems(nested, m, s) # ReadItems(other, m, s)}
  <1>0. Len(s) \in Nat
    BY DEF Streams
  <1>1. CASE T # {}
    <2> HIDE DEF T
    <2>1. T \subseteq Nat
      BY DEF T
    <2>2. PICK m \in T : \A k \in T : m <= k
      BY <1>1, <2>1, LeastNumber
    <2>3. m \in Nat /\ ReadItems(nested, m, s) # ReadItems(other, m, s)
      BY <2>1 DEF T
    <2>4. m # 0
      BY <2>3, ItemsSteps
    <2>5. m - 1 \in Nat /\ m - 1 \notin T
      BY <2>2, <2>3, <2>4
    <2> DEFINE before == ReadItems(nested, m - 1, s)
    <2>6. before = ReadItems(other, m - 1, s)
      BY <2>5 DEF T
    <2>7. Trim(before, Len(s))
      BY <2>5, ItemsTrim
    <2>8. /\ ReadItems(nested, m, s) = Before(before, nested)
          /\ ReadItems(other, m, s) = Before(before, other)
      BY <2>3, <2>4, <2>6, ItemsSteps
    <2> HIDE DEF before
    <2>9. before.rest \in Streams /\ Len(before.rest) \in Nat /\ Len(before.rest) <= N
      BY <1>0, <2>7 DEF Trim, Streams
    <2>10. nested[before.rest] = other[before.rest]
      BY <2>9
    <2> QED
      BY <2>3, <2>8, <2>10 DEF Before
  <1> QED
    BY <1>1 DEF T

LEMMA ReadOneAgree ==
    ASSUME NEW nested, NEW other, NEW s \in Streams,
           \A t \in Streams : Len(t) < Len(s) => Trim(nested[t], Len(t)) /\ nested[t] = other[t]
    PROVE  ReadOne(nested, s) = ReadOne(other, s)
  <1> DEFINE end == LineEnd(s)
             rest == SubSeq(s, end + 1, Len(s))
  <1>1. ASSUME end # 0, NEW n \in Nat
        PROVE  ReadItems(nested, n, rest) = ReadItems(other, n, rest)
    <2>1. rest \in Streams /\ Len(rest) \in Nat /\ Len(rest) < Len(s) /\ Len(s) \in Nat
      BY <1>1, AfterLine
    <2> HIDE DEF rest
    <2>2. \A t \in Streams : Len(t) <= Len(rest) => Len(t) < Len(s)
      BY <2>1 DEF Streams
    <2>3. Len(rest) <= Len(rest)
      BY <2>1
    <2> QED
      BY <2>1, <2>2, <2>3, ItemsAgree
  <1> QED
    BY <1>1, ReadOneLocal

\* More depth than a stream has symbols makes no difference.
LEMMA DepthEnough ==
    ASSUME NEW s \in Streams, NEW depth \in Nat, depth >= Len(s)
    PROVE  Reader(depth)[s] = ReadResp(s)
  <1> DEFINE T == {m \in Nat : \E t \in Streams : \E d \in Nat :
                     Len(t) = m /\ d >= m /\ Reader(d)[t] # Reader(m)[t]}
  <1>1. CASE T # {}
    <2> HIDE DEF T
    <2>1. T \subseteq Nat
      BY DEF T
    <2>2. PICK m \in T : \A k \in T : m <= k
      BY <1>1, <2>1, LeastNumber
    <2>3. m \in Nat
      BY <2>1
    <2>4. PICK t \in Streams, d \in Nat : Len(t) = m /\ d >= m /\ Reader(d)[t] # Reader(m)[t]
      BY DEF T
    <2>5. ASSUME NEW u \in Streams, Len(u) < m, NEW e \in Nat, e >= Len(u)
          PROVE  Reader(e)[u] = Reader(Len(u))[u]
      <3>1. Len(u) \in Nat
        BY DEF Streams
      <3>2. Len(u) \notin T
        BY <2>2, <2>3, <2>5, <3>1
      <3> QED
        BY <2>5, <3>1, <3>2 DEF T
    <2>6. CASE m = 0
      <3>1. t = <<>>
        BY <2>4, <2>6 DEF Streams
      <3>2. LineEnd(t) = 0
        BY <3>1, NoLineEnd
      <3>3. \A x : ReadOne(x, t) = Fails
        BY <3>2 DEF ReadOne
      <3>4. \A e \in Nat : Reader(e)[t] = Fails
        BY <3>3, ReaderSteps
      <3> QED
        BY <2>3, <2>4, <3>4
    <2>7. CASE m # 0
      <3>1. m - 1 \in Nat /\ d - 1 \in Nat /\ d # 0
        BY <2>3, <2>4, <2>7
      <3>2. /\ Reader(m)[t] = ReadOne(Reader(m - 1), t)
            /\ Reader(d)[t] = ReadOne(Reader(d - 1), t)
        BY <2>3, <2>4, <2>7, <3>1, ReaderSteps
      <3>3. ASSUME NEW u \in Streams, Len(u) < Len(t)
            PROVE  Trim(Reader(m - 1)[u], Len(u)) /\ Reader(m - 1)[u] = Reader(d - 1)[u]
        <4>1. Len(u) \in Nat /\ m - 1 >= Len(u) /\ d - 1 >= Len(u) /\ Len(u) < m
          BY <2>3, <2>4, <3>1, <3>3 DEF Streams
        <4> QED
          BY <2>5, <3>1, <4>1, ReaderTrim
      <3> QED
        BY <2>4, <3>2, <3>3, ReadOneAgree
    <2> QED
      BY <2>6, <2>7
  <1>2. Len(s) \in Nat
    BY DEF Streams
  <1> QED
    BY <1>1, <1>2 DEF T, ReadResp

\* readResp is what its code says: one call of it, whose nested calls are
\* calls of itself, on whatever comes (proxy.go:162-233).
THEOREM ReadRespCallsItself ==
    ASSUME NEW s \in Streams
    PROVE  ReadResp(s) = ReadOne([t \in Streams |-> ReadResp(t)], s)
  <1> DEFINE resp == [t \in Streams |-> ReadResp(t)]
  <1>1. Len(s) \in Nat
    BY DEF Streams
  <1>2. Reader(Len(s) + 1)[s] = ReadOne(Reader(Len(s)), s)
    BY <1>1, ReaderSteps
  <1>3. Reader(Len(s) + 1)[s] = ReadResp(s)
    BY <1>1, DepthEnough
  <1>4. ASSUME NEW t \in Streams, Len(t) < Len(s)
        PROVE  Trim(Reader(Len(s))[t], Len(t)) /\ Reader(Len(s))[t] = resp[t]
    <2>1. Len(t) \in Nat /\ Len(s) >= Len(t)
      BY <1>1, <1>4 DEF Streams
    <2> QED
      BY <1>1, <2>1, DepthEnough, ReaderTrim
  <1> HIDE DEF resp
  <1>5. ReadOne(Reader(Len(s)), s) = ReadOne(resp, s)
    BY <1>4, ReadOneAgree
  <1> QED
    BY <1>2, <1>3, <1>5 DEF resp

-----------------------------------------------------------------------------
\* A stream that begins with a line of a head and one symbol.
LEMMA HeadLine ==
    ASSUME NEW h \in Symbols \ {Crlf}, NEW x \in (Symbols \cup Int) \ {Crlf}, NEW r \in Streams
    PROVE  LET s == <<h, x, Crlf>> \o r IN
           /\ s \in Streams /\ Len(s) = 3 + Len(r) /\ s[1] = h /\ LineEnd(s) = 3
           /\ SubSeq(s, 2, 3 - 1) = <<x>> /\ SubSeq(s, 3 + 1, Len(s)) = r
  <1> DEFINE S == Symbols \cup Int
             line == <<h, x, Crlf>>
             s == line \o r
  <1>1. /\ line \in Seq(S) /\ r \in Seq(S) /\ Len(line) = 3
        /\ line[1] = h /\ line[2] = x /\ line[3] = Crlf
    BY Heads DEF Streams
  <1> HIDE DEF line, S
  <1>2. /\ s \in Seq(S) /\ Len(s) = 3 + Len(r) /\ Len(r) \in Nat
        /\ \A i \in 1..(3 + Len(r)) : s[i] = IF i <= 3 THEN line[i] ELSE r[i - 3]
    <2>1. /\ s \in Seq(S) /\ Len(s) = Len(line) + Len(r)
          /\ \A i \in 1..(Len(line) + Len(r)) :
               s[i] = IF i <= Len(line) THEN line[i] ELSE r[i - Len(line)]
      BY <1>1, ConcatProperties, ZenonT(60)
    <2>2. Len(r) \in Nat
      BY <1>1
    <2> HIDE DEF s
    <2> QED
      BY <1>1, <2>1, <2>2
  <1> HIDE DEF s
  <1>3. s[1] = h /\ s[2] = x /\ s[3] = Crlf /\ DOMAIN s = 1..Len(s) /\ Len(s) \in Nat
    BY <1>1, <1>2
  <1>4. LineEnd(s) = 3
    <2>1. \A i \in 1..Len(s) : i < 3 => s[i] # Crlf
      BY <1>2, <1>3
    <2> QED
      BY <1>2, <1>3, <2>1, LineEndIs
  <1>5. SubSeq(s, 2, 2) = <<x>>
    <2>1. \A i \in 2..2 : s[i] \in S
      BY <1>3 DEF S
    <2>2. /\ SubSeq(s, 2, 2) \in Seq(S) /\ Len(SubSeq(s, 2, 2)) = 1
          /\ SubSeq(s, 2, 2)[1] = s[2]
      BY <2>1, SubSeqProperties
    <2>3. <<x>> \in Seq(S) /\ Len(<<x>>) = 1 /\ <<x>>[1] = x
      BY DEF S
    <2> QED
      <3>1. \A i \in 1..1 : SubSeq(s, 2, 2)[i] = <<x>>[i]
        BY <1>3, <2>2, <2>3
      <3> QED
        BY <2>2, <2>3, <3>1, SeqEqual
  <1>6. SubSeq(s, 4, Len(s)) = r
    <2>1. \A i \in 4..Len(s) : s[i] \in S
      BY <1>2
    <2>2. /\ SubSeq(s, 4, Len(s)) \in Seq(S) /\ Len(SubSeq(s, 4, Len(s))) = Len(r)
          /\ \A i \in 1..(Len(s) - 4 + 1) : SubSeq(s, 4, Len(s))[i] = s[4 + i - 1]
      BY <1>2, <2>1, SubSeqProperties
    <2>3. \A i \in 1..Len(r) : SubSeq(s, 4, Len(s))[i] = r[i]
      BY <1>2, <2>2
    <2> QED
      BY <1>1, <2>2, <2>3, SeqEqual
  <1> QED
    BY <1>2, <1>3, <1>4, <1>5, <1>6 DEF s, line, S, Streams

Resp == [t \in Streams |-> ReadResp(t)]

LEMMA LineRead ==
    ASSUME NEW h \in Symbols \ {Crlf}, NEW x \in (Symbols \cup Int) \ {Crlf}, NEW r \in Streams
    PROVE  LET read == ReadResp(<<h, x, Crlf>> \o r) IN
           /\ h \in {Plus, Minus} => read = Read(Bytes(<<x>>), r)
           /\ h = Colon /\ x \in Int => read = Read(Number(x), r)
           /\ h \in {Star, Dollar} /\ x = -1 => read = Read(Null, r)
           /\ h = Dollar /\ x \in Nat => read = ReadBulk(x, r)
           /\ h = Star /\ x \in Nat => read = ReadItems(Resp, x, r)
  <1> DEFINE s == <<h, x, Crlf>> \o r
             one == ReadOne(Resp, s)
  <1>1. /\ s \in Streams /\ s[1] = h /\ LineEnd(s) = 3
        /\ SubSeq(s, 2, LineEnd(s) - 1) = <<x>> /\ SubSeq(s, LineEnd(s) + 1, Len(s)) = r
    BY HeadLine
  <1>2. ReadResp(s) = one
    BY <1>1, ReadRespCallsItself DEF Resp
  <1> HIDE DEF s
  <1>3. /\ <<x>>[1] = x /\ (x \in Int => IsNumber(<<x>>))
        /\ (x = -1 => x < 0) /\ (x \in Nat => ~(x < 0))
    BY Heads DEF IsNumber
  <1>4. /\ h = Star /\ IsNumber(<<x>>) /\ x < 0 => one = Read(Null, r)
        /\ h = Star /\ IsNumber(<<x>>) /\ ~(x < 0) => one = ReadItems(Resp, x, r)
        /\ h = Dollar /\ IsNumber(<<x>>) => one = ReadBulk(x, r)
        /\ h = Colon /\ IsNumber(<<x>>) => one = Read(Number(x), r)
        /\ h \in {Plus, Minus} => one = Read(Bytes(<<x>>), r)
    <2>1. LineEnd(s) # 0
      BY <1>1
    <2> QED
      BY <1>1, <1>3, <2>1, ReadOneIs
  <1> HIDE DEF one
  <1>5. h = Dollar /\ x = -1 => one = Read(Null, r)
    BY <1>3, <1>4 DEF ReadBulk
  <1> QED
    BY <1>2, <1>3, <1>4, <1>5 DEF s

\* A stream without a line end cannot be read.
LEMMA NoLineRead ==
    ASSUME NEW s \in Streams, \A i \in 1..Len(s) : s[i] # Crlf
    PROVE  ReadResp(s) = Fails
  <1>1. DOMAIN s = 1..Len(s)
    BY DEF Streams
  <1>2. LineEnd(s) = 0
    BY <1>1, NoLineEnd
  <1>3. ReadOne(Resp, s) = Fails
    BY <1>2, ReadOneIs
  <1> QED
    BY <1>3, ReadRespCallsItself DEF Resp

-----------------------------------------------------------------------------
\* wire is a frame of value: readResp takes it off any stream it begins,
\* and fails on any that ends inside it.
ReadsBack(value, wire) ==
    /\ value # Failed /\ wire \in Streams /\ wire # <<>>
    /\ \A rest \in Streams : ReadResp(wire \o rest) = Read(value, rest)
    /\ \A n \in 0..(Len(wire) - 1) : ReadResp(SubSeq(wire, 1, n)) = Fails

\* What two joined sequences begin with.
LEMMA CutOfJoin ==
    ASSUME NEW S, NEW s \in Seq(S), NEW t \in Seq(S), NEW n \in 0..(Len(s) + Len(t))
    PROVE  /\ n <= Len(s) => SubSeq(s \o t, 1, n) = SubSeq(s, 1, n)
           /\ n >= Len(s) => SubSeq(s \o t, 1, n) = s \o SubSeq(t, 1, n - Len(s))
  <1> DEFINE w == s \o t
             cut == SubSeq(w, 1, n)
             a == Len(s)
             b == Len(t)
  <1>1. /\ w \in Seq(S) /\ Len(w) = a + b
        /\ \A i \in 1..(a + b) : w[i] = IF i <= a THEN s[i] ELSE t[i - a]
    BY ConcatProperties, ZenonT(60)
  <1>2. a \in Nat /\ b \in Nat /\ n \in Nat /\ n <= a + b
    OBVIOUS
  <1> HIDE DEF w
  <1>3. /\ cut \in Seq(S) /\ Len(cut) = n /\ \A i \in 1..n : cut[i] = w[i]
    <2>1. \A i \in 1..n : w[i] \in S
      BY <1>1, <1>2
    <2>2. /\ cut \in Seq(S) /\ Len(cut) = (IF 1 <= n THEN n - 1 + 1 ELSE 0)
          /\ \A i \in 1..(n - 1 + 1) : cut[i] = w[1 + i - 1]
      BY <1>2, <2>1, SubSeqProperties
    <2> QED
      BY <1>2, <2>2
  <1> HIDE DEF cut
  <1>4. ASSUME n <= a PROVE cut = SubSeq(s, 1, n)
    <2> DEFINE part == SubSeq(s, 1, n)
    <2>1. \A i \in 1..n : s[i] \in S
      BY <1>2, <1>4
    <2>2. /\ part \in Seq(S) /\ Len(part) = (IF 1 <= n THEN n - 1 + 1 ELSE 0)
          /\ \A i \in 1..(n - 1 + 1) : part[i] = s[1 + i - 1]
      BY <1>2, <2>1, SubSeqProperties
    <2> HIDE DEF part
    <2>3. Len(part) = n /\ \A i \in 1..n : part[i] = cut[i]
      BY <1>1, <1>2, <1>3, <1>4, <2>2
    <2> QED
      BY <1>3, <2>2, <2>3, SeqEqual DEF part
  <1>5. ASSUME n >= a PROVE cut = s \o SubSeq(t, 1, n - a)
    <2> DEFINE part == SubSeq(t, 1, n - a)
               joined == s \o part
    <2>1. n - a \in Nat /\ \A i \in 1..(n - a) : t[i] \in S
      BY <1>2, <1>5
    <2>2. /\ part \in Seq(S) /\ Len(part) = (IF 1 <= n - a THEN n - a - 1 + 1 ELSE 0)
          /\ \A i \in 1..(n - a - 1 + 1) : part[i] = t[1 + i - 1]
      BY <2>1, SubSeqProperties
    <2>3. Len(part) = n - a /\ \A i \in 1..(n - a) : part[i] = t[i]
      BY <2>1, <2>2
    <2> HIDE DEF part
    <2>4. /\ joined \in Seq(S) /\ Len(joined) = a + Len(part)
          /\ \A i \in 1..(a + Len(part)) : joined[i] = IF i <= a THEN s[i] ELSE part[i - a]
      BY <2>2, ConcatProperties, ZenonT(60)
    <2> HIDE DEF joined, a, b
    <2>5. Len(joined) = n /\ \A i \in 1..n : joined[i] = cut[i]
      <3>1. Len(joined) = n
        BY <1>2, <2>3, <2>4
      <3>2. ASSUME NEW i \in 1..n PROVE joined[i] = cut[i]
        <4>1. i \in 1..(a + Len(part)) /\ i \in 1..(a + b)
          BY <1>2, <2>3
        <4>2. cut[i] = (IF i <= a THEN s[i] ELSE t[i - a])
          BY <1>1, <1>3, <4>1
        <4>3. joined[i] = (IF i <= a THEN s[i] ELSE part[i - a])
          BY <2>4, <4>1
        <4>4. CASE i <= a
          BY <4>2, <4>3, <4>4
        <4>5. CASE ~(i <= a)
          <5>1. i - a \in 1..(n - a)
            BY <1>2, <4>5
          <5> QED
            BY <2>3, <4>2, <4>3, <4>5, <5>1
        <4> QED
          BY <4>4, <4>5
      <3> QED
        BY <3>1, <3>2
    <2> QED
      BY <1>3, <2>4, <2>5, SeqEqual DEF part, joined, a
  <1> QED
    BY <1>4, <1>5 DEF cut, w, a

\* A frame of a line and a tail, and how it is cut.
LEMMA LineFrame ==
    ASSUME NEW h \in Symbols \ {Crlf}, NEW x \in (Symbols \cup Int) \ {Crlf},
           NEW tail \in Streams, NEW value, value # Failed,
           \A rest \in Streams :
               ReadResp(<<h, x, Crlf>> \o (tail \o rest)) = Read(value, rest),
           \A n \in 0..(Len(tail) - 1) :
               ReadResp(<<h, x, Crlf>> \o SubSeq(tail, 1, n)) = Fails
    PROVE  ReadsBack(value, <<h, x, Crlf>> \o tail)
  <1> DEFINE S == Symbols \cup Int
             line == <<h, x, Crlf>>
             wire == line \o tail
  <1>1. /\ line \in Seq(S) /\ tail \in Seq(S) /\ Len(line) = 3
        /\ line[1] = h /\ line[2] = x
    BY Heads DEF Streams
  <1>2. h # Crlf /\ x # Crlf /\ Streams = Seq(S)
    BY DEF Streams
  <1> HIDE DEF line, S
  <1>3. /\ wire \in Seq(S) /\ Len(wire) = 3 + Len(tail) /\ Len(tail) \in Nat
        /\ \A i \in 1..(3 + Len(tail)) : wire[i] = IF i <= 3 THEN line[i] ELSE tail[i - 3]
    <2>1. /\ wire \in Seq(S) /\ Len(wire) = Len(line) + Len(tail)
          /\ \A i \in 1..(Len(line) + Len(tail)) :
               wire[i] = IF i <= Len(line) THEN line[i] ELSE tail[i - Len(line)]
      BY <1>1, ConcatProperties, ZenonT(60)
    <2>2. Len(tail) \in Nat
      BY <1>1
    <2> HIDE DEF wire
    <2> QED
      BY <1>1, <2>1, <2>2
  <1>4. ASSUME NEW rest \in Streams PROVE ReadResp(wire \o rest) = Read(value, rest)
    <2>1. wire \o rest = line \o (tail \o rest)
      BY <1>1, <1>2, ConcatAssociative
    <2> QED
      BY <2>1 DEF line
  <1>5. ASSUME NEW n \in 0..(Len(wire) - 1) PROVE ReadResp(SubSeq(wire, 1, n)) = Fails
    <2> DEFINE cut == SubSeq(wire, 1, n)
    <2>1. n \in Nat /\ n < 3 + Len(tail)
      BY <1>3, <1>5
    <2>2. /\ cut \in Seq(S) /\ Len(cut) = n
          /\ \A i \in 1..n : cut[i] = IF i <= 3 THEN line[i] ELSE tail[i - 3]
      <3> HIDE DEF wire
      <3>1. \A i \in 1..n : wire[i] \in S
        BY <1>3, <2>1
      <3>2. /\ cut \in Seq(S) /\ Len(cut) = (IF 1 <= n THEN n - 1 + 1 ELSE 0)
            /\ \A i \in 1..(n - 1 + 1) : cut[i] = wire[1 + i - 1]
        BY <2>1, <3>1, SubSeqProperties
      <3> QED
        BY <1>3, <2>1, <3>2
    <2>3. CASE n < 3
      <3> HIDE DEF cut
      <3>1. \A i \in 1..n : cut[i] # Crlf
        BY <1>1, <1>2, <2>1, <2>2, <2>3
      <3>2. ReadResp(cut) = Fails
        BY <1>2, <2>2, <3>1, NoLineRead
      <3> QED
        BY <3>2 DEF cut
    <2>4. CASE n >= 3
      <3>1. n - 3 \in 0..(Len(tail) - 1) /\ n \in 0..(Len(line) + Len(tail)) /\ n >= Len(line)
        BY <1>1, <1>3, <2>1, <2>4
      <3>2. cut = line \o SubSeq(tail, 1, n - Len(line))
        BY <1>1, <3>1, CutOfJoin, Zenon
      <3> HIDE DEF cut
      <3>3. cut = line \o SubSeq(tail, 1, n - 3)
        BY <1>1, <3>2
      <3> QED
        BY <3>1, <3>3 DEF cut, line
    <2> QED
      BY <2>1, <2>3, <2>4
  <1>6. wire # <<>>
    BY <1>3
  <1> QED
    BY <1>2, <1>3, <1>4, <1>5, <1>6 DEF ReadsBack, line

\* A line is a frame by itself.
LEMMA LineOnly ==
    ASSUME NEW h \in Symbols \ {Crlf}, NEW x \in (Symbols \cup Int) \ {Crlf},
           NEW value, value # Failed,
           \A rest \in Streams : ReadResp(<<h, x, Crlf>> \o rest) = Read(value, rest)
    PROVE  ReadsBack(value, <<h, x, Crlf>>)
  <1>1. <<h, x, Crlf>> \in Streams /\ <<>> \in Streams /\ Len(<<>>) = 0
    BY Heads DEF Streams
  <1>2. \A rest \in Streams : <<>> \o rest = rest
    BY ConcatEmptySeq DEF Streams
  <1>3. <<h, x, Crlf>> \o <<>> = <<h, x, Crlf>>
    BY <1>1, ConcatEmptySeq DEF Streams
  <1>4. \A n \in 0..(Len(<<>>) - 1) :
          ReadResp(<<h, x, Crlf>> \o SubSeq(<<>>, 1, n)) = Fails
    BY <1>1
  <1>5. ReadsBack(value, <<h, x, Crlf>> \o <<>>)
    BY <1>1, <1>2, <1>4, LineFrame
  <1> QED
    BY <1>3, <1>5

LEMMA NotFailed ==
    /\ \A p : Bytes(p) # Failed
    /\ \A n : Number(n) # Failed
    /\ \A vs : Array(vs) # Failed
    /\ Null # Failed
  <1>1. DOMAIN Failed = {"error"}
    BY DEF Failed
  <1>2. \A p : DOMAIN Bytes(p) = {"bytes"}
    BY DEF Bytes
  <1>3. \A n : DOMAIN Number(n) = {"int"}
    BY DEF Number
  <1>4. \A vs : DOMAIN Array(vs) = {"items"}
    BY DEF Array
  <1>5. DOMAIN Null = {"nil"}
    BY DEF Null
  <1>6. {"error"} # {"bytes"} /\ {"error"} # {"int"} /\ {"error"} # {"items"} /\ {"error"} # {"nil"}
    OBVIOUS
  <1> QED
    BY <1>1, <1>2, <1>3, <1>4, <1>5, <1>6

\* Simple strings, errors, integers and the null replies.
LEMMA SimpleFrames ==
    /\ \A h \in {Plus, Minus} : \A x \in (Symbols \cup Int) \ {Crlf} :
         ReadsBack(Bytes(<<x>>), <<h, x, Crlf>>)
    /\ \A n \in Int : ReadsBack(Number(n), <<Colon, n, Crlf>>)
    /\ \A h \in {Star, Dollar} : ReadsBack(Null, <<h, -1, Crlf>>)
  <1>0. /\ {Plus, Minus, Colon, Star, Dollar} \subseteq Symbols \ {Crlf}
        /\ Int \subseteq (Symbols \cup Int) \ {Crlf} /\ -1 \in Int
    BY Heads
  <1>1. ASSUME NEW h \in {Plus, Minus}, NEW x \in (Symbols \cup Int) \ {Crlf}
        PROVE  ReadsBack(Bytes(<<x>>), <<h, x, Crlf>>)
    BY <1>0, LineRead, LineOnly, NotFailed
  <1>2. ASSUME NEW n \in Int PROVE ReadsBack(Number(n), <<Colon, n, Crlf>>)
    BY <1>0, LineRead, LineOnly, NotFailed
  <1>3. ASSUME NEW h \in {Star, Dollar} PROVE ReadsBack(Null, <<h, -1, Crlf>>)
    BY <1>0, LineRead, LineOnly, NotFailed
  <1> QED
    BY <1>1, <1>2, <1>3

\* A bulk string, whatever its bytes are.
LEMMA BulkFrame ==
    ASSUME NEW p \in Streams
    PROVE  ReadsBack(Bytes(p), <<Dollar, Len(p), Crlf>> \o p \o <<Crlf>>)
  <1> DEFINE S == Symbols \cup Int
             n == Len(p)
             tail == p \o <<Crlf>>
  <1>1. /\ Dollar \in Symbols \ {Crlf} /\ n \in Nat /\ n \in (Symbols \cup Int) \ {Crlf}
        /\ Streams = Seq(S) /\ <<Crlf>> \in Seq(S) /\ Len(<<Crlf>>) = 1
    BY Heads DEF Streams
  <1>2. <<Dollar, n, Crlf>> \in Seq(S)
    BY <1>1, Heads
  <1> HIDE DEF S
  <1>3. /\ tail \in Seq(S) /\ Len(tail) = n + 1
        /\ \A i \in 1..(n + 1) : i <= n => tail[i] = p[i]
    BY <1>1, ConcatProperties
  <1> HIDE DEF tail, n
  <1>4. ASSUME NEW rest \in Streams
        PROVE  ReadResp(<<Dollar, n, Crlf>> \o (tail \o rest)) = Read(Bytes(p), rest)
    <2> DEFINE s == tail \o rest
    <2>1. /\ s \in Seq(S) /\ Len(s) = n + 1 + Len(rest) /\ Len(rest) \in Nat
          /\ \A i \in 1..(n + 1 + Len(rest)) :
               s[i] = IF i <= n + 1 THEN tail[i] ELSE rest[i - (n + 1)]
      <3>1. /\ s \in Seq(S) /\ Len(s) = Len(tail) + Len(rest)
            /\ \A i \in 1..(Len(tail) + Len(rest)) :
                 s[i] = IF i <= Len(tail) THEN tail[i] ELSE rest[i - Len(tail)]
        BY <1>1, <1>3, ConcatProperties, ZenonT(60)
      <3>2. Len(rest) \in Nat
        BY <1>1
      <3> HIDE DEF s
      <3> QED
        BY <1>1, <1>3, <3>1, <3>2
    <2> HIDE DEF s
    <2>2. SubSeq(s, 1, n) = p
      <3>1. \A i \in 1..n : s[i] \in S
        BY <1>1, <2>1
      <3>2. /\ SubSeq(s, 1, n) \in Seq(S) /\ Len(SubSeq(s, 1, n)) = (IF 1 <= n THEN n - 1 + 1 ELSE 0)
            /\ \A i \in 1..(n - 1 + 1) : SubSeq(s, 1, n)[i] = s[1 + i - 1]
        BY <1>1, <3>1, SubSeqProperties
      <3>3. \A i \in 1..n : SubSeq(s, 1, n)[i] = p[i]
        BY <1>1, <1>3, <2>1, <3>2
      <3>4. Len(SubSeq(s, 1, n)) = n /\ n = Len(p)
        BY <1>1, <3>2 DEF n
      <3> QED
        BY <1>1, <3>2, <3>3, <3>4, SeqEqual
    <2>3. SubSeq(s, n + 2, Len(s)) = rest
      <3>1. \A i \in (n + 2)..Len(s) : s[i] \in S
        BY <1>1, <2>1
      <3>2. /\ SubSeq(s, n + 2, Len(s)) \in Seq(S)
            /\ Len(SubSeq(s, n + 2, Len(s)))
                 = (IF n + 2 <= Len(s) THEN Len(s) - (n + 2) + 1 ELSE 0)
            /\ \A i \in 1..(Len(s) - (n + 2) + 1) :
                 SubSeq(s, n + 2, Len(s))[i] = s[n + 2 + i - 1]
        BY <1>1, <2>1, <3>1, SubSeqProperties
      <3>3. \A i \in 1..Len(rest) : SubSeq(s, n + 2, Len(s))[i] = rest[i]
        BY <1>1, <2>1, <3>2
      <3>4. Len(SubSeq(s, n + 2, Len(s))) = Len(rest)
        BY <1>1, <2>1, <3>2
      <3> QED
        BY <1>1, <3>2, <3>3, <3>4, SeqEqual
    <2>4. ReadBulk(n, s) = Read(Bytes(p), rest)
      <3>1. ~(n < 0) /\ ~(Len(s) < n + 1)
        BY <1>1, <2>1
      <3> QED
        BY <2>2, <2>3, <3>1 DEF ReadBulk
    <2>5. ReadResp(<<Dollar, n, Crlf>> \o s) = ReadBulk(n, s)
      BY <1>1, <2>1, LineRead
    <2> QED
      BY <2>4, <2>5 DEF s
  <1>5. ASSUME NEW k \in 0..(Len(tail) - 1)
        PROVE  ReadResp(<<Dollar, n, Crlf>> \o SubSeq(tail, 1, k)) = Fails
    <2>1. \A i \in 1..k : tail[i] \in S
      BY <1>1, <1>3
    <2>2. SubSeq(tail, 1, k) \in Seq(S) /\ Len(SubSeq(tail, 1, k)) = (IF 1 <= k THEN k - 1 + 1 ELSE 0)
      BY <2>1, SubSeqProperties
    <2>3. Len(SubSeq(tail, 1, k)) < n + 1 /\ ~(n < 0)
      BY <1>1, <1>3, <2>2
    <2>4. ReadBulk(n, SubSeq(tail, 1, k)) = Fails
      BY <2>3 DEF ReadBulk
    <2> QED
      BY <1>1, <2>2, <2>4, LineRead
  <1>6. ReadsBack(Bytes(p), <<Dollar, n, Crlf>> \o tail)
    BY <1>1, <1>3, <1>4, <1>5, LineFrame, NotFailed
  <1>7. <<Dollar, n, Crlf>> \o tail = <<Dollar, n, Crlf>> \o p \o <<Crlf>>
    BY <1>1, <1>2, ConcatAssociative DEF tail
  <1> QED
    BY <1>6, <1>7 DEF n

-----------------------------------------------------------------------------
\* The recursion of FlattenSeq, sequence by sequence.
Joins(f, seqs, n) ==
    f = [i \in 1..n |-> IF i = 1 THEN seqs[i] ELSE f[i - 1] \o seqs[i]]

LEMMA JoinsExtend ==
    ASSUME NEW seqs, NEW n \in Nat, NEW f, Joins(f, seqs, n)
    PROVE  \E g : Joins(g, seqs, n + 1)
  <1> DEFINE last == IF n = 0 THEN seqs[n + 1] ELSE f[n] \o seqs[n + 1]
             g == [i \in 1..(n + 1) |-> IF i = n + 1 THEN last ELSE f[i]]
  <1>1. \A i \in 1..(n + 1) : g[i] = IF i = 1 THEN seqs[i] ELSE g[i - 1] \o seqs[i]
    <2> SUFFICES ASSUME NEW i \in 1..(n + 1)
                 PROVE  g[i] = IF i = 1 THEN seqs[i] ELSE g[i - 1] \o seqs[i]
      OBVIOUS
    <2>1. CASE i = n + 1
      <3>1. g[i] = last /\ i = n + 1 /\ i - 1 = n /\ (n # 0 => g[n] = f[n])
        BY <2>1
      <3> HIDE DEF g
      <3> QED
        BY <2>1, <3>1
    <2>2. CASE i # n + 1
      <3>1. i \in 1..n /\ g[i] = f[i] /\ (i # 1 => g[i - 1] = f[i - 1])
        BY <2>2
      <3>2. f[i] = IF i = 1 THEN seqs[i] ELSE f[i - 1] \o seqs[i]
        BY <3>1 DEF Joins
      <3> HIDE DEF g
      <3> QED
        BY <3>1, <3>2
    <2> QED
      BY <2>1, <2>2
  <1>2. Joins(g, seqs, n + 1)
    <2>1. g = [i \in 1..(n + 1) |-> g[i]]
      OBVIOUS
    <2> HIDE DEF g
    <2> QED
      BY <1>1, <2>1 DEF Joins
  <1> QED
    BY <1>2

LEMMA JoinsExist ==
    ASSUME NEW seqs, NEW n \in Nat
    PROVE  \E f : Joins(f, seqs, n)
  <1> DEFINE T == {m \in Nat : ~\E f : Joins(f, seqs, m)}
  <1>1. CASE T # {}
    <2> HIDE DEF T
    <2>1. T \subseteq Nat
      BY DEF T
    <2>2. PICK m \in T : \A k \in T : m <= k
      BY <1>1, <2>1, LeastNumber
    <2>3. m # 0
      <3> DEFINE f == [i \in 1..0 |-> seqs[i]]
      <3>1. Joins(f, seqs, 0)
        BY DEF Joins
      <3> QED
        BY <3>1 DEF T
    <2>4. m - 1 \in Nat /\ m - 1 \notin T /\ (m - 1) + 1 = m
      BY <2>1, <2>2, <2>3
    <2>5. PICK f : Joins(f, seqs, m - 1)
      BY <2>4 DEF T
    <2>6. \E g : Joins(g, seqs, m)
      BY <2>4, <2>5, JoinsExtend
    <2> QED
      BY <2>6 DEF T
  <1> QED
    BY <1>1

\* upto[i]: the first i sequences in one.
JoinedUpto(upto, seqs) ==
    /\ upto[0] = <<>>
    /\ \A i \in 1..Len(seqs) : upto[i] = upto[i - 1] \o seqs[i]
    /\ upto[Len(seqs)] = FlattenSeq(seqs)

LEMMA Flattened ==
    ASSUME NEW S, NEW seqs \in Seq(Seq(S))
    PROVE  \E upto \in [0..Len(seqs) -> Seq(S)] : JoinedUpto(upto, seqs)
  <1> DEFINE n == Len(seqs)
             f == CHOOSE g : Joins(g, seqs, n)
             upto == [i \in 0..n |-> IF i = 0 THEN <<>> ELSE f[i]]
  <1>0. n \in Nat /\ \A i \in 1..n : seqs[i] \in Seq(S)
    OBVIOUS
  <1>1. Joins(f, seqs, n)
    BY <1>0, JoinsExist
  <1>2. n # 0 => FlattenSeq(seqs) = f[n]
    BY DEF FlattenSeq, Joins
  <1>3. n = 0 => FlattenSeq(seqs) = <<>>
    BY DEF FlattenSeq
  <1> HIDE DEF f, n
  <1>4. \A i \in 1..n : upto[i] = f[i] /\ upto[i - 1] = IF i = 1 THEN <<>> ELSE f[i - 1]
    BY <1>0
  <1>5. \A i \in 1..n : f[i] = IF i = 1 THEN seqs[i] ELSE f[i - 1] \o seqs[i]
    BY <1>1 DEF Joins
  <1>6. upto[0] = <<>> /\ upto = [i \in 0..n |-> upto[i]]
    BY <1>0
  <1>7. upto[n] = FlattenSeq(seqs)
    BY <1>0, <1>2, <1>3
  <1> HIDE DEF upto
  <1>8. \A i \in 1..n : upto[i] = upto[i - 1] \o seqs[i]
    <2> SUFFICES ASSUME NEW i \in 1..n PROVE upto[i] = upto[i - 1] \o seqs[i]
      OBVIOUS
    <2>1. CASE i = 1
      <3>1. upto[i] = seqs[i] /\ upto[i - 1] = <<>> /\ seqs[i] \in Seq(S)
        BY <1>0, <1>4, <1>5, <2>1
      <3> QED
        BY <3>1, ConcatEmptySeq
    <2>2. CASE i # 1
      BY <1>4, <1>5, <2>2
    <2> QED
      BY <2>1, <2>2
  <1>9. \A i \in 0..n : upto[i] \in Seq(S)
    <2> DEFINE T == {i \in Nat : i <= n /\ upto[i] \notin Seq(S)}
    <2>1. CASE T # {}
      <3> HIDE DEF T
      <3>1. T \subseteq Nat
        BY DEF T
      <3>2. PICK i \in T : \A k \in T : i <= k
        BY <2>1, <3>1, LeastNumber
      <3>3. i \in Nat /\ i <= n /\ upto[i] \notin Seq(S)
        BY <3>2 DEF T
      <3>4. i # 0
        <4>1. <<>> \in Seq(S)
          OBVIOUS
        <4> QED
          BY <1>6, <3>3, <4>1
      <3>5. i - 1 \in Nat /\ i - 1 <= n /\ i - 1 \notin T /\ i \in 1..n
        BY <1>0, <3>2, <3>3, <3>4
      <3>6. upto[i - 1] \in Seq(S) /\ seqs[i] \in Seq(S) /\ upto[i] = upto[i - 1] \o seqs[i]
        BY <1>0, <1>8, <3>5 DEF T
      <3> QED
        BY <3>3, <3>6
    <2> QED
      BY <1>0, <2>1 DEF T
  <1>10. upto \in [0..n -> Seq(S)]
    BY <1>6, <1>9
  <1> QED
    BY <1>6, <1>7, <1>8, <1>10 DEF n, JoinedUpto

\* The items of an array, each written as a frame of its own: readResp
\* takes them off one by one, and fails at one that is cut.
LEMMA ItemsRead ==
    ASSUME NEW wires \in Seq(Streams), NEW values,
           \A i \in 1..Len(wires) : ReadsBack(values[i], wires[i])
    PROVE  LET n == Len(wires)
               flat == FlattenSeq(wires)
               read == Array([k \in 1..n |-> values[k]]) IN
           /\ flat \in Streams
           /\ \A rest \in Streams : ReadItems(Resp, n, flat \o rest) = Read(read, rest)
           /\ \A m \in 0..(Len(flat) - 1) : ReadItems(Resp, n, SubSeq(flat, 1, m)) = Fails
  <1> DEFINE n == Len(wires)
             S == Symbols \cup Int
             First(i) == Array([k \in 1..i |-> values[k]])
             GoesTo(i, s) ==
                 /\ \A rest \in Streams : ReadItems(Resp, i, s \o rest) = Read(First(i), rest)
                 /\ \A m \in 0..(Len(s) - 1) : ReadItems(Resp, i, SubSeq(s, 1, m)) = Fails
  <1>1. n \in Nat /\ Streams = Seq(S) /\ wires \in Seq(Seq(S)) /\ \A i \in 1..n : wires[i] \in Seq(S)
    BY DEF Streams
  <1> HIDE DEF S
  <1>2. PICK upto \in [0..n -> Seq(S)] : JoinedUpto(upto, wires)
    BY <1>1, Flattened
  <1>3. upto[0] = <<>> /\ upto[n] = FlattenSeq(wires) /\ \A i \in 0..n : upto[i] \in Seq(S)
    BY <1>1, <1>2 DEF JoinedUpto
  <1>4. GoesTo(0, upto[0])
    <2>1. First(0) = Array(<<>>)
      <3>1. [k \in 1..0 |-> values[k]] = <<>>
        OBVIOUS
      <3> QED
        BY <3>1
    <2>2. ASSUME NEW rest \in Streams PROVE ReadItems(Resp, 0, <<>> \o rest) = Read(First(0), rest)
      <3>1. <<>> \o rest = rest
        BY <1>1, ConcatEmptySeq
      <3> QED
        BY <2>1, <3>1, ItemsSteps
    <2> QED
      BY <1>3, <2>2
  <1>5. ASSUME NEW i \in 1..n, GoesTo(i - 1, upto[i - 1])
        PROVE  GoesTo(i, upto[i])
    <2> DEFINE s == upto[i - 1]
               w == wires[i]
               vals == [k \in 1..(i - 1) |-> values[k]]
    <2>1. /\ i \in Nat /\ i # 0 /\ i - 1 \in 0..n /\ s \in Seq(S) /\ w \in Seq(S)
          /\ upto[i] = s \o w /\ upto[i] \in Seq(S)
      <3>1. i \in Nat /\ i # 0 /\ i - 1 \in 0..n /\ i \in 0..n
        BY <1>1
      <3>2. \A j \in 1..n : upto[j] = upto[j - 1] \o wires[j]
        BY <1>2, Zenon DEF JoinedUpto
      <3>3. upto[i] = s \o w
        BY <3>2
      <3> HIDE DEF n
      <3> QED
        BY <1>1, <1>3, <3>1, <3>3
    <2>2. /\ \A rest \in Streams : ReadItems(Resp, i - 1, s \o rest) = Read(Array(vals), rest)
          /\ \A m \in 0..(Len(s) - 1) : ReadItems(Resp, i - 1, SubSeq(s, 1, m)) = Fails
      BY <1>5
    <2>3. ReadsBack(values[i], w)
      BY <1>1
    <2>4. \A t : ReadItems(Resp, i, t) = Before(ReadItems(Resp, i - 1, t), Resp)
      BY <2>1, ItemsSteps
    <2>5. Array([k \in 1..i |-> values[k]]) = Array(Append(vals, values[i]))
      <3> DEFINE V == {values[k] : k \in 1..i}
      <3>0. i - 1 \in Nat /\ \A k \in 1..(i - 1) : values[k] \in V
        BY <2>1
      <3> HIDE DEF V
      <3>1. vals \in Seq(V) /\ Len(vals) = i - 1
        BY <3>0
      <3>2. Append(vals, values[i]) = [k \in 1..i |-> values[k]]
        BY <2>1, <3>1
      <3> QED
        BY <3>2
    <2> HIDE DEF s, w, vals, Resp
    <2>6. ASSUME NEW rest \in Streams
          PROVE  ReadItems(Resp, i, upto[i] \o rest) = Read(First(i), rest)
      <3>0. rest \in Seq(S)
        BY <1>1
      <3>1. upto[i] \o rest = s \o (w \o rest) /\ w \o rest \in Streams
        <4>1. (s \o w) \o rest = s \o (w \o rest)
          <5>1. s \in Seq(S) /\ w \in Seq(S) /\ rest \in Seq(S)
            BY <2>1, <3>0
          <5> QED
            BY <5>1, ConcatAssociative
        <4>2. w \o rest \in Seq(S)
          BY <2>1, <3>0, ConcatProperties, ZenonT(60)
        <4> QED
          BY <1>1, <2>1, <4>1, <4>2
      <3>2. ReadItems(Resp, i - 1, upto[i] \o rest) = Read(Array(vals), w \o rest)
        BY <2>2, <3>1
      <3>3. Resp[w \o rest] = Read(values[i], rest) /\ values[i] # Failed
        BY <2>3, <3>1 DEF Resp, ReadsBack
      <3>4. Before(Read(Array(vals), w \o rest), Resp) = Read(Array(Append(vals, values[i])), rest)
        <4> DEFINE before == Read(Array(vals), w \o rest)
        <4>1. /\ before.rest = w \o rest /\ before.value = Array(vals)
              /\ before.value.items = vals /\ before.value # Failed
          BY NotFailed DEF Read, Array
        <4>2. /\ Resp[w \o rest].value = values[i] /\ Resp[w \o rest].rest = rest
          BY <3>3 DEF Read
        <4> HIDE DEF before
        <4> QED
          BY <3>3, <4>1, <4>2 DEF Before, before
      <3> QED
        BY <2>4, <2>5, <3>2, <3>4
    <2>7. ASSUME NEW m \in 0..(Len(upto[i]) - 1)
          PROVE  ReadItems(Resp, i, SubSeq(upto[i], 1, m)) = Fails
      <3>1. m \in 0..(Len(s) + Len(w)) /\ m < Len(s) + Len(w) /\ Len(s) \in Nat /\ Len(w) \in Nat
        BY <2>1, <2>7
      <3>2. CASE m < Len(s)
        <4>1. SubSeq(upto[i], 1, m) = SubSeq(s, 1, m) /\ m \in 0..(Len(s) - 1)
          BY <2>1, <3>1, <3>2, CutOfJoin
        <4>2. ReadItems(Resp, i - 1, SubSeq(upto[i], 1, m)) = Fails
          BY <2>2, <4>1
        <4>3. Before(Fails, Resp) = Fails
          BY DEF Before, Fails, Read
        <4> QED
          BY <2>4, <4>2, <4>3
      <3>3. CASE m >= Len(s)
        <4> DEFINE cut == SubSeq(w, 1, m - Len(s))
        <4>1. SubSeq(upto[i], 1, m) = s \o cut /\ m - Len(s) \in 0..(Len(w) - 1)
          BY <2>1, <3>1, <3>3, CutOfJoin
        <4>2. cut \in Streams
          BY <1>1, <2>1, <3>1, <4>1
        <4>3. ReadItems(Resp, i - 1, SubSeq(upto[i], 1, m)) = Read(Array(vals), cut)
          BY <2>2, <4>1, <4>2
        <4>4. Resp[cut] = Fails
          BY <2>3, <4>1, <4>2 DEF Resp, ReadsBack
        <4>5. Before(Read(Array(vals), cut), Resp) = Fails
          BY <4>4 DEF Before, Fails, Read
        <4> QED
          BY <2>4, <4>3, <4>5
      <3> QED
        BY <3>1, <3>2, <3>3
    <2> QED
      BY <2>6, <2>7
  <1> HIDE DEF GoesTo, n
  <1>6. \A i \in 0..n : GoesTo(i, upto[i])
    <2> DEFINE T == {i \in Nat : i <= n /\ ~GoesTo(i, upto[i])}
    <2>1. CASE T # {}
      <3> HIDE DEF T
      <3>1. T \subseteq Nat
        BY DEF T
      <3>2. PICK i \in T : \A k \in T : i <= k
        BY <2>1, <3>1, LeastNumber
      <3>3. i \in Nat /\ i <= n /\ ~GoesTo(i, upto[i])
        BY <3>2 DEF T
      <3>4. i # 0
        BY <1>4, <3>3
      <3>5. i - 1 \in Nat /\ i - 1 <= n /\ i - 1 \notin T /\ i \in 1..n
        BY <1>1, <3>2, <3>3, <3>4
      <3>6. GoesTo(i - 1, upto[i - 1])
        BY <3>5 DEF T
      <3> QED
        BY <1>5, <3>3, <3>5, <3>6
    <2>2. T = {}
      BY <2>1
    <2>3. \A i \in 0..n : i \in Nat /\ i <= n
      BY <1>1
    <2> QED
      BY <2>2, <2>3 DEF T
  <1>7. GoesTo(n, upto[n]) /\ upto[n] \in Streams
    BY <1>1, <1>3, <1>6
  <1> QED
    BY <1>3, <1>7 DEF GoesTo, n

\* An array is a frame when each of its items is.
LEMMA ArrayFrame ==
    ASSUME NEW wires \in Seq(Streams), NEW values,
           \A i \in 1..Len(wires) : ReadsBack(values[i], wires[i])
    PROVE  ReadsBack(Array([k \in 1..Len(wires) |-> values[k]]),
                     <<Star, Len(wires), Crlf>> \o FlattenSeq(wires))
  <1> DEFINE n == Len(wires)
             tail == FlattenSeq(wires)
             value == Array([k \in 1..n |-> values[k]])
  <1>1. /\ Star \in Symbols \ {Crlf} /\ n \in Nat /\ n \in (Symbols \cup Int) \ {Crlf}
        /\ \A s, t \in Streams : s \o t \in Streams
        /\ \A s \in Streams : \A m \in 0..(Len(s) - 1) : SubSeq(s, 1, m) \in Streams
    <2>1. ASSUME NEW s \in Streams, NEW m \in 0..(Len(s) - 1) PROVE SubSeq(s, 1, m) \in Streams
      <3>1. \A i \in 1..m : s[i] \in Symbols \cup Int
        BY DEF Streams
      <3> QED
        BY <3>1, SubSeqProperties DEF Streams
    <2> QED
      BY <2>1, Heads DEF Streams
  <1>2. /\ tail \in Streams
        /\ \A rest \in Streams : ReadItems(Resp, n, tail \o rest) = Read(value, rest)
        /\ \A m \in 0..(Len(tail) - 1) : ReadItems(Resp, n, SubSeq(tail, 1, m)) = Fails
    BY ItemsRead
  <1>3. value # Failed
    BY NotFailed
  <1> HIDE DEF n, tail, value, Resp
  <1>4. \A rest \in Streams :
          ReadResp(<<Star, n, Crlf>> \o (tail \o rest)) = Read(value, rest)
    BY <1>1, <1>2, LineRead
  <1>5. \A m \in 0..(Len(tail) - 1) :
          ReadResp(<<Star, n, Crlf>> \o SubSeq(tail, 1, m)) = Fails
    BY <1>1, <1>2, LineRead
  <1> QED
    BY <1>1, <1>2, <1>3, <1>4, <1>5, LineFrame DEF n, tail, value

-----------------------------------------------------------------------------
\* The replies a Redis may send for a command: scalars, or an array of them,
\* and, for a transaction, an array of these.
ScalarReplies == {Nil, Ok, Queued, Error} \cup Vals \cup {Redis!Number(n) : n \in Nat}
ArrayReplies(S) == {Redis!Array(vs) : vs \in Seq(S)}
CommandReplies == ScalarReplies \cup ArrayReplies(ScalarReplies)
AllReplies == ScalarReplies \cup ArrayReplies(CommandReplies)

LEMMA ScalarFramesRead ==
    ASSUME NEW reply \in ScalarReplies, NEW f \in ScalarFrames(reply)
    PROVE  ReadsBack(f.value, f.wire)
  <1>1. \A value, wire : Frame(value, wire).value = value /\ Frame(value, wire).wire = wire
    BY DEF Frame
  <1>2. CASE reply = Nil
    BY <1>1, <1>2, SimpleFrames DEF ScalarFrames
  <1>3. CASE reply # Nil /\ reply \in {Ok, Queued, Error}
    <2>1. Byte \in (Symbols \cup Int) \ {Crlf}
      BY Heads
    <2>2. \E h \in {Plus, Minus} : f = Frame(Bytes(<<Byte>>), <<h, Byte, Crlf>>)
      BY <1>3 DEF ScalarFrames
    <2> QED
      BY <1>1, <2>1, <2>2, SimpleFrames
  <1>4. CASE reply \notin {Nil, Ok, Queued, Error} /\ reply \in Vals
    <2>1. PICK p \in Payloads : f = Frame(Bytes(p), <<Dollar, Len(p), Crlf>> \o p \o <<Crlf>>)
      BY <1>4 DEF ScalarFrames
    <2>2. p \in Streams
      BY WireAssumption
    <2> QED
      BY <1>1, <2>1, <2>2, BulkFrame
  <1>5. CASE reply \notin {Nil, Ok, Queued, Error} \cup Vals
    <2>1. PICK n \in Nat : reply = Redis!Number(n)
      BY <1>5 DEF ScalarReplies
    <2>2. f = Frame(Number(n), <<Colon, n, Crlf>>)
      BY <1>5, <2>1 DEF ScalarFrames, Redis!Number
    <2> QED
      BY <1>1, <2>2, SimpleFrames
  <1> QED
    BY <1>2, <1>3, <1>4, <1>5

LEMMA ArrayFramesRead ==
    ASSUME NEW n \in Nat, NEW sets, DOMAIN sets = 1..n, Len(sets) = n,
           \A i \in 1..n : \A g \in sets[i] : ReadsBack(g.value, g.wire),
           NEW f \in ArrayFrames(sets)
    PROVE  ReadsBack(f.value, f.wire)
  <1>1. PICK g : /\ DOMAIN g = 1..n /\ \A i \in 1..n : g[i] \in sets[i]
                 /\ f = Frame(Array([i \in 1..n |-> g[i].value]),
                              <<Star, n, Crlf>> \o FlattenSeq([i \in 1..n |-> g[i].wire]))
    BY DEF ArrayFrames
  <1> DEFINE values == [i \in 1..n |-> g[i].value]
             wires == [i \in 1..n |-> g[i].wire]
  <1>2. \A i \in 1..n : ReadsBack(values[i], wires[i])
    BY <1>1
  <1>3. wires \in [1..n -> Streams]
    BY <1>2 DEF ReadsBack
  <1>4. values = [i \in 1..n |-> values[i]]
    OBVIOUS
  <1>5. f.value = Array(values) /\ f.wire = <<Star, n, Crlf>> \o FlattenSeq(wires)
    BY <1>1 DEF Frame
  <1> HIDE DEF values, wires
  <1>6. wires \in Seq(Streams) /\ Len(wires) = n
    BY <1>3, Listed
  <1>7. ReadsBack(Array([i \in 1..n |-> values[i]]), <<Star, n, Crlf>> \o FlattenSeq(wires))
    BY <1>2, <1>6, ArrayFrame
  <1> QED
    BY <1>4, <1>5, <1>7

\* The items of an array reply: what holds of the frames of each, holds of
\* the array's.
LEMMA ItemFramesRead ==
    ASSUME NEW S, NEW vs \in Seq(S), NEW frames, DOMAIN frames = DOMAIN vs,
           frames = [i \in DOMAIN vs |-> frames[i]],
           \A i \in DOMAIN vs : \A g \in frames[i] : ReadsBack(g.value, g.wire),
           NEW f \in ArrayFrames(frames)
    PROVE  ReadsBack(f.value, f.wire)
  <1>1. Len(vs) \in Nat /\ DOMAIN vs = 1..Len(vs)
    OBVIOUS
  <1>2. frames \in [1..Len(vs) -> {frames[i] : i \in DOMAIN vs}]
    BY <1>1
  <1>3. Len(frames) = Len(vs)
    BY <1>1, <1>2, Listed
  <1> QED
    BY <1>1, <1>3, ArrayFramesRead

LEMMA ItemsOf ==
    /\ \A S : \A reply \in ArrayReplies(S) : "items" \in DOMAIN reply /\ reply.items \in Seq(S)
    /\ \A reply \in ScalarReplies : ~IsArray(reply)
    /\ \A S : \A vs \in Seq(S) : \A i \in DOMAIN vs : vs[i] \in S
  <1>1. ASSUME NEW S, NEW reply \in ArrayReplies(S)
        PROVE  "items" \in DOMAIN reply /\ reply.items \in Seq(S)
    BY DEF ArrayReplies, Redis!Array
  <1>2. ASSUME NEW reply \in ScalarReplies PROVE ~IsArray(reply)
    <2>1. \A n : DOMAIN Redis!Number(n) = {"int"}
      BY DEF Redis!Number
    <2>2. "items" \notin {"int"}
      OBVIOUS
    <2> QED
      BY <2>1, <2>2 DEF ScalarReplies, IsArray
  <1>3. ASSUME NEW S, NEW vs \in Seq(S), NEW i \in DOMAIN vs PROVE vs[i] \in S
    OBVIOUS
  <1> QED
    BY <1>1, <1>2, <1>3

LEMMA AnswerFramesRead ==
    ASSUME NEW reply \in CommandReplies, NEW f \in AnswerFrames(reply)
    PROVE  ReadsBack(f.value, f.wire)
  <1>1. CASE ~IsArray(reply)
    <2>1. CASE reply \in ScalarReplies
      BY <1>1, <2>1, ScalarFramesRead DEF AnswerFrames
    <2>2. CASE reply \in ArrayReplies(ScalarReplies)
      <3>1. reply \in ScalarReplies
        BY <1>1, <2>2, ItemsOf DEF IsArray, ScalarReplies
      <3> QED
        BY <1>1, <3>1, ScalarFramesRead DEF AnswerFrames
    <2> QED
      BY <2>1, <2>2 DEF CommandReplies
  <1>2. CASE IsArray(reply)
    <2>1. reply.items \in Seq(ScalarReplies)
      BY <1>2, ItemsOf DEF CommandReplies
    <2> DEFINE frames == [i \in DOMAIN reply.items |-> ScalarFrames(reply.items[i])]
    <2>2. \A i \in DOMAIN reply.items : \A g \in frames[i] : ReadsBack(g.value, g.wire)
      <3>1. \A i \in DOMAIN reply.items : reply.items[i] \in ScalarReplies
        BY <2>1, ItemsOf
      <3> QED
        BY <3>1, ScalarFramesRead
    <2>3. f \in ArrayFrames(frames)
      BY <1>2 DEF AnswerFrames
    <2>4. DOMAIN frames = DOMAIN reply.items /\ frames = [i \in DOMAIN reply.items |-> frames[i]]
      OBVIOUS
    <2> HIDE DEF frames
    <2> QED
      BY <2>1, <2>2, <2>3, <2>4, ItemFramesRead
  <1> QED
    BY <1>1, <1>2

LEMMA FramesRead ==
    ASSUME NEW reply \in AllReplies, NEW f \in FramesOf(reply)
    PROVE  ReadsBack(f.value, f.wire)
  <1>1. CASE ~IsArray(reply)
    <2>1. CASE reply \in ScalarReplies
      BY <1>1, <2>1, ScalarFramesRead DEF FramesOf
    <2>2. CASE reply \in ArrayReplies(CommandReplies)
      <3>1. reply \in ScalarReplies
        BY <1>1, <2>2, ItemsOf DEF IsArray, ScalarReplies
      <3> QED
        BY <1>1, <3>1, ScalarFramesRead DEF FramesOf
    <2> QED
      BY <2>1, <2>2 DEF AllReplies
  <1>2. CASE IsArray(reply)
    <2>1. reply.items \in Seq(CommandReplies)
      BY <1>2, ItemsOf DEF AllReplies
    <2> DEFINE frames == [i \in DOMAIN reply.items |-> AnswerFrames(reply.items[i])]
    <2>2. \A i \in DOMAIN reply.items : \A g \in frames[i] : ReadsBack(g.value, g.wire)
      <3>1. \A i \in DOMAIN reply.items : reply.items[i] \in CommandReplies
        BY <2>1, ItemsOf
      <3> QED
        BY <3>1, AnswerFramesRead
    <2>3. f \in ArrayFrames(frames)
      BY <1>2 DEF FramesOf
    <2>4. DOMAIN frames = DOMAIN reply.items /\ frames = [i \in DOMAIN reply.items |-> frames[i]]
      OBVIOUS
    <2> HIDE DEF frames
    <2> QED
      BY <2>1, <2>2, <2>3, <2>4, ItemFramesRead
  <1> QED
    BY <1>1, <1>2

-----------------------------------------------------------------------------
\* A command reads back as it was written, whatever its words are: for the
\* encoder and the reader of the proxy itself (proxy.go:162-257).
THEOREM CommandReadsBack ==
    ASSUME NEW argv \in Seq(Streams)
    PROVE  ReadsBack(Array([i \in DOMAIN argv |-> Bytes(argv[i])]), EncodeArray(argv))
  <1> DEFINE n == Len(argv)
             values == [i \in 1..n |-> Bytes(argv[i])]
             wires == [i \in 1..n |-> EncodeBulk(Bytes(argv[i]))]
  <1>1. n \in Nat /\ DOMAIN argv = 1..n /\ \A i \in 1..n : argv[i] \in Streams
    OBVIOUS
  <1>2. \A i \in 1..n : ReadsBack(values[i], wires[i])
    <2> SUFFICES ASSUME NEW i \in 1..n PROVE ReadsBack(values[i], wires[i])
      OBVIOUS
    <2>1. PICK p \in Streams : p = argv[i]
      BY <1>1
    <2>2. Bytes(p) # Null /\ Bytes(p).bytes = p
      <3>1. DOMAIN Bytes(p) = {"bytes"} /\ DOMAIN Null = {"nil"} /\ "bytes" \notin {"nil"}
        BY DEF Bytes, Null
      <3> QED
        BY <3>1 DEF Bytes
    <2>3. EncodeBulk(Bytes(p)) = <<Dollar, Len(p), Crlf>> \o p \o <<Crlf>>
      BY <2>2 DEF EncodeBulk
    <2>4. ReadsBack(Bytes(p), EncodeBulk(Bytes(p)))
      BY <2>3, BulkFrame
    <2> QED
      BY <2>1, <2>4
  <1>3. wires \in [1..n -> Streams]
    BY <1>2 DEF ReadsBack
  <1>4. /\ values = [i \in 1..n |-> values[i]]
        /\ [i \in DOMAIN argv |-> Bytes(argv[i])] = values
        /\ EncodeArray(argv) = <<Star, n, Crlf>> \o FlattenSeq(wires)
    BY <1>1 DEF EncodeArray
  <1> HIDE DEF values, wires
  <1>5. wires \in Seq(Streams) /\ Len(wires) = n
    BY <1>1, <1>3, Listed
  <1>6. ReadsBack(Array([i \in 1..n |-> values[i]]), <<Star, n, Crlf>> \o FlattenSeq(wires))
    BY <1>2, <1>5, ArrayFrame
  <1> QED
    BY <1>4, <1>6

\* The commands a handler has sent on are read by the Redis as they were
\* written, with any bytes for one of their words (proxy.go:596).
THEOREM CommandsArriveAsWritten == Spec => []CommandsAreReadBack
  <1>1. ClaimInv => CommandsAreReadBack
    <2> SUFFICES ASSUME ClaimInv, NEW argv \in Words
                 PROVE  LET read == ReadResp(EncodeArray(argv) \o <<Star>>) IN
                        /\ read.rest = <<Star>> /\ IsArgv(read.value)
                        /\ ArgvFromParsed(read.value) = argv
      BY DEF CommandsAreReadBack
    <2>1. PICK c \in Conns : /\ handler[c].st = "reply"
                             /\ \E i \in DOMAIN handler[c].argv, p \in Payloads :
                                  argv = [j \in DOMAIN handler[c].argv |->
                                            IF j = i THEN p ELSE <<Byte>>]
      BY DEF Words
    <2>2. handler[c].argv \in Argvs[c]
      BY <2>1 DEF ClaimInv, Reads
    <2>3. PICK n \in Nat \ {0} : n = Len(handler[c].argv) /\ DOMAIN handler[c].argv = 1..n
      BY <2>2, SessionAssumption
    <2>4. <<Byte>> \in Streams /\ <<Star>> \in Streams
      BY Heads DEF Streams
    <2>5. argv \in [1..n -> Streams]
      BY <2>1, <2>3, <2>4, WireAssumption
    <2>6. argv \in Seq(Streams) /\ Len(argv) = n
      BY <2>5, Listed
    <2> DEFINE values == [i \in DOMAIN argv |-> Bytes(argv[i])]
    <2>7. ReadResp(EncodeArray(argv) \o <<Star>>) = Read(Array(values), <<Star>>)
      BY <2>4, <2>6, CommandReadsBack DEF ReadsBack
    <2>8. DOMAIN values = 1..n /\ \A i \in 1..n : values[i] = Bytes(argv[i])
      BY <2>5
    <2> HIDE DEF values
    <2>9. IsArgv(Array(values))
      <3>1. values # <<>>
        BY <2>3, <2>8
      <3> QED
        BY <2>8, <3>1 DEF IsArgv, Array, Bytes
    <2>10. ArgvFromParsed(Array(values)) = argv
      <3>1. argv = [i \in 1..n |-> argv[i]]
        BY <2>5
      <3>2. ArgvFromParsed(Array(values)) = [i \in 1..n |-> values[i].bytes]
        BY <2>8 DEF ArgvFromParsed, Array
      <3>3. \A i \in 1..n : values[i].bytes = argv[i]
        BY <2>8 DEF Bytes
      <3> QED
        BY <3>1, <3>2, <3>3
    <2> QED
      BY <2>7, <2>9, <2>10 DEF Read
  <1> QED
    BY <1>1, InitClaims, NextClaims, PTL DEF Spec

-----------------------------------------------------------------------------
\* What the keys of a Redis have, and a command that it runs: its keys are
\* where the server has them, and what it stores are values.
Stored == Vals \cup {Nil}
Runnable(argv) ==
    LET n == Len(argv) IN
    /\ n \in Nat \ {0} /\ ~Redis!Malformed(argv)
    /\ argv[1] \in {"GET", "RENAME"} => argv[2] \in RedisKeys
    /\ argv[1] = "MGET" => \A i \in 2..n : argv[i] \in RedisKeys
    /\ argv[1] = "SET" => argv[3] \in Vals
    /\ argv[1] = "MSET" => \A i \in 3..n : i % 2 = 1 => argv[i] \in Vals

LEMMA MsetStores ==
    ASSUME NEW argv, Runnable(argv), argv[1] = "MSET", NEW k \in Redis!KeysOf(argv)
    PROVE  Redis!MsetValue(argv, k) \in Vals
  <1> DEFINE n == Len(argv)
             at == {i \in 3..n : i % 2 = 1 /\ argv[i - 1] = k}
             last == CHOOSE i \in at : \A j \in at : j <= i
  <1>1. n \in Nat /\ n % 2 = 1
    BY DEF Runnable, Redis!Malformed
  <1>2. PICK i \in 2..n : i % 2 = 0 /\ argv[i] = k
    BY DEF Redis!KeysOf
  <1>3. i + 1 \in at
    <2>1. i + 1 \in 3..n /\ (i + 1) % 2 = 1 /\ (i + 1) - 1 = i
      BY <1>1, <1>2
    <2> QED
      BY <1>2, <2>1
  <1> DEFINE T == {n - j : j \in at}
  <1>4. T \subseteq Nat /\ T # {}
    BY <1>1, <1>3
  <1>5. PICK m \in T : \A l \in T : m <= l
    BY <1>4, LeastNumber
  <1>6. PICK j \in at : m = n - j
    BY <1>5
  <1>7. \A l \in at : l <= j
    <2> SUFFICES ASSUME NEW l \in at PROVE l <= j
      OBVIOUS
    <2>1. l \in 3..n /\ j \in 3..n /\ n - l \in T
      OBVIOUS
    <2> HIDE DEF T, at
    <2>2. n - j <= n - l
      BY <1>5, <1>6, <2>1
    <2> QED
      BY <1>1, <2>1, <2>2
  <1>8. last \in at
    <2> HIDE DEF at
    <2> QED
      BY <1>6, <1>7
  <1>9. last \in 3..n /\ last % 2 = 1
    BY <1>8
  <1> HIDE DEF last
  <1>10. argv[last] \in Vals
    BY <1>9 DEF Runnable
  <1> QED
    BY <1>10 DEF Redis!MsetValue, last

LEMMA EffectStores ==
    ASSUME NEW argv, Runnable(argv), NEW db \in [RedisKeys -> Stored]
    PROVE  Redis!Effect(db, argv) \in [RedisKeys -> Stored]
  <1>1. CASE argv[1] = "SET"
    <2>1. argv[3] \in Stored
      BY <1>1 DEF Runnable, Stored
    <2>2. Redis!Effect(db, argv) = [db EXCEPT ![argv[2]] = argv[3]]
      BY <1>1 DEF Redis!Effect
    <2> QED
      BY <2>1, <2>2
  <1>2. CASE argv[1] = "MSET"
    <2>1. \A k \in Redis!KeysOf(argv) : Redis!MsetValue(argv, k) \in Stored
      BY <1>2, MsetStores DEF Stored
    <2>2. Redis!Effect(db, argv) = [k \in RedisKeys |->
            IF k \in Redis!KeysOf(argv) THEN Redis!MsetValue(argv, k) ELSE db[k]]
      BY <1>2 DEF Redis!Effect
    <2> QED
      BY <2>1, <2>2
  <1>3. CASE argv[1] = "DEL"
    <2>1. Redis!Effect(db, argv) = [k \in RedisKeys |->
            IF k \in Redis!KeysOf(argv) THEN Nil ELSE db[k]]
      BY <1>3 DEF Redis!Effect
    <2> QED
      BY <2>1 DEF Stored
  <1>4. CASE argv[1] = "RENAME"
    <2>1. \/ Redis!Effect(db, argv) = db
          \/ Redis!Effect(db, argv)
               = [db EXCEPT ![argv[2]] = Nil, ![argv[3]] = db[argv[2]]]
      BY <1>4 DEF Redis!Effect
    <2>2. argv[2] \in RedisKeys /\ db[argv[2]] \in Stored /\ Nil \in Stored
      BY <1>4 DEF Runnable, Stored
    <2> QED
      BY <2>1, <2>2
  <1>5. CASE argv[1] \notin {"SET", "MSET", "DEL", "RENAME"}
    BY <1>5 DEF Redis!Effect
  <1> QED
    BY <1>1, <1>2, <1>3, <1>4, <1>5

\* The keys of a command can be counted.
LEMMA CountedKeys ==
    ASSUME NEW argv, Len(argv) \in Nat, argv[1] \in {"DEL", "PFCOUNT", "OBJECT"}, NEW db
    PROVE  Redis!Cardinality(Redis!Existing(db, argv)) \in Nat
  <1> DEFINE K == Redis!KeysOf(argv)
             E == Redis!Existing(db, argv)
  <1>1. \E I : IsFiniteSet(I) /\ K = {argv[i] : i \in I}
    <2>1. CASE argv[1] = "OBJECT"
      <3>1. K = {argv[i] : i \in {3}}
        BY <2>1 DEF Redis!KeysOf
      <3> QED
        BY <3>1, FS_Singleton
    <2>2. CASE argv[1] \in {"DEL", "PFCOUNT"}
      <3>1. K = {argv[i] : i \in 2..Len(argv)}
        BY <2>2 DEF Redis!KeysOf
      <3>2. IsFiniteSet(2..Len(argv))
        BY FS_Interval
      <3> QED
        BY <3>1, <3>2
    <2> QED
      BY <2>1, <2>2
  <1>2. PICK I : IsFiniteSet(I) /\ K = {argv[i] : i \in I}
    BY <1>1
  <1>3. IsFiniteSet(K)
    BY <1>2, FewWords
  <1>4. E \subseteq K
    BY DEF Redis!Existing
  <1> HIDE DEF K, E
  <1>5. Cardinality(E) \in Nat
    BY <1>3, <1>4, FS_Subset, FS_CardinalityType
  <1> QED
    BY <1>5, SameCount DEF E

LEMMA AnswerIsReply ==
    ASSUME NEW argv, Runnable(argv), NEW db \in [RedisKeys -> Stored]
    PROVE  Redis!Answer(db, argv) \in CommandReplies
  <1>1. /\ Stored \subseteq ScalarReplies /\ Ok \in ScalarReplies /\ Error \in ScalarReplies
        /\ ScalarReplies \subseteq CommandReplies
        /\ \A n \in Nat : Redis!Number(n) \in ScalarReplies
    BY DEF Stored, ScalarReplies, CommandReplies
  <1>2. CASE argv[1] = "GET"
    BY <1>1, <1>2 DEF Runnable, Redis!Answer
  <1>3. CASE argv[1] = "MGET"
    <2> DEFINE n == Len(argv)
               vs == [i \in 1..(n - 1) |-> db[argv[i + 1]]]
    <2>1. n \in Nat \ {0} /\ \A i \in 2..n : argv[i] \in RedisKeys
      BY <1>3 DEF Runnable
    <2>2. \A i \in 1..(n - 1) : i + 1 \in 2..n
      BY <2>1
    <2>3. vs \in [1..(n - 1) -> ScalarReplies] /\ n - 1 \in Nat
      BY <1>1, <2>1, <2>2
    <2>4. vs \in Seq(ScalarReplies)
      BY <2>3, Listed
    <2>5. Redis!Answer(db, argv) = Redis!Array(vs)
      BY <1>3 DEF Redis!Answer
    <2> HIDE DEF vs
    <2> QED
      BY <2>4, <2>5 DEF CommandReplies, ArrayReplies
  <1>4. CASE argv[1] \in {"DEL", "PFCOUNT", "OBJECT"}
    <2>1. Redis!Cardinality(Redis!Existing(db, argv)) \in Nat
      BY <1>4, CountedKeys DEF Runnable
    <2>2. Redis!Answer(db, argv) = Redis!Number(Redis!Cardinality(Redis!Existing(db, argv)))
      BY <1>4 DEF Redis!Answer
    <2> QED
      BY <1>1, <2>1, <2>2
  <1>5. CASE argv[1] \notin {"GET", "MGET", "DEL", "PFCOUNT", "OBJECT"}
    <2>1. Redis!Answer(db, argv) \in {Ok, Error}
      BY <1>5 DEF Redis!Answer
    <2> QED
      BY <1>1, <2>1
  <1> QED
    BY <1>2, <1>3, <1>4, <1>5

\* Commands that are run one after the other.
LEMMA RunStores ==
    ASSUME NEW db \in [RedisKeys -> Stored], NEW commands, NEW n \in Nat,
           Len(commands) = n, DOMAIN commands = 1..n, \A i \in 1..n : Runnable(commands[i])
    PROVE  LET run == Redis!Run(db, commands) IN
           /\ run.db \in [RedisKeys -> Stored]
           /\ run.answers \in Seq(CommandReplies) /\ DOMAIN run.answers = 1..n
  <1> DEFINE f == Redis!After(db, commands)
             D == [RedisKeys -> Stored]
  <1>1. /\ f[0] = db
        /\ \A i \in 1..n : f[i] = Redis!Effect(f[i - 1], commands[i])
    <2>1. Steps(f, db, commands, n)
      BY AfterSteps
    <2> HIDE DEF f
    <2> QED
      BY <2>1 DEF Steps
  <1> HIDE DEF f
  <1>2. \A d \in D : \A argv : Runnable(argv) => Redis!Effect(d, argv) \in D
    BY EffectStores
  <1>3. db \in D
    OBVIOUS
  <1> HIDE DEF D
  <1>4. \A i \in 0..n : f[i] \in D
    <2> DEFINE T == {m \in Nat : m <= n /\ f[m] \notin D}
    <2>1. CASE T # {}
      <3> HIDE DEF T
      <3>1. T \subseteq Nat
        BY DEF T
      <3>2. PICK m \in T : \A k \in T : m <= k
        BY <2>1, <3>1, LeastNumber
      <3>3. m \in Nat /\ m <= n /\ f[m] \notin D
        BY <3>2 DEF T
      <3>4. m # 0
        BY <1>1, <1>3, <3>3
      <3>5. m \in 1..n /\ m - 1 \in Nat /\ m - 1 <= n /\ m - 1 \notin T
        BY <3>2, <3>3, <3>4
      <3>6. f[m - 1] \in D
        BY <3>5 DEF T
      <3> QED
        BY <1>1, <1>2, <3>3, <3>5, <3>6
    <2> QED
      BY <2>1 DEF T
  <1> DEFINE answers == [i \in 1..n |-> Redis!Answer(f[i - 1], commands[i])]
  <1>5. answers \in [1..n -> CommandReplies]
    <2> SUFFICES ASSUME NEW i \in 1..n
                 PROVE  Redis!Answer(f[i - 1], commands[i]) \in CommandReplies
      OBVIOUS
    <2>1. i - 1 \in 0..n
      OBVIOUS
    <2>2. f[i - 1] \in D /\ Runnable(commands[i])
      BY <1>4, <2>1
    <2> QED
      BY <2>2, AnswerIsReply DEF D
  <1>6. Redis!Run(db, commands).db = f[n] /\ Redis!Run(db, commands).answers = answers
    BY DEF Redis!Run, f
  <1> HIDE DEF answers
  <1>7. answers \in Seq(CommandReplies) /\ DOMAIN answers = 1..n
    BY <1>5, Listed
  <1> QED
    BY <1>4, <1>6, <1>7 DEF D

\* A server that has values only, and whose queued commands can be run.
Holds(s) ==
    /\ IsServer(s) /\ s.db \in [RedisKeys -> Stored]
    /\ \A c \in Conns : \A i \in DOMAIN s.queue[c] : Runnable(s.queue[c][i])

\* A server of which the tables change, but not the keys.
Enqueued(queue, new) ==
    \/ new = queue
    \/ new = <<>>
    \/ \E argv : Runnable(argv) /\ new = Append(queue, argv)

LEMMA HoldsStill ==
    ASSUME NEW s, Holds(s), NEW new, IsServer(new), new.db = s.db,
           \A c \in Conns : Enqueued(s.queue[c], new.queue[c])
    PROVE  Holds(new)
  <1>1. PICK S : s.queue \in [Conns -> Seq(S)]
    BY DEF Holds, IsServer, IsQueues
  <1>2. ASSUME NEW c \in Conns, NEW i \in DOMAIN new.queue[c] PROVE Runnable(new.queue[c][i])
    <2>1. CASE new.queue[c] = s.queue[c]
      BY <1>2, <2>1 DEF Holds
    <2>2. CASE new.queue[c] = <<>>
      BY <1>2, <2>2
    <2>3. CASE \E argv : Runnable(argv) /\ new.queue[c] = Append(s.queue[c], argv)
      <3>1. PICK argv : Runnable(argv) /\ new.queue[c] = Append(s.queue[c], argv)
        BY <2>3
      <3>2. PICK q : q = s.queue[c] /\ q \in Seq(S)
        BY <1>1
      <3>3. i \in 1..(Len(q) + 1) /\ Len(q) \in Nat /\ DOMAIN q = 1..Len(q)
        BY <1>2, <3>1, <3>2
      <3>4. new.queue[c][i] = IF i = Len(q) + 1 THEN argv ELSE q[i]
        BY <3>1, <3>2, <3>3
      <3> QED
        BY <3>1, <3>2, <3>3, <3>4 DEF Holds
    <2> QED
      BY <2>1, <2>2, <2>3 DEF Enqueued
  <1> QED
    BY <1>2 DEF Holds

\* What a command sets off can be run.
LEMMA SetsOffRunnable ==
    ASSUME NEW s, Holds(s), NEW c \in Conns, NEW argv, ~Redis!Malformed(argv) => Runnable(argv)
    PROVE  LET run == Redis!Run(s.db, Redis!SetOff(s, c, argv)) IN
           run.db \in [RedisKeys -> Stored] /\ run.answers \in Seq(CommandReplies)
  <1> DEFINE cmds == Redis!SetOff(s, c, argv)
  <1>1. PICK n \in Nat : Len(cmds) = n /\ DOMAIN cmds = 1..n
    BY SettingOff DEF Holds
  <1>2. cmds = s.queue[c] \/ cmds = <<>> \/ (cmds = <<argv>> /\ ~Redis!Malformed(argv))
    BY DEF Redis!SetOff
  <1> HIDE DEF cmds
  <1>3. \A i \in 1..n : Runnable(cmds[i])
    <2>1. CASE cmds = s.queue[c]
      BY <1>1, <2>1 DEF Holds
    <2>2. CASE cmds = <<>>
      BY <1>1, <2>2
    <2>3. CASE cmds = <<argv>> /\ ~Redis!Malformed(argv)
      <3>1. n = 1 /\ cmds[1] = argv
        BY <1>1, <2>3
      <3> QED
        BY <2>3, <3>1
    <2> QED
      BY <1>2, <2>1, <2>2, <2>3
  <1>4. s.db \in [RedisKeys -> Stored]
    BY DEF Holds
  <1> QED
    BY <1>1, <1>3, <1>4, RunStores DEF cmds

\* A server that has run what a command sets off.
LEMMA RanHolds ==
    ASSUME NEW s, Holds(s), NEW c \in Conns, NEW argv, ~Redis!Malformed(argv) => Runnable(argv)
    PROVE  /\ Holds(Ran(s, c, argv)) /\ Ran(s, c, argv).queue = s.queue
           /\ Answers(s, c, argv) \in Seq(CommandReplies)
  <1>1. PICK run : run = Redis!Run(s.db, Redis!SetOff(s, c, argv))
    OBVIOUS
  <1>2. run.db \in [RedisKeys -> Stored] /\ run.answers \in Seq(CommandReplies)
    BY <1>1, SetsOffRunnable
  <1>3. PICK dirty : /\ DOMAIN dirty = Conns
                     /\ dirty = [d \in Conns |-> s.dirty[d] \/ s.watched[d] \cap run.wrote # {}]
    OBVIOUS
  <1>4. Ran(s, c, argv) = [s EXCEPT !.db = run.db, !.dirty = dirty]
    BY <1>1, <1>3 DEF Ran
  <1>5. PICK new : new = Ran(s, c, argv)
    OBVIOUS
  <1>6. IsServer(new) /\ new.queue = s.queue /\ new.db = run.db
    BY <1>2, <1>3, <1>4, <1>5 DEF Holds, IsServer
  <1>7. Holds(new)
    BY <1>2, <1>6 DEF Holds
  <1> QED
    BY <1>1, <1>2, <1>5, <1>6, <1>7 DEF Answers

LEMMA EndsHolding ==
    ASSUME NEW s, Holds(s), NEW c \in Conns
    PROVE  Holds(Redis!EndMulti(s, c))
  <1>1. PICK new : new = Redis!EndMulti(s, c)
    OBVIOUS
  <1>2. IsServer(new) /\ new.queue = [s.queue EXCEPT ![c] = <<>>]
    BY <1>1, Ending DEF Holds
  <1>3. new.db = s.db
    BY <1>1 DEF Redis!EndMulti, Holds, IsServer
  <1>4. DOMAIN s.queue = Conns
    BY DEF Holds, IsServer, IsQueues
  <1>5. \A d \in Conns : new.queue[d] = s.queue[d] \/ new.queue[d] = <<>>
    BY <1>2, <1>4
  <1>6. Holds(new)
    BY <1>2, <1>3, <1>5, HoldsStill DEF Enqueued
  <1> QED
    BY <1>1, <1>6

LEMMA Watches ==
    ASSUME NEW s, NEW c, NEW argv,
           argv[1] = "WATCH", ~s.subscribed[c], ~s.multi[c]
    PROVE  Redis!Serve(s, c, argv) =
             [srv |-> [s EXCEPT !.watched[c] = @ \cup Redis!KeysOf(argv)], out |-> <<Ok>>]
  BY DEF Redis!Serve, Plainly, Ran, Answers, Redis!Malformed

LEMMA WatchesNothing ==
    ASSUME NEW s, NEW c, NEW argv,
           argv[1] = "WATCH", ~s.subscribed[c], s.multi[c]
    PROVE  Redis!Serve(s, c, argv) = [srv |-> s, out |-> <<Error>>]
  BY DEF Redis!Serve, Plainly, Ran, Answers, Redis!Malformed

\* Whatever it is asked, a server has values only, and answers with replies.
LEMMA ServeHolds ==
    ASSUME NEW s, Holds(s), NEW c \in Conns, NEW argv, ~Redis!Malformed(argv) => Runnable(argv),
           NEW new, NEW out, Redis!Serve(s, c, argv).srv = new,
           Redis!Serve(s, c, argv).out = out
    PROVE  Holds(new) /\ \A i \in DOMAIN out : out[i] \in AllReplies
  <1> DEFINE Says == Holds(new) /\ \A i \in DOMAIN out : out[i] \in AllReplies
             cmd == argv[1]
  <1>1. /\ Ok \in AllReplies /\ Error \in AllReplies /\ Queued \in AllReplies /\ Nil \in AllReplies
        /\ CommandReplies \subseteq AllReplies
        /\ \A vs \in Seq(CommandReplies) : Redis!Array(vs) \in AllReplies
    <2>1. ScalarReplies \subseteq CommandReplies /\ ScalarReplies \subseteq AllReplies
      BY DEF CommandReplies, AllReplies
    <2>2. ArrayReplies(ScalarReplies) \subseteq ArrayReplies(CommandReplies)
      <3>1. \A vs \in Seq(ScalarReplies) : vs \in Seq(CommandReplies)
        BY <2>1
      <3> QED
        BY <3>1 DEF ArrayReplies
    <2> QED
      BY <2>1, <2>2 DEF CommandReplies, AllReplies, ArrayReplies, ScalarReplies
  <1>2. \A r \in AllReplies : \A i \in DOMAIN <<r>> : <<r>>[i] \in AllReplies
    OBVIOUS
  <1>3. IsServer(s) /\ DOMAIN s.queue = Conns
    BY DEF Holds, IsServer, IsQueues
  <1>a. PICK yes : yes = TRUE
    OBVIOUS
  <1>s. ASSUME ~s.subscribed[c] PROVE Says
    <2>1. CASE cmd = "SUBSCRIBE" /\ ~s.multi[c]
      <3>0. Redis!Serve(s, c, argv) = [srv |-> [s EXCEPT !.subscribed[c] = yes],
                                       out |-> [i \in 1..(Len(argv) - 1) |-> Ok]]
        BY <1>a, <2>1, Subscribes
      <3>1. new = [s EXCEPT !.subscribed[c] = yes] /\ out = [i \in 1..(Len(argv) - 1) |-> Ok]
        BY <3>0
      <3>2. IsServer(new) /\ new.db = s.db /\ new.queue = s.queue
        BY <1>3, <3>1 DEF IsServer
      <3> QED
        BY <1>1, <3>1, <3>2, HoldsStill DEF Enqueued
    <2>2. CASE cmd = "CLIENT" /\ ~s.multi[c]
      <3>0. Redis!Serve(s, c, argv) = [srv |-> [s EXCEPT !.silent[c] = yes], out |-> <<>>]
        BY <1>a, <1>s, <2>2, TurnsSilent
      <3>1. new = [s EXCEPT !.silent[c] = yes] /\ out = <<>>
        BY <3>0
      <3>2. IsServer(new) /\ new.db = s.db /\ new.queue = s.queue
        BY <1>3, <3>1 DEF IsServer
      <3>3. Holds(new)
        BY <3>2, HoldsStill DEF Enqueued
      <3> QED
        BY <3>1, <3>3
    <2>3. CASE cmd = "MULTI" /\ ~s.multi[c]
      <3>0. Redis!Serve(s, c, argv) = [srv |-> [s EXCEPT !.multi[c] = yes], out |-> <<Ok>>]
        BY <1>a, <1>s, <2>3, Begins
      <3>1. new = [s EXCEPT !.multi[c] = yes] /\ out = <<Ok>>
        BY <3>0
      <3>2. IsServer(new) /\ new.db = s.db /\ new.queue = s.queue
        BY <1>3, <3>1 DEF IsServer
      <3> QED
        BY <1>1, <1>2, <3>1, <3>2, HoldsStill DEF Enqueued
    <2>4. CASE cmd = "WATCH" /\ ~s.multi[c]
      <3>1. new = [s EXCEPT !.watched[c] = @ \cup Redis!KeysOf(argv)] /\ out = <<Ok>>
        BY <1>s, <2>4, Watches
      <3>2. IsServer(new) /\ new.db = s.db /\ new.queue = s.queue
        BY <1>3, <3>1 DEF IsServer
      <3> QED
        BY <1>1, <1>2, <3>1, <3>2, HoldsStill DEF Enqueued
    <2>5. CASE cmd = "EXEC" /\ s.multi[c]
      <3>1. /\ new = Redis!EndMulti(Ran(s, c, argv), c)
            /\ out \in {<<Error>>, <<Nil>>, <<Redis!Array(Answers(s, c, argv))>>}
        BY <1>s, <2>5, Executes
      <3>2. Holds(Ran(s, c, argv)) /\ Answers(s, c, argv) \in Seq(CommandReplies)
        BY RanHolds
      <3>3. Holds(new)
        BY <3>1, <3>2, EndsHolding
      <3>4. Redis!Array(Answers(s, c, argv)) \in AllReplies
        BY <1>1, <3>2
      <3> QED
        BY <1>1, <1>2, <3>1, <3>3, <3>4
    <2>6. CASE cmd = "DISCARD" /\ s.multi[c]
      <3>1. new = Redis!EndMulti(s, c) /\ out = <<Ok>>
        BY <1>s, <2>6, Discards
      <3> QED
        BY <1>1, <1>2, <3>1, EndsHolding
    <2>7. CASE \/ cmd \in {"EXEC", "DISCARD"} /\ ~s.multi[c]
               \/ cmd \in {"MULTI", "WATCH"} /\ s.multi[c]
      <3>1. new = s /\ out = <<Error>>
        BY <1>s, <2>7, EndsNothing, Nests, WatchesNothing
      <3> QED
        BY <1>1, <1>2, <3>1
    <2>8. CASE Plainly(argv) /\ Redis!Malformed(argv)
      <3>1. new = [s EXCEPT !.aborted[c] = s.multi[c]] /\ out = <<Error>>
        BY <1>s, <2>8, Refuses
      <3>2. IsServer(new) /\ new.db = s.db /\ new.queue = s.queue
        BY <1>3, <3>1 DEF IsServer
      <3> QED
        BY <1>1, <1>2, <3>1, <3>2, HoldsStill DEF Enqueued
    <2>9. CASE /\ Plainly(argv) \/ cmd \in {"SUBSCRIBE", "CLIENT"}
               /\ s.multi[c] /\ ~Redis!Malformed(argv)
      <3>1. new = [s EXCEPT !.queue[c] = Append(s.queue[c], argv)] /\ out = <<Queued>>
        BY <1>s, <2>9, Enqueues
      <3>2. IsQueues([s.queue EXCEPT ![c] = Append(s.queue[c], argv)])
        BY <1>3, Queues
      <3>3. /\ IsServer(new) /\ new.db = s.db
            /\ new.queue = [s.queue EXCEPT ![c] = Append(s.queue[c], argv)]
        BY <1>3, <3>1, <3>2 DEF IsServer
      <3>4. \A d \in Conns : \/ new.queue[d] = s.queue[d]
                             \/ Runnable(argv) /\ new.queue[d] = Append(s.queue[d], argv)
        BY <1>3, <2>9, <3>3
      <3>5. \A d \in Conns : Enqueued(s.queue[d], new.queue[d])
        BY <3>4 DEF Enqueued
      <3>6. Holds(new)
        BY <3>3, <3>5, HoldsStill
      <3> QED
        BY <1>1, <1>2, <3>1, <3>6
    <2>10. CASE Plainly(argv) /\ ~s.multi[c] /\ ~Redis!Malformed(argv)
      <3>1. new = Ran(s, c, argv) /\ out = Answers(s, c, argv)
        BY <1>s, <2>10, Runs
      <3>2. Holds(new) /\ out \in Seq(CommandReplies)
        BY <3>1, RanHolds
      <3>3. \A i \in DOMAIN out : out[i] \in CommandReplies
        BY <3>2, ItemsOf
      <3> QED
        BY <1>1, <3>2, <3>3
    <2>11. cmd \in {"SUBSCRIBE", "CLIENT"} => ~Redis!Malformed(argv)
      BY DEF Redis!Malformed
    <2> QED
      BY <2>1, <2>2, <2>3, <2>4, <2>5, <2>6, <2>7, <2>8, <2>9, <2>10, <2>11 DEF Plainly
  <1>t. ASSUME s.subscribed[c] PROVE Says
    <2>1. CASE cmd # "SUBSCRIBE"
      <3>1. new = s /\ out = <<Error>>
        BY <1>t, <2>1, Subscribed
      <3> QED
        BY <1>1, <1>2, <3>1
    <2>2. CASE cmd = "SUBSCRIBE" /\ ~s.multi[c]
      <3>0. Redis!Serve(s, c, argv) = [srv |-> [s EXCEPT !.subscribed[c] = yes],
                                       out |-> [i \in 1..(Len(argv) - 1) |-> Ok]]
        BY <1>a, <2>2, Subscribes
      <3>1. new = [s EXCEPT !.subscribed[c] = yes] /\ out = [i \in 1..(Len(argv) - 1) |-> Ok]
        BY <3>0
      <3>2. IsServer(new) /\ new.db = s.db /\ new.queue = s.queue
        BY <1>3, <3>1 DEF IsServer
      <3> QED
        BY <1>1, <3>1, <3>2, HoldsStill DEF Enqueued
    <2>3. CASE cmd = "SUBSCRIBE" /\ s.multi[c]
      <3>0. ~Redis!Malformed(argv) /\ argv[1] \in {"SUBSCRIBE", "CLIENT"}
        BY <2>3 DEF Redis!Malformed
      <3>1. new = [s EXCEPT !.queue[c] = Append(s.queue[c], argv)] /\ out = <<Queued>>
        BY <2>3, <3>0, Enqueues
      <3>2. IsQueues([s.queue EXCEPT ![c] = Append(s.queue[c], argv)])
        BY <1>3, Queues
      <3>3. /\ IsServer(new) /\ new.db = s.db
            /\ new.queue = [s.queue EXCEPT ![c] = Append(s.queue[c], argv)]
        BY <1>3, <3>1, <3>2 DEF IsServer
      <3>4. \A d \in Conns : \/ new.queue[d] = s.queue[d]
                             \/ Runnable(argv) /\ new.queue[d] = Append(s.queue[d], argv)
        BY <1>3, <3>0, <3>3
      <3>5. \A d \in Conns : Enqueued(s.queue[d], new.queue[d])
        BY <3>4 DEF Enqueued
      <3>6. Holds(new)
        BY <3>3, <3>5, HoldsStill
      <3> QED
        BY <1>1, <1>2, <3>1, <3>6
    <2> QED
      BY <2>1, <2>2, <2>3
  <1> QED
    BY <1>s, <1>t

-----------------------------------------------------------------------------
\* A server that has values only, and replies that have been sent but not
\* read, of which each is one that a Redis can make.
Speaking ==
    \E S : (\A r \in S : r.val \in AllReplies) /\ replies \in [Conns -> Seq(S)]
WireInv == ClaimInv /\ Holds(redis) /\ Speaking

\* The application's commands, rewritten, can be run unless they are refused.
LEMMA RewrittenRunnable ==
    ASSUME NEW c \in Conns, NEW argv \in Argvs[c], ~Redis!Malformed(Rewritten(argv))
    PROVE  Runnable(Rewritten(argv))
  <1>1. PICK n \in Nat \ {0} : n = Len(argv) /\ DOMAIN argv = 1..n
    BY SessionAssumption
  <1>2. PICK new : new = Rewritten(argv)
    OBVIOUS
  <1>3. /\ DOMAIN new = 1..n /\ Len(new) = n /\ new[1] = argv[1]
        /\ \A i \in 1..n : new[i] = IF i \in KeyArgs(argv) THEN VersionPrefix(argv[i])
                                    ELSE argv[i]
    BY <1>1, <1>2, RewrittenWords
  <1>4. \A i \in KeyArgs(argv) : i \in 1..n /\ new[i] \in RedisKeys
    <2>1. \A i \in KeyArgs(argv) : i \in 1..n /\ argv[i] \in Keys
      BY <1>1, SessionAssumption DEF KeyArgs
    <2> QED
      BY <1>3, <2>1, Prefixing
  <1>5. \A i \in ValueArgs(argv) : i \in 3..n /\ argv[i] \in Vals
    BY <1>1, WireAssumption DEF ValueArgs
  <1>6. \A i \in ValueArgs(argv) : i \notin KeyArgs(argv)
    BY <1>1 DEF ValueArgs, KeyArgs, SingleKey, ObjectLike, MultiKeyAll, MsetStyle, PairKey
  <1>7. \A i \in ValueArgs(argv) : new[i] \in Vals
    BY <1>1, <1>3, <1>5, <1>6
  <1>8. argv[1] \in {"GET", "RENAME"} => 2 \in KeyArgs(argv)
    BY <1>1, <1>2, <1>3 DEF KeyArgs, SingleKey, PairKey, Redis!Malformed
  <1>9. argv[1] = "MGET" => \A i \in 2..n : i \in KeyArgs(argv)
    BY <1>1 DEF KeyArgs, MultiKeyAll
  <1>10. argv[1] = "SET" => 3 \in ValueArgs(argv)
    BY <1>1, <1>2, <1>3 DEF ValueArgs, Redis!Malformed
  <1>11. argv[1] = "MSET" => \A i \in 3..n : i % 2 = 1 => i \in ValueArgs(argv)
    BY <1>1 DEF ValueArgs
  <1>12. ~Redis!Malformed(new)
    BY <1>2
  <1>13. Runnable(new)
    BY <1>3, <1>4, <1>7, <1>8, <1>9, <1>10, <1>11, <1>12 DEF Runnable
  <1> QED
    BY <1>2, <1>13

\* A command that the server can be sent: it is refused, or it can be run.
Askable(argv) ==
    /\ \E n \in Nat \ {0} : DOMAIN argv = 1..n /\ Len(argv) = n
    /\ ~Redis!Malformed(argv) => Runnable(argv)

\* The server answers a command, and new are the replies on c.
Answering(c, argv, new) ==
    LET out == Redis!Serve(redis, c, argv).out IN
    /\ Upstream(c, argv) /\ replies' = [replies EXCEPT ![c] = @ \o new]
    /\ new = [i \in DOMAIN out |-> new[i]] /\ \A i \in DOMAIN out : new[i].val = out[i]

LEMMA Speaks ==
    ASSUME Holds(redis), Speaking, NEW c \in Conns, NEW argv, Askable(argv),
           NEW new, Answering(c, argv, new)
    PROVE  Holds(redis)' /\ Speaking'
  <1>a. PICK out : out = Redis!Serve(redis, c, argv).out
    OBVIOUS
  <1>b. /\ Upstream(c, argv) /\ replies' = [replies EXCEPT ![c] = @ \o new]
        /\ DOMAIN new = DOMAIN out /\ new = [i \in DOMAIN out |-> new[i]]
        /\ \A i \in DOMAIN out : new[i].val = out[i]
    BY <1>a DEF Answering
  <1>1. PICK srv : srv = Redis!Serve(redis, c, argv).srv /\ srv = redis'
    BY <1>b DEF Upstream
  <1>2. Holds(srv) /\ \A i \in DOMAIN out : out[i] \in AllReplies
    BY <1>1, <1>a, ServeHolds DEF Askable
  <1>3. PICK m \in Nat : DOMAIN out = 1..m
    BY <1>a, Served DEF Askable
  <1>4. PICK S : (\A r \in S : r.val \in AllReplies) /\ replies \in [Conns -> Seq(S)]
    BY DEF Speaking
  <1>5. PICK T : T = S \cup {new[i] : i \in 1..m}
    OBVIOUS
  <1>6. S \subseteq T /\ new \in [1..m -> T]
    BY <1>3, <1>5, <1>b
  <1>7. new \in Seq(T)
    BY <1>6, Listed
  <1>8. replies' \in [Conns -> Seq(T)]
    BY <1>4, <1>6, <1>7, <1>b, Following
  <1>9. \A r \in T : r.val \in AllReplies
    BY <1>2, <1>3, <1>4, <1>5, <1>b
  <1>10. Speaking'
    BY <1>8, <1>9 DEF Speaking
  <1>11. Holds(redis')
    BY <1>1, <1>2
  <1>12. Holds(redis)'
    BY <1>11 DEF Holds, IsServer, IsQueues
  <1> QED
    BY <1>10, <1>12

LEMMA InitWire == Init => WireInv
  <1> SUFFICES ASSUME Init PROVE WireInv
    OBVIOUS
  <1>1. ClaimInv
    BY InitClaims
  <1>2. Holds(redis)
    <2>1. redis.queue \in [Conns -> Seq({})]
      BY DEF Init, Redis!Started
    <2>2. IsServer(redis)
      BY <2>1 DEF Init, Redis!Started, IsServer, IsQueues
    <2>3. redis.db \in [RedisKeys -> Stored] /\ \A c \in Conns : redis.queue[c] = <<>>
      BY DEF Init, Redis!Started, Stored
    <2> QED
      BY <2>2, <2>3 DEF Holds
  <1>3. Speaking
    <2>1. replies \in [Conns -> Seq({})]
      BY DEF Init
    <2> QED
      BY <2>1 DEF Speaking
  <1> QED
    BY <1>1, <1>2, <1>3 DEF WireInv

LEMMA RequestWire ==
    ASSUME WireInv, NEW c \in Conns, NEW argv \in Argvs[c], Request(c, argv)
    PROVE  Holds(redis)' /\ Speaking'
  <1>1. PICK new : new = Rewritten(argv)
    OBVIOUS
  <1>2. Askable(new)
    BY <1>1, Rewriting, RewrittenRunnable DEF Askable
  <1>3. PICK out : out = Redis!Serve(redis, c, new).out
    OBVIOUS
  <1> DEFINE expected == Redis!Serve(plain, c, argv).out
             sends == [i \in DOMAIN out |-> [of |-> Len(sent[c]) + 1, val |-> out[i],
                                            plain |-> expected[i]]]
  <1>4. Upstream(c, new) /\ replies' = [replies EXCEPT ![c] = @ \o sends]
    BY <1>1, <1>3 DEF Request
  <1>5. PICK s : s = sends
    OBVIOUS
  <1>6. s = [i \in DOMAIN out |-> s[i]] /\ \A i \in DOMAIN out : s[i].val = out[i]
    <2> HIDE DEF expected
    <2> QED
      BY <1>5
  <1> HIDE DEF sends
  <1>7. Answering(c, new, s)
    BY <1>3, <1>4, <1>5, <1>6 DEF Answering
  <1> QED
    BY <1>2, <1>7, Speaks DEF WireInv

\* A reply is taken off a connection, and the server left alone.
LEMMA TakingWire ==
    ASSUME WireInv, NEW c \in Conns, replies[c] # <<>>, redis' = redis,
           replies' = [replies EXCEPT ![c] = Tail(@)]
    PROVE  Holds(redis)' /\ Speaking'
  <1>1. PICK S : (\A r \in S : r.val \in AllReplies) /\ replies \in [Conns -> Seq(S)]
    BY DEF WireInv, Speaking
  <1>2. replies' \in [Conns -> Seq(S)]
    BY <1>1, Taking
  <1>3. Speaking'
    BY <1>1, <1>2 DEF Speaking
  <1> QED
    BY <1>3 DEF WireInv, Holds, IsServer, IsQueues

\* What a sibling has is a value, and a SET of it can be run.
LEMMA FetchWire ==
    ASSUME WireInv, NEW c \in Conns, Fetch(c)
    PROVE  Holds(redis)' /\ Speaking'
  <1>1. PICK v \in PeerVals :
          LET set == <<"SET", VersionPrefix(handler[c].argv[2]), v>>
              served == Redis!Serve(redis, c, set).out
          IN /\ Upstream(c, set)
             /\ replies' = [replies EXCEPT ![c] = @ \o
                    [i \in DOMAIN served |->
                        [of |-> 0, val |-> served[i], plain |-> served[i]]]]
    BY DEF Fetch
  <1>2. PICK set : set = <<"SET", VersionPrefix(handler[c].argv[2]), v>>
    OBVIOUS
  <1>3. /\ DOMAIN set = 1..3 /\ Len(set) = 3 /\ 3 \in Nat \ {0} /\ set[1] = "SET"
        /\ set[3] = v
    BY <1>2
  <1>4. Askable(set)
    <2>1. ~Redis!Malformed(set)
      BY <1>3 DEF Redis!Malformed
    <2>2. v \in Vals
      BY WireAssumption
    <2> QED
      BY <1>3, <2>1, <2>2 DEF Runnable, Askable
  <1>5. PICK out : out = Redis!Serve(redis, c, set).out
    OBVIOUS
  <1>6. PICK s : s = [i \in DOMAIN out |-> [of |-> 0, val |-> out[i], plain |-> out[i]]]
    OBVIOUS
  <1>7. Upstream(c, set) /\ replies' = [replies EXCEPT ![c] = @ \o s]
    BY <1>1, <1>2, <1>5, <1>6
  <1>8. s = [i \in DOMAIN out |-> s[i]] /\ \A i \in DOMAIN out : s[i].val = out[i]
    BY <1>6
  <1>9. Answering(c, set, s)
    BY <1>5, <1>7, <1>8 DEF Answering
  <1> QED
    BY <1>4, <1>9, Speaks DEF WireInv

LEMMA NextWire == WireInv /\ [Next]_vars => WireInv'
  <1> SUFFICES ASSUME WireInv, [Next]_vars PROVE WireInv'
    OBVIOUS
  <1>1. ClaimInv'
    BY NextClaims DEF WireInv
  <1>2. ASSUME NEW c \in Conns, NEW argv \in Argvs[c], Request(c, argv)
        PROVE  Holds(redis)' /\ Speaking'
    BY <1>2, RequestWire
  <1>3. ASSUME NEW c \in Conns, Receive(c) \/ EndWriteBack(c)
        PROVE  Holds(redis)' /\ Speaking'
    BY <1>3, TakingWire DEF Receive, EndWriteBack
  <1>4. ASSUME NEW c \in Conns, Fetch(c) PROVE Holds(redis)' /\ Speaking'
    BY <1>4, FetchWire
  <1>5. ASSUME UNCHANGED <<redis, replies>> PROVE Holds(redis)' /\ Speaking'
    BY <1>5 DEF WireInv, Holds, IsServer, IsQueues, Speaking
  <1>6. ASSUME NEW c \in Conns, FetchNone(c) PROVE Holds(redis)' /\ Speaking'
    BY <1>5, <1>6 DEF FetchNone
  <1>7. UNCHANGED vars => UNCHANGED <<redis, replies>>
    BY DEF vars
  <1>8. Holds(redis)' /\ Speaking'
    BY <1>2, <1>3, <1>4, <1>5, <1>6, <1>7 DEF Next, Handle
  <1> QED
    BY <1>1, <1>8 DEF WireInv

\* The next reply of a connection is one that a Redis can make.
LEMMA NextIsReply ==
    ASSUME WireInv, NEW reply \in NextReplies
    PROVE  reply \in AllReplies
  <1>1. PICK S : (\A r \in S : r.val \in AllReplies) /\ replies \in [Conns -> Seq(S)]
    BY DEF WireInv, Speaking
  <1>2. PICK c \in Conns : replies[c] # <<>> /\ reply = Head(replies[c]).val
    BY DEF NextReplies
  <1>3. Head(replies[c]) \in S
    BY <1>1, <1>2, Taking
  <1> QED
    BY <1>1, <1>2, <1>3

\* Whatever a Redis sends in answer to the commands of a session, and
\* whatever bytes its values have, readResp takes exactly the frame of the
\* next reply off the connection (handleAppConn, proxy.go:601-608).
THEOREM RepliesReadAsSent == Spec => []FramesAreReadBack
  <1>1. WireInv => FramesAreReadBack
    <2> SUFFICES ASSUME WireInv, NEW reply \in NextReplies, NEW f \in FramesOf(reply)
                 PROVE  ReadResp(f.wire \o <<Plus>>) = Read(f.value, <<Plus>>)
      BY DEF FramesAreReadBack
    <2>1. ReadsBack(f.value, f.wire)
      BY NextIsReply, FramesRead
    <2>2. <<Plus>> \in Streams
      BY Heads DEF Streams
    <2> QED
      BY <2>1, <2>2 DEF ReadsBack
  <1> QED
    BY <1>1, InitWire, NextWire, PTL DEF Spec

\* Whatever a Redis sends, a frame of which only a part has arrived when
\* the connection ends is an error for readResp, never a shorter value
\* (proxy.go:203-208).
THEOREM CutRepliesFail == Spec => []CutFramesFail
  <1>1. WireInv => CutFramesFail
    <2> SUFFICES ASSUME WireInv, NEW reply \in NextReplies, NEW f \in FramesOf(reply),
                        NEW n \in 1..(Len(f.wire) - 1)
                 PROVE  ReadResp(SubSeq(f.wire, 1, n)) = Fails
      BY DEF CutFramesFail
    <2>1. ReadsBack(f.value, f.wire)
      BY NextIsReply, FramesRead
    <2>2. n \in 0..(Len(f.wire) - 1)
      OBVIOUS
    <2> QED
      BY <2>1, <2>2 DEF ReadsBack
  <1> QED
    BY <1>1, InitWire, NextWire, PTL DEF Spec
=============================================================================
