------------------------------ MODULE ListingProofs -----------------------------
(***************************************************************************)
(* Theorems about what the ledger's reads select and how they lay it out,  *)
(* for any books, periods, metadata and page sizes. A statement's order is *)
(* one order, so pages cut from it make it up again; joined legs gather    *)
(* under their transactions; and what the command line asks for by the     *)
(* names the ledger prints is what those names were printed for.           *)
(***************************************************************************)
EXTENDS Listings, RegisterProofs, FoldProofs

\* Rows a statement can sort: finitely many, by dates and by ids of their own.
Sortable(rows) ==
    /\ IsFiniteSet(rows)
    /\ \A row \in rows : row.id \in Int /\ row.date \in Int
    /\ \A row, other \in rows : row.id = other.id => row = other

\* The rows above one, and what orders them.
Over(other, row, ascending) == IF ascending THEN Before(other, row) ELSE Before(row, other)
RowsAbove(row, rows, ascending) == {other \in rows : Over(other, row, ascending)}

\* The rows are in one order, which the ids settle.
LEMMA RowsOrdered ==
    ASSUME NEW rows, Sortable(rows), NEW ascending
    PROVE  /\ \A row \in rows : ~Over(row, row, ascending)
           /\ \A row, other \in rows : row # other => Over(row, other, ascending) \/ Over(other, row, ascending)
           /\ \A a, b, c \in rows : Over(a, b, ascending) /\ Over(b, c, ascending) => Over(a, c, ascending)
  <1>1. /\ \A row \in rows : row.id \in Int /\ row.date \in Int
        /\ \A row, other \in rows : row.id = other.id => row = other
    BY DEF Sortable
  <1>2. \A row \in rows : ~Over(row, row, ascending)
    BY <1>1 DEF Over, Before
  <1>3. ASSUME NEW row \in rows, NEW other \in rows, row # other
        PROVE  Over(row, other, ascending) \/ Over(other, row, ascending)
    <2>1. row.id \in Int /\ row.date \in Int /\ other.id \in Int /\ other.date \in Int
      BY <1>1
    <2>2. row.id # other.id
      BY <1>1, <1>3
    <2> QED
      BY <2>1, <2>2 DEF Over, Before
  <1>4. ASSUME NEW a \in rows, NEW b \in rows, NEW c \in rows,
               Over(a, b, ascending), Over(b, c, ascending)
        PROVE  Over(a, c, ascending)
    <2>1. /\ a.id \in Int /\ a.date \in Int /\ b.id \in Int /\ b.date \in Int
          /\ c.id \in Int /\ c.date \in Int
      BY <1>1
    <2> QED
      BY <1>4, <2>1 DEF Over, Before
  <1> QED
    BY <1>2, <1>3, <1>4, Zenon

\* Each place but those past the last is one row's: the row with so many above it.
LEMMA RowsPlaced ==
    ASSUME NEW rows, Sortable(rows), NEW ascending
    PROVE  /\ Cardinality(rows) \in Nat
           /\ \A row \in rows : Cardinality(RowsAbove(row, rows, ascending)) + 1 \in 1 .. Cardinality(rows)
           /\ \A row, other \in rows :
                 Cardinality(RowsAbove(row, rows, ascending)) = Cardinality(RowsAbove(other, rows, ascending))
                    => row = other
           /\ \A i \in 1 .. Cardinality(rows) :
                 \E row \in rows : Cardinality(RowsAbove(row, rows, ascending)) = i - 1
  <1> DEFINE above(row) == RowsAbove(row, rows, ascending)
             N == Cardinality(rows)
             place == [row \in rows |-> Cardinality(above(row)) + 1]
  <1>1. IsFiniteSet(rows) /\ N \in Nat
    BY FS_CardinalityType DEF Sortable
  <1>2. \A row \in rows : IsFiniteSet(above(row)) /\ Cardinality(above(row)) \in Nat
    <2> SUFFICES ASSUME NEW row \in rows
                 PROVE  IsFiniteSet(above(row)) /\ Cardinality(above(row)) \in Nat
      OBVIOUS
    <2>1. above(row) \in SUBSET rows
      BY DEF RowsAbove
    <2> HIDE DEF above
    <2> QED
      BY <1>1, <2>1, FS_Subset, FS_CardinalityType
  <1>3. ASSUME NEW row \in rows PROVE Cardinality(above(row)) < N
    <2>1. above(row) \in SUBSET (rows \ {row})
      BY RowsOrdered DEF RowsAbove
    <2>2. IsFiniteSet(rows \ {row}) /\ Cardinality(rows \ {row}) = N - 1
      BY <1>1, FS_RemoveElement
    <2> HIDE DEF above, N
    <2>3. Cardinality(above(row)) <= N - 1
      BY <2>1, <2>2, FS_Subset
    <2> QED
      BY <1>1, <1>2, <2>3
  <1>4. ASSUME NEW row \in rows, NEW other \in rows, Over(row, other, ascending)
        PROVE  Cardinality(above(row)) < Cardinality(above(other))
    <2>1. above(row) \in SUBSET above(other)
      BY <1>4, RowsOrdered DEF RowsAbove
    <2>2. row \in above(other) /\ row \notin above(row)
      BY <1>4, RowsOrdered DEF RowsAbove
    <2> HIDE DEF above
    <2>3. /\ Cardinality(above(row)) <= Cardinality(above(other))
          /\ Cardinality(above(other)) # Cardinality(above(row))
      BY <1>2, <2>1, <2>2, FS_Subset
    <2> QED
      BY <1>2, <2>3
  <1> HIDE DEF above, N
  <1>5. \A row, other \in rows : Cardinality(above(row)) = Cardinality(above(other)) => row = other
    <2> SUFFICES ASSUME NEW row \in rows, NEW other \in rows, row # other
                 PROVE  Cardinality(above(row)) # Cardinality(above(other))
      BY Zenon
    <2>1. CASE Over(row, other, ascending)
      BY <1>2, <1>4, <2>1
    <2>2. CASE Over(other, row, ascending)
      BY <1>2, <1>4, <2>2
    <2> QED
      BY <2>1, <2>2, RowsOrdered, Zenon
  <1>6. \A row \in rows : Cardinality(above(row)) + 1 \in 1 .. N
    BY <1>1, <1>2, <1>3
  <1>7. place \in Injection(rows, 1 .. N)
    <2>1. place \in [rows -> 1 .. N]
      BY <1>6
    <2>2. \A row, other \in rows : place[row] = place[other] => row = other
      BY <1>2, <1>5
    <2> QED
      BY <2>1, <2>2 DEF Injection, IsInjective
  <1> HIDE DEF place
  <1>8. place \in Surjection(rows, 1 .. N)
    <2>1. IsFiniteSet(1 .. N) /\ Cardinality(1 .. N) = N
      BY <1>1, FS_Interval
    <2> QED
      BY <1>7, <2>1, FS_Injection DEF N
  <1>9. \A i \in 1 .. N : \E row \in rows : place[row] = i
    BY <1>8 DEF Surjection
  <1>10. \A row \in rows : place[row] = Cardinality(above(row)) + 1
    BY Zenon DEF place
  <1>11. \A i \in 1 .. N : \E row \in rows : Cardinality(above(row)) = i - 1
    <2> TAKE i \in 1 .. N
    <2>1. PICK row \in rows : place[row] = i
      BY <1>9, Zenon
    <2>2. Cardinality(above(row)) = i - 1
      BY <1>1, <1>2, <1>10, <2>1
    <2> QED
      BY <2>2, Zenon
  <1> QED
    BY <1>1, <1>5, <1>6, <1>11 DEF above, N

\* A sequence with each row of a set once.
IsListOf(s, rows) ==
    /\ s \in Seq(rows) /\ Len(s) = Cardinality(rows)
    /\ \A row \in rows : \E i \in 1 .. Len(s) : s[i] = row
    /\ \A i, j \in 1 .. Len(s) : s[i] = s[j] => i = j

\* A statement returns each row once.
LEMMA SortedFacts ==
    ASSUME NEW rows, Sortable(rows), NEW ascending
    PROVE  IsListOf(Sorted(rows, ascending), rows)
  <1> DEFINE N == Cardinality(rows)
             rank(row) == Cardinality(RowsAbove(row, rows, ascending))
             s == Sorted(rows, ascending)
  <1>1. /\ N \in Nat /\ \A row \in rows : rank(row) \in Nat /\ rank(row) + 1 \in 1 .. N
        /\ \A row, other \in rows : rank(row) = rank(other) => row = other
        /\ \A i \in 1 .. N : \E row \in rows : rank(row) = i - 1
    <2>1. /\ N \in Nat /\ \A row \in rows : rank(row) + 1 \in 1 .. N
          /\ \A row, other \in rows : rank(row) = rank(other) => row = other
          /\ \A i \in 1 .. N : \E row \in rows : rank(row) = i - 1
      BY RowsPlaced
    <2> HIDE DEF rank, N
    <2>2. \A row \in rows : rank(row) \in Nat
      <3> TAKE row \in rows
      <3>1. IsFiniteSet(RowsAbove(row, rows, ascending))
        BY FS_Subset DEF RowsAbove, Sortable
      <3> QED
        BY <3>1, FS_CardinalityType DEF rank
    <2> QED
      BY <2>1, <2>2
  <1>2. s = [i \in 1 .. N |-> CHOOSE row \in rows : rank(row) = i - 1]
    BY Zenon DEF Sorted, RowsAbove, Over
  <1> HIDE DEF rank, N, s
  <1>3. \A i \in 1 .. N : s[i] \in rows /\ rank(s[i]) = i - 1
    <2> TAKE i \in 1 .. N
    <2>1. s[i] = CHOOSE row \in rows : rank(row) = i - 1
      BY <1>2
    <2>2. \E row \in rows : rank(row) = i - 1
      BY <1>1
    <2> QED
      BY <2>1, <2>2, Zenon
  <1>4. s \in Seq(rows) /\ Len(s) = N
    <2>1. s \in [1 .. N -> rows]
      BY <1>2, <1>3
    <2> QED
      BY <1>1, <2>1
  <1>5. ASSUME NEW row \in rows PROVE \E i \in 1 .. N : s[i] = row
    <2>1. PICK n \in Nat : rank(row) = n /\ n + 1 \in 1 .. N
      BY <1>1
    <2>2. (n + 1) - 1 = n
      OBVIOUS
    <2>3. s[n + 1] \in rows /\ rank(s[n + 1]) = n
      BY <1>3, <2>1, <2>2, Zenon
    <2>4. s[n + 1] = row
      BY <1>1, <2>1, <2>3
    <2> QED
      BY <2>1, <2>4
  <1>6. \A i, j \in 1 .. N : s[i] = s[j] => i = j
    <2> SUFFICES ASSUME NEW i \in 1 .. N, NEW j \in 1 .. N, s[i] = s[j] PROVE i = j
      OBVIOUS
    <2>1. i - 1 = j - 1
      BY <1>3
    <2> QED
      BY <1>1, <2>1
  <1> QED
    BY <1>4, <1>5, <1>6 DEF IsListOf, N, s

----------------------------------------------------------------------------
\* Legs of the books have ids of their own.
LEMMA LegsApart ==
    ASSUME NEW a \in Nat, NEW b \in Nat, NEW l \in 1 .. MaxLegs, NEW m \in 1 .. MaxLegs,
           LegId(a, l) = LegId(b, m)
    PROVE  a = b /\ l = m
  <1>1. MaxLegs \in Nat
    BY ListingConstants
  <1> DEFINE M == MaxLegs + 1
  <1>2. M \in Nat /\ l \in 1 .. M - 1 /\ m \in 1 .. M - 1 /\ a * M + l = b * M + m
    BY <1>1 DEF LegId
  <1> HIDE DEF M
  <1>3. \A x, y \in Nat : x < y => x * M + M <= y * M
    <2> SUFFICES ASSUME NEW x \in Nat, NEW y \in Nat, x < y PROVE x * M + M <= y * M
      OBVIOUS
    <2>1. PICK d \in Nat : y = x + 1 + d
      <3>1. y - x - 1 \in Nat /\ y = x + 1 + (y - x - 1)
        OBVIOUS
      <3> QED
        BY <3>1
    <2>2. y * M = x * M + M + d * M /\ d * M \in Nat /\ x * M \in Nat
      BY <1>2, <2>1
    <2> QED
      BY <1>2, <2>2
  <1>4. a * M \in Nat /\ b * M \in Nat
    BY <1>2
  <1>5. ~(a < b)
    <2> SUFFICES ASSUME a < b PROVE FALSE
      OBVIOUS
    <2>1. a * M + M <= b * M
      BY <1>3
    <2> QED
      BY <1>2, <1>4, <2>1
  <1>6. ~(b < a)
    <2> SUFFICES ASSUME b < a PROVE FALSE
      OBVIOUS
    <2>1. b * M + M <= a * M
      BY <1>3
    <2> QED
      BY <1>2, <1>4, <2>1
  <1>7. a = b
    BY <1>5, <1>6
  <1> QED
    BY <1>2, <1>4, <1>7

\* What is known of a book's transactions.
LEMMA BookFacts ==
    ASSUME NEW book \in Books
    PROVE  /\ IsFiniteSet(book)
           /\ \A t, other \in book : t.id = other.id => t = other
           /\ \A t \in book :
                 /\ t.id \in Nat /\ t.date \in Int
                 /\ DOMAIN t.legs = 1 .. Len(t.legs) /\ Len(t.legs) \in 1 .. MaxLegs
                 /\ \A leg \in DOMAIN t.legs : IsLeg(t.legs[leg]) /\ leg \in 1 .. MaxLegs
  <1>1. /\ IsFiniteSet(book)
        /\ \A t, other \in book : t.id = other.id => t = other
        /\ \A t \in book :
              /\ t.id \in Nat /\ t.date \in Int
              /\ DOMAIN t.legs = 1 .. Len(t.legs) /\ Len(t.legs) \in 1 .. MaxLegs
              /\ \A leg \in DOMAIN t.legs : IsLeg(t.legs[leg])
    BY ListingConstants, Zenon
  <1>2. ASSUME NEW t \in book, NEW leg \in DOMAIN t.legs PROVE leg \in 1 .. MaxLegs
    <2>1. leg \in 1 .. Len(t.legs) /\ Len(t.legs) \in 1 .. MaxLegs /\ MaxLegs \in Nat
      BY <1>1, ListingConstants, Zenon
    <2> QED
      BY <2>1
  <1> QED
    BY <1>1, <1>2, Zenon

\* What is known of a posting row.
LEMMA PostingRowFacts ==
    ASSUME NEW book \in Books, NEW row \in PostingRows(book)
    PROVE  \E t \in book : \E leg \in DOMAIN t.legs :
             /\ row = PostingRow(t, leg)
             /\ row.id = LegId(t.id, leg) /\ row.date = t.date /\ row.of = t
             /\ row.account = t.legs[leg].account /\ row.currency = t.legs[leg].currency
             /\ row.id \in Int /\ row.date \in Int /\ IsLeg(t.legs[leg])
  <1>1. PICK t \in book : \E leg \in DOMAIN t.legs : row = PostingRow(t, leg)
    BY DEF PostingRows
  <1>2. PICK leg \in DOMAIN t.legs : row = PostingRow(t, leg)
    BY <1>1
  <1>3. /\ row.id = LegId(t.id, leg) /\ row.date = t.date /\ row.of = t
        /\ row.account = t.legs[leg].account /\ row.currency = t.legs[leg].currency
    BY <1>2 DEF PostingRow
  <1>4. t.id \in Nat /\ t.date \in Int /\ IsLeg(t.legs[leg]) /\ leg \in 1 .. MaxLegs
    BY BookFacts
  <1>5. LegId(t.id, leg) \in Int
    <2>1. MaxLegs \in Nat
      BY ListingConstants
    <2>2. \A a \in Nat, l \in 1 .. MaxLegs : LegId(a, l) \in Int
      BY <2>1 DEF LegId
    <2> QED
      BY <1>4, <2>2
  <1> QED
    BY <1>2, <1>3, <1>4, <1>5, Zenon

\* The postings of a book can be sorted.
LEMMA PostingsSortable ==
    ASSUME NEW book \in Books
    PROVE  Sortable(PostingRows(book))
  <1> DEFINE rowsOf == [t \in book |-> {PostingRow(t, leg) : leg \in DOMAIN t.legs}]
             tables == {rowsOf[t] : t \in book}
  <1>1. PostingRows(book) = UNION tables
    BY DEF PostingRows
  <1>2. ASSUME NEW t \in book PROVE IsFiniteSet(rowsOf[t])
    <2> DEFINE f == [leg \in DOMAIN t.legs |-> PostingRow(t, leg)]
    <2>1. f \in Surjection(DOMAIN t.legs, rowsOf[t])
      BY DEF Surjection
    <2>2. IsFiniteSet(DOMAIN t.legs)
      <3>1. DOMAIN t.legs = 1 .. Len(t.legs) /\ Len(t.legs) \in 1 .. MaxLegs
        BY BookFacts
      <3>2. 1 \in Int /\ Len(t.legs) \in Int
        BY <3>1
      <3> QED
        BY <3>1, <3>2, FS_Interval
    <2> HIDE DEF f, rowsOf
    <2> QED
      BY <2>1, <2>2, FS_Surjection
  <1>3. IsFiniteSet(tables)
    <2>1. rowsOf \in Surjection(book, tables)
      BY DEF Surjection
    <2>2. IsFiniteSet(book)
      BY BookFacts
    <2> HIDE DEF rowsOf, tables
    <2> QED
      BY <2>1, <2>2, FS_Surjection
  <1>4. IsFiniteSet(PostingRows(book))
    <2>1. \A T \in tables : IsFiniteSet(T)
      <3> HIDE DEF rowsOf
      <3> QED
        BY <1>2
    <2> HIDE DEF tables
    <2> QED
      BY <1>1, <1>3, <2>1, FS_UNION
  <1>5. ASSUME NEW row \in PostingRows(book), NEW other \in PostingRows(book), row.id = other.id
        PROVE  row = other
    <2>1. PICK t \in book : \E leg \in DOMAIN t.legs :
             row = PostingRow(t, leg) /\ row.id = LegId(t.id, leg)
      BY PostingRowFacts
    <2>2. PICK leg \in DOMAIN t.legs : row = PostingRow(t, leg) /\ row.id = LegId(t.id, leg)
      BY <2>1
    <2>3. PICK u \in book : \E m \in DOMAIN u.legs :
             other = PostingRow(u, m) /\ other.id = LegId(u.id, m)
      BY PostingRowFacts
    <2>4. PICK m \in DOMAIN u.legs : other = PostingRow(u, m) /\ other.id = LegId(u.id, m)
      BY <2>3
    <2>5. t.id \in Nat /\ u.id \in Nat /\ leg \in 1 .. MaxLegs /\ m \in 1 .. MaxLegs
      BY BookFacts
    <2>6. t.id = u.id /\ leg = m
      <3>1. LegId(t.id, leg) = LegId(u.id, m)
        BY <1>5, <2>2, <2>4
      <3> QED
        BY <2>5, <3>1, LegsApart
    <2>7. t = u
      BY <2>6, BookFacts
    <2> QED
      BY <2>2, <2>4, <2>6, <2>7
  <1>6. \A row \in PostingRows(book) : row.id \in Int /\ row.date \in Int
    BY PostingRowFacts
  <1> QED
    BY <1>4, <1>5, <1>6, Zenon DEF Sortable

\* A type's name reads back as a type of that name.
LEMMA NamesReadBack ==
    ASSUME NEW type \in DOMAIN TypeNames
    PROVE  /\ StringToAccountType(TypeNames[type]) \in DOMAIN TypeNames
           /\ StringToAccountType(TypeNames[type]) # 0
           /\ AccountTypeToString(StringToAccountType(TypeNames[type])) = TypeNames[type]
           /\ TypeNames[type] # ""
  <1> DEFINE name == TypeNames[type]
             read == CHOOSE other \in DOMAIN TypeNames : TypeNames[other] = UpperCased[name]
  <1>1. UpperCased[name] = name /\ 0 \notin DOMAIN TypeNames
    BY WireConstants
  <1>2. \E other \in DOMAIN TypeNames : TypeNames[other] = UpperCased[name]
    BY <1>1
  <1>3. read \in DOMAIN TypeNames /\ TypeNames[read] = name
    BY <1>1, <1>2
  <1>4. StringToAccountType(name) = read
    BY <1>2 DEF StringToAccountType
  <1> HIDE DEF read
  <1>5. AccountTypeToString(read) = name
    BY <1>1, <1>3 DEF AccountTypeToString
  <1>6. name # ""
    BY ListingConstants
  <1> QED
    BY <1>1, <1>3, <1>4, <1>5, <1>6

\* What is asked for of a register, field by field.
AsksFor(filter, account, currency) ==
    /\ filter.number = 1 /\ filter.size = 100
    /\ filter.period = <<Absent, Absent>> /\ filter.metadata = <<>>
    /\ Asked(filter).type = AccountTypeToString(account.type)
    /\ Asked(filter).user = account.user /\ Asked(filter).name = account.name
    /\ Asked(filter).currency = UpperCased[currency]

\* The register command asks for its account and currency.
LEMMA RequestFields ==
    ASSUME NEW argument, NEW currency, NEW reverse
    PROVE  AsksFor(RegisterRequest(argument, currency, reverse), AccountFrom(Split(argument)), currency)
  <1> DEFINE filter == RegisterRequest(argument, currency, reverse)
             type == AccountFrom(Split(argument)).type
             user == AccountFrom(Split(argument)).user
             name == AccountFrom(Split(argument)).name
             any == <<Absent, Absent>>
             none == <<>>
             ascending == ~reverse
  <1>1. filter = [type |-> type, user |-> user, name |-> name, currency |-> currency,
                  period |-> any, metadata |-> none,
                  size |-> 100, number |-> 1, ascending |-> ascending]
    BY DEF RegisterRequest
  <1> HIDE DEF filter, type, user, name, any, none, ascending
  <1>2. filter.type = type /\ filter.currency = currency
    BY <1>1
  <1> DEFINE stored == AccountTypeToString(type)
             code == UpperCased[currency]
  <1>3. Asked(filter) = [filter EXCEPT !.type = stored, !.currency = code]
    BY <1>2 DEF Asked
  <1> HIDE DEF stored, code
  <1>4. /\ Asked(filter).type = stored /\ Asked(filter).user = user
        /\ Asked(filter).name = name /\ Asked(filter).currency = code
    <2>1. filter.user = user /\ filter.name = name
      BY <1>1
    <2>2. {"type", "user", "name", "currency"} \subseteq DOMAIN filter
      BY <1>1
    <2>3. Asked(filter) = [field \in DOMAIN filter |->
                             IF field = "currency" THEN code ELSE IF field = "type" THEN stored ELSE filter[field]]
      BY <1>3, Zenon
    <2>4. Asked(filter).type = stored /\ Asked(filter).currency = code
      BY <2>2, <2>3
    <2>5. Asked(filter).user = filter.user /\ Asked(filter).name = filter.name
      BY <2>2, <2>3
    <2> QED
      BY <2>1, <2>4, <2>5
  <1>5. /\ filter.number = 1 /\ filter.size = 100
        /\ filter.period = any /\ filter.metadata = none
    BY <1>1
  <1> QED
    BY <1>4, <1>5, Zenon DEF AsksFor, stored, code, filter, type, user, name, any, none

\* A stored account: of a type with a name, its user and its name texts.
Stored(account) ==
    /\ account = [type |-> account.type, user |-> account.user, name |-> account.name]
    /\ \E type \in DOMAIN TypeNames : account.type = TypeNames[type]
    /\ IsText(account.user) /\ IsText(account.name)

\* What a stored account is reported as.
LEMMA ReportedFields ==
    ASSUME NEW account, Stored(account)
    PROVE  /\ Reported(account) = [type |-> StringToAccountType(account.type),
                                   user |-> account.user, name |-> account.name]
           /\ Reported(account).type = StringToAccountType(account.type)
           /\ Reported(account).user = account.user /\ Reported(account).name = account.name
           /\ StringToAccountType(account.type) # 0
           /\ AccountTypeToString(StringToAccountType(account.type)) = account.type
           /\ account.type # "" /\ account.type \in Pieces
  <1> DEFINE read == StringToAccountType(account.type)
  <1>1. PICK known \in DOMAIN TypeNames : account.type = TypeNames[known]
    BY DEF Stored
  <1>2. /\ read # 0 /\ AccountTypeToString(read) = account.type
        /\ account.type # "" /\ account.type \in Pieces
    BY <1>1, NamesReadBack, CommandLineConstants
  <1> HIDE DEF read
  <1>3. account = [type |-> account.type, user |-> account.user, name |-> account.name]
    BY DEF Stored
  <1>4. Reported(account) = [account EXCEPT !.type = read]
    BY DEF Reported, read
  <1>5. Reported(account) = [type |-> read, user |-> account.user, name |-> account.name]
    BY <1>3, <1>4
  <1>6. /\ Reported(account).type = read
        /\ Reported(account).user = account.user /\ Reported(account).name = account.name
    BY <1>5
  <1> QED
    BY <1>2, <1>5, <1>6 DEF read

\* Each piece of a text is a part.
LEMMA SplitFacts ==
    ASSUME NEW text \in Seq(Pieces)
    PROVE  /\ Len(Split(text)) = Len(text)
           /\ \A i \in 1 .. Len(text) : Split(text)[i] = <<text[i]>>
  <1> DEFINE parts == {<<piece>> : piece \in Pieces}
             n == Len(text)
  <1>1. n \in Nat /\ DOMAIN text = 1 .. n /\ \A i \in 1 .. n : text[i] \in Pieces
    OBVIOUS
  <1>2. Split(text) = [i \in 1 .. n |-> <<text[i]>>]
    BY <1>1 DEF Split
  <1>3. Split(text) \in [1 .. n -> parts]
    BY <1>1, <1>2
  <1>4. DOMAIN Split(text) = 1 .. n /\ \A i \in 1 .. n : Split(text)[i] = <<text[i]>>
    BY <1>2
  <1> HIDE DEF parts, n
  <1>5. Split(text) \in Seq(parts)
    BY <1>1, <1>3
  <1>6. Len(Split(text)) = n
    BY <1>1, <1>4, <1>5
  <1> QED
    BY <1>4, <1>6 DEF n

\* A stored account is printed as a text, of its type and the pieces of its user and name.
LEMMA PrintedFacts ==
    ASSUME NEW account, Stored(account)
    PROVE  LET printed == FormatAccount(Reported(account))
           IN  /\ printed \in Seq(Pieces)
               /\ Len(printed) = 1 + Len(account.user) + Len(account.name)
               /\ printed[1] = account.type
               /\ Len(account.user) = 1 /\ Len(account.name) = 1 =>
                     <<printed[2]>> = account.user /\ <<printed[3]>> = account.name
  <1> DEFINE user == account.user
             name == account.name
             word == account.type
             printed == FormatAccount(Reported(account))
  <1>1. user \in Seq(Pieces) /\ name \in Seq(Pieces)
    BY DEF Stored, IsText
  <1>2. printed = <<word>> \o user \o name /\ word \in Pieces
    <2>1. /\ AccountTypeToString(Reported(account).type) = word
          /\ Reported(account).user = user /\ Reported(account).name = name
          /\ word \in Pieces
      BY ReportedFields, Zenon
    <2> QED
      BY <2>1, Zenon DEF FormatAccount
  <1> HIDE DEF user, name, word, printed
  <1>3. <<word>> \in Seq(Pieces) /\ Len(<<word>>) = 1 /\ <<word>>[1] = word
    BY <1>2
  <1> DEFINE head == <<word>> \o user
  <1>4. /\ head \in Seq(Pieces) /\ Len(head) = 1 + Len(user) /\ head[1] = word
        /\ Len(user) = 1 => head[2] = user[1]
    BY <1>1, <1>3
  <1>5. printed = head \o name
    BY <1>2
  <1> HIDE DEF head
  <1>6. /\ printed \in Seq(Pieces) /\ Len(printed) = Len(head) + Len(name)
        /\ \A i \in 1 .. Len(head) + Len(name) :
              printed[i] = IF i <= Len(head) THEN head[i] ELSE name[i - Len(head)]
    <2>1. head \in Seq(Pieces) /\ name \in Seq(Pieces)
      BY <1>1, <1>4
    <2> QED
      BY <1>5, <2>1
  <1>7. Len(user) \in Nat /\ Len(name) \in Nat
    BY <1>1
  <1>8. printed[1] = word /\ Len(printed) = 1 + Len(user) + Len(name)
    BY <1>4, <1>6, <1>7
  <1>9. ASSUME Len(user) = 1, Len(name) = 1
        PROVE  <<printed[2]>> = user /\ <<printed[3]>> = name
    <2>1. printed[2] = user[1] /\ printed[3] = name[1]
      BY <1>4, <1>6, <1>9
    <2>2. user = <<user[1]>> /\ name = <<name[1]>>
      BY <1>1, <1>9
    <2> QED
      BY <2>1, <2>2
  <1> QED
    BY <1>6, <1>8, <1>9 DEF user, name, word, printed

\* An account as it is printed reads back as that account, or is refused for a colon in
\* its user or its name.
LEMMA PrintedIsReadBack ==
    ASSUME NEW account, Stored(account)
    PROVE  LET printed == FormatAccount(Reported(account))
           IN  /\ AccountArgumentRefused(printed) <=>
                     Len(account.user) > 1 \/ Len(account.name) > 1
               /\ ~AccountArgumentRefused(printed) =>
                     AccountFrom(Split(printed)) = Reported(account)
  <1> DEFINE printed == FormatAccount(Reported(account))
             parts == Split(printed)
             read == StringToAccountType(account.type)
             m == Len(account.user)
             n == Len(account.name)
  <1>1. /\ printed \in Seq(Pieces) /\ Len(printed) = 1 + m + n /\ printed[1] = account.type
        /\ m = 1 /\ n = 1 => <<printed[2]>> = account.user /\ <<printed[3]>> = account.name
    BY PrintedFacts
  <1>2. /\ Reported(account) = [type |-> read, user |-> account.user, name |-> account.name]
        /\ read # 0
    BY ReportedFields
  <1>3. m \in Nat /\ n \in Nat /\ m # 0 /\ n # 0
    <2>1. \A text \in Seq(Pieces) \ {<<>>} : Len(text) \in Nat /\ Len(text) # 0
      OBVIOUS
    <2> QED
      BY <2>1 DEF Stored, IsText
  <1> HIDE DEF printed
  <1>4. Len(parts) = 1 + m + n /\ \A i \in 1 .. 1 + m + n : parts[i] = <<printed[i]>>
    BY <1>1, SplitFacts
  <1> HIDE DEF parts, m, n
  <1>5. parts[1] = <<account.type>>
    BY <1>1, <1>3, <1>4
  <1>6. AccountFrom(parts) = [type |-> read, user |-> parts[2], name |-> parts[3]]
    <2>1. parts[1][1] = account.type
      BY <1>5
    <2> QED
      BY <2>1 DEF AccountFrom
  <1>7. AccountFrom(parts).type # 0
    BY <1>2, <1>6
  <1>8. AccountArgumentRefused(printed) <=> m > 1 \/ n > 1
    <2>1. AccountArgumentRefused(printed) <=> Len(parts) # 3
      BY <1>7 DEF AccountArgumentRefused, parts
    <2> QED
      BY <1>3, <1>4, <2>1
  <1>9. ASSUME ~AccountArgumentRefused(printed) PROVE AccountFrom(parts) = Reported(account)
    <2>1. m = 1 /\ n = 1
      BY <1>3, <1>8, <1>9
    <2>2. parts[2] = account.user /\ parts[3] = account.name
      BY <1>1, <1>4, <2>1
    <2> QED
      BY <1>2, <1>6, <2>2
  <1> QED
    BY <1>8, <1>9 DEF printed, parts, m, n

\* What is asked for is the register of a stored account, and all of it.
Registers(request, account, currency) ==
    /\ request.number = 1 /\ request.size = 100
    /\ request.period = <<Absent, Absent>> /\ request.metadata = <<>>
    /\ Asked(request).type = account.type /\ account.type # ""
    /\ Asked(request).user = account.user /\ Asked(request).name = account.name
    /\ Asked(request).currency = UpperCased[currency] /\ UpperCased[currency] # ""

\* What a register is asked for by an account that reads back and a spelling of a
\* currency, as the service passes it on.
LEMMA RegisterAsked ==
    ASSUME NEW account, Stored(account), NEW argument, NEW currency \in {"usd", "USD"},
           AccountFrom(Split(argument)) = Reported(account)
    PROVE  Registers(RegisterRequest(argument, currency, FALSE), account, currency)
  <1> DEFINE filter == RegisterRequest(argument, currency, FALSE)
             read == StringToAccountType(account.type)
             asked == AccountFrom(Split(argument))
  <1>1. asked.type = read /\ asked.user = account.user /\ asked.name = account.name
    BY ReportedFields, Zenon
  <1>2. AccountTypeToString(read) = account.type /\ account.type # ""
    BY ReportedFields
  <1>3. AsksFor(filter, asked, currency)
    BY RequestFields
  <1> HIDE DEF filter, read, asked
  <1>4. UpperCased[currency] # ""
    <2>1. currency \in {"", "usd", "USD"} \cup {TypeNames[t] : t \in DOMAIN TypeNames} /\ currency # ""
      OBVIOUS
    <2> QED
      BY <2>1, ListingConstants, Zenon
  <1> QED
    BY <1>1, <1>2, <1>3, <1>4 DEF AsksFor, Registers, filter

\* Rows of a table that can be sorted can be too.
LEMMA SomeSortable ==
    ASSUME NEW rows, Sortable(rows), NEW some \in SUBSET rows
    PROVE  Sortable(some)
  <1>1. IsFiniteSet(some)
    BY FS_Subset DEF Sortable
  <1> QED
    BY <1>1 DEF Sortable

\* Each row's id is on the page, or rows' ids are and the total says there are more.
ShowsOrSaysMore(part, all, rows) ==
    LET shown == {part[i].id : i \in DOMAIN part}
        ids == {row.id : row \in rows}
    IN  /\ shown = ids \/ (shown \subseteq ids /\ Len(part) < Len(all))
        /\ Len(all) = Cardinality(ids)

\* A first page shows every row there is, or fewer than the total says; and the total
\* counts the ids.
LEMMA FirstPageFacts ==
    ASSUME NEW rows, Sortable(rows), NEW ascending, NEW page, page.number = 1, page.size = 100
    PROVE  ShowsOrSaysMore(PageOf(Sorted(rows, ascending), page), Sorted(rows, ascending), rows)
  <1> DEFINE all == Sorted(rows, ascending)
             part == PageOf(all, page)
             shown == {part[i].id : i \in DOMAIN part}
             ids == {row.id : row \in rows}
             limit == Limit(100)
  <1>1. IsListOf(all, rows)
    BY SortedFacts
  <1>2. Offset(1, 100) = 0 /\ limit \in Nat \ {0}
    <2>1. LargestNumber \in Nat
      BY RegisterConstants
    <2>2. limit \in 1 .. LargestNumber
      BY LimitFacts
    <2>3. Offset(1, 100) = (1 - 1) * limit
      BY <2>1, OffsetFacts
    <2>4. limit \in Nat \ {0} /\ (1 - 1) * limit = 0
      BY <2>1, <2>2
    <2> QED
      BY <2>3, <2>4
  <1>3. part = Cut(all, 0, limit)
    BY <1>2 DEF PageOf, Cut
  <1> HIDE DEF all, limit, part
  <1>4. /\ all \in Seq(rows) /\ Len(all) = Cardinality(rows) /\ Len(all) \in Nat
        /\ \A row \in rows : \E i \in 1 .. Len(all) : all[i] = row
    BY <1>1 DEF IsListOf
  <1>5. IsCut(part, all, 0, limit, rows)
    BY <1>2, <1>3, <1>4, CutFacts
  <1>6. /\ part \in Seq(rows) /\ DOMAIN part = 1 .. Len(part) /\ Len(part) \in Nat
        /\ \A i \in 1 .. Len(part) : i \in 1 .. Len(all) /\ part[i] = all[i] /\ part[i] \in rows
    <2>1. /\ part \in Seq(rows)
          /\ \A i \in DOMAIN part : 0 + i \in 1 .. Len(all) /\ part[i] = all[0 + i]
      BY <1>5 DEF IsCut
    <2>2. DOMAIN part = 1 .. Len(part) /\ Len(part) \in Nat /\ \A i \in 1 .. Len(part) : part[i] \in rows
      BY <2>1
    <2>3. \A i \in 1 .. Len(part) : 0 + i = i
      BY <2>2
    <2> QED
      BY <2>1, <2>2, <2>3
  <1>7. shown \subseteq ids
    BY <1>6
  <1>8. ASSUME ~(Len(part) < Len(all)) PROVE shown = ids
    <2>1. \A i \in 1 .. Len(all) : i \in 1 .. Len(part)
      BY <1>4, <1>6, <1>8
    <2>2. ids \subseteq shown
      <3> SUFFICES ASSUME NEW row \in rows PROVE row.id \in shown
        OBVIOUS
      <3>1. PICK i \in 1 .. Len(all) : all[i] = row
        BY <1>4
      <3>2. i \in DOMAIN part /\ part[i] = row
        BY <1>6, <2>1, <3>1
      <3> QED
        BY <3>2
    <2> QED
      BY <1>7, <2>2
  <1>9. Len(all) = Cardinality(ids)
    <2> DEFINE f == [row \in rows |-> row.id]
    <2>1. f \in Bijection(rows, ids)
      <3>1. \A row, other \in rows : f[row] = f[other] => row = other
        BY DEF Sortable
      <3>2. f \in [rows -> ids] /\ \A id \in ids : \E row \in rows : f[row] = id
        OBVIOUS
      <3> QED
        BY <3>1, <3>2 DEF Bijection, Injection, Surjection, IsInjective
    <2>2. IsFiniteSet(rows)
      BY DEF Sortable
    <2> HIDE DEF f, ids
    <2>3. ExistsBijection(rows, ids)
      BY <2>1 DEF ExistsBijection
    <2> QED
      BY <1>4, <2>2, <2>3, FS_Bijection
  <1>10. shown = ids \/ (shown \subseteq ids /\ Len(part) < Len(all))
    BY <1>7, <1>8
  <1> QED
    BY <1>9, <1>10 DEF ShowsOrSaysMore, all, part

\* A posting's account is a stored one.
LEMMA PostedAccounts ==
    ASSUME NEW book \in Books, NEW r \in PostingRows(book)
    PROVE  Stored(r.account)
  <1>1. PICK t \in book : \E leg \in DOMAIN t.legs :
           r.account = t.legs[leg].account /\ IsLeg(t.legs[leg])
    BY PostingRowFacts
  <1>2. PICK leg \in DOMAIN t.legs : r.account = t.legs[leg].account /\ IsLeg(t.legs[leg])
    BY <1>1
  <1> QED
    BY <1>2 DEF IsLeg, Stored

\* Without dates and metadata everything is asked for.
LEMMA AnyTime ==
    /\ \A date : InPeriod(<<Absent, Absent>>, date)
    /\ \A metadata : CarriesPairs(metadata, <<>>)
  <1>1. <<Absent, Absent>>[1] = Absent /\ <<Absent, Absent>>[2] = Absent /\ DOMAIN <<>> = {}
    OBVIOUS
  <1>2. \A date : InPeriod(<<Absent, Absent>>, date)
    BY <1>1, Zenon DEF InPeriod
  <1>3. \A metadata : CarriesPairs(metadata, <<>>)
    BY <1>1, Zenon DEF CarriesPairs
  <1> QED
    BY <1>2, <1>3, Zenon

\* What a read of postings selects, and the postings of one account.
Selected(book, request) ==
    {r \in PostingRows(book) :
        /\ SelectsAccount(Asked(request), r)
        /\ InPeriod(request.period, r.date)
        /\ CarriesPairs(r.of.metadata, request.metadata)}

RegisterOf(book, account, currency) ==
    {r \in PostingRows(book) : r.account = account /\ r.currency = UpperCased[currency]}

\* What the register command asks for whatever the account is.
FirstHundred(request) == request.number = 1 /\ request.size = 100
Spellings == {"usd", "USD"}

\* The register of a posting's account, asked for by an argument that is taken for it and
\* in any spelling of its currency, has the account's postings and no others.
LEMMA RegisterSelects ==
    ASSUME NEW book \in Books, NEW row \in PostingRows(book), NEW currency \in Spellings,
           NEW argument, AccountFrom(Split(argument)) = Reported(row.account),
           NEW request, request = RegisterRequest(argument, currency, FALSE)
    PROVE  FirstHundred(request) /\ Selected(book, request) = RegisterOf(book, row.account, currency)
  <1> DEFINE asked == Asked(request)
  <1>1. ASSUME NEW r \in PostingRows(book)
        PROVE  /\ r.account = [type |-> r.account.type, user |-> r.account.user, name |-> r.account.name]
               /\ r.account.user # Absent /\ r.account.name # Absent
    <2>1. Stored(r.account)
      BY PostedAccounts
    <2>2. ~IsText(Absent)
      BY ListingConstants
    <2> QED
      BY <2>1, <2>2, Zenon DEF Stored
  <1>2. currency \in {"usd", "USD"}
    BY DEF Spellings
  <1>3. Registers(request, row.account, currency)
    BY <1>2, PostedAccounts, RegisterAsked
  <1>5. /\ asked.type = row.account.type /\ asked.type # ""
        /\ asked.user = row.account.user /\ asked.name = row.account.name
        /\ asked.currency = UpperCased[currency] /\ asked.currency # ""
    BY <1>3 DEF Registers
  <1> HIDE DEF asked
  <1>6. ASSUME NEW r \in PostingRows(book)
        PROVE  SelectsAccount(asked, r) <=> r.account = row.account /\ r.currency = UpperCased[currency]
    <2>1. asked.user # Absent /\ asked.name # Absent
      BY <1>1, <1>5
    <2>2. SelectsAccount(asked, r) <=>
             /\ r.account.type = row.account.type /\ r.account.user = row.account.user
             /\ r.account.name = row.account.name /\ r.currency = UpperCased[currency]
      BY <1>5, <2>1 DEF SelectsAccount, IfSet, IfGiven
    <2>3. ASSUME r.account.type = row.account.type, r.account.user = row.account.user,
                 r.account.name = row.account.name
          PROVE  r.account = row.account
      <3>1. r.account = [type |-> r.account.type, user |-> r.account.user, name |-> r.account.name]
        BY <1>1, Zenon
      <3>2. row.account = [type |-> row.account.type, user |-> row.account.user, name |-> row.account.name]
        BY <1>1, Zenon
      <3> QED
        BY <2>3, <3>1, <3>2, Zenon
    <2> QED
      BY <2>2, <2>3, Zenon
  <1>7. request.period = <<Absent, Absent>> /\ request.metadata = <<>>
    BY <1>3 DEF Registers
  <1>8. ASSUME NEW r \in PostingRows(book)
        PROVE  InPeriod(request.period, r.date) /\ CarriesPairs(r.of.metadata, request.metadata)
    BY <1>7, AnyTime, Zenon
  <1>9. {r \in PostingRows(book) :
           /\ SelectsAccount(asked, r)
           /\ InPeriod(request.period, r.date)
           /\ CarriesPairs(r.of.metadata, request.metadata)}
          = {r \in PostingRows(book) :
               r.account = row.account /\ r.currency = UpperCased[currency]}
    BY <1>6, <1>8
  <1>10. FirstHundred(request)
    BY <1>3 DEF Registers, FirstHundred
  <1> QED
    BY <1>9, <1>10, Zenon DEF asked, Selected, RegisterOf

\* The balance command takes the name of a type.
LEMMA NameTaken ==
    ASSUME NEW type \in DOMAIN TypeNames
    PROVE  ~BalanceRefused(<<TypeNames[type]>>)
  <1> DEFINE word == TypeNames[type]
  <1>1. StringToAccountType(word) # 0
    BY NamesReadBack
  <1>2. Len(<<word>>) = 1 /\ <<word>>[1] = word
    OBVIOUS
  <1> QED
    BY <1>1, <1>2 DEF BalanceRefused

\* A row of the balances is of a type with a name.
LEMMA BalanceType ==
    ASSUME NEW book \in Books, NEW row \in BalanceRows(book)
    PROVE  \E type \in DOMAIN TypeNames : row.account.type = TypeNames[type]
  <1>1. PICK posted \in PostingRows(book) :
           row = [account |-> posted.account, currency |-> posted.currency]
    BY DEF BalanceRows
  <1>2. row.account = posted.account
    BY <1>1
  <1> QED
    BY <1>2, PostedAccounts DEF Stored

\* A row of the balances is listed under its own type's name and no other.
LEMMA BalancesSelected ==
    ASSUME NEW book \in Books, NEW row \in BalanceRows(book), NEW type \in DOMAIN TypeNames
    PROVE  row \in ListAccountBalances(book, BalanceFilter(<<TypeNames[type]>>, Absent, Absent, ""))
              <=> row.account.type = TypeNames[type]
  <1> DEFINE word == TypeNames[type]
             read == StringToAccountType(word)
             filter == BalanceFilter(<<word>>, Absent, Absent, "")
             stored == AccountTypeToString(read)
             code == UpperCased[""]
             any == ""
  <1>1. stored = word /\ word # any
    BY NamesReadBack
  <1>2. code = any
    BY ListingConstants
  <1>3. <<word>>[1] = word /\ <<word>> # <<>>
    OBVIOUS
  <1>4. filter = [type |-> read, user |-> Absent, name |-> Absent, currency |-> any]
    BY <1>3 DEF BalanceFilter
  <1> HIDE DEF filter, word
  <1>5. Asked(filter) = [filter EXCEPT !.type = AccountTypeToString(filter.type),
                                       !.currency = UpperCased[filter.currency]]
    BY DEF Asked
  <1>6. AccountTypeToString(filter.type) = stored /\ UpperCased[filter.currency] = code
    BY <1>4
  <1> HIDE DEF read, stored, code, any
  <1>7. Asked(filter) = [filter EXCEPT !.type = stored, !.currency = code]
    BY <1>5, <1>6
  <1>8. /\ Asked(filter).type = stored /\ Asked(filter).user = Absent
        /\ Asked(filter).name = Absent /\ Asked(filter).currency = code
    BY <1>4, <1>7
  <1>9. SelectsAccount(Asked(filter), row) <=> row.account.type = word
    BY <1>1, <1>2, <1>8 DEF SelectsAccount, IfSet, IfGiven, any
  <1> QED
    BY <1>9 DEF ListAccountBalances, filter, word

\* An account given to the command line as the command line prints it is taken for that
\* account, or refused for a colon; it is never taken for another, in any book.
THEOREM PrintedAccountsAreReadBack == Spec => []PrintedAccountsReadBack
  <1>1. PrintedAccountsReadBack
    BY PostedAccounts, PrintedIsReadBack DEF PrintedAccountsReadBack
  <1> QED
    BY <1>1, PTL

\* The register of an account that reads back has its postings and no others, or says
\* there are more; and the balances of the types make up all of them.
THEOREM AccountsAreApart == Spec => []AccountsStayApart
  <1>1. ASSUME NEW book \in Books, NEW row \in PostingRows(book), NEW currency \in {"usd", "USD"}
        PROVE  LET printed == FormatAccount(Reported(row.account))
                   request == RegisterRequest(printed, currency, FALSE)
                   reply == ListRegister(book, request, request)
                   shown == {reply.postings[i].id : i \in DOMAIN reply.postings}
                   register == {other.id : other \in {r \in PostingRows(book) :
                                   r.account = row.account /\ r.currency = UpperCased[currency]}}
               IN  ~AccountArgumentRefused(printed) =>
                      /\ shown = register \/ (shown \subseteq register /\ Shortened(reply))
                      /\ reply.total = Cardinality(register)
    <2> DEFINE printed == FormatAccount(Reported(row.account))
               request == RegisterRequest(printed, currency, FALSE)
               reply == ListRegister(book, request, request)
               rows == RegisterOf(book, row.account, currency)
               all == Sorted(rows, request.ascending)
               part == PageOf(all, request)
               shown == {reply.postings[i].id : i \in DOMAIN reply.postings}
               register == {other.id : other \in rows}
    <2> SUFFICES ASSUME ~AccountArgumentRefused(printed)
                 PROVE  /\ shown = register \/ (shown \subseteq register /\ Shortened(reply))
                        /\ reply.total = Cardinality(register)
      BY DEF RegisterOf
    <2>1. request.number = 1 /\ request.size = 100 /\ Selected(book, request) = rows
      <3>1. AccountFrom(Split(printed)) = Reported(row.account)
        BY PostedAccounts, PrintedIsReadBack
      <3>2. request = RegisterRequest(printed, currency, FALSE)
        OBVIOUS
      <3>3. currency \in Spellings
        BY DEF Spellings
      <3> HIDE DEF printed, request
      <3>4. FirstHundred(request) /\ Selected(book, request) = rows
        BY <3>1, <3>2, <3>3, RegisterSelects
      <3> QED
        BY <3>4 DEF FirstHundred
    <2> HIDE DEF request, printed
    <2>2. reply = [total |-> Len(all), postings |-> part]
      BY <2>1 DEF ListRegister, Selected
    <2>3. rows \in SUBSET PostingRows(book)
      BY DEF RegisterOf
    <2> HIDE DEF rows, reply
    <2>4. Sortable(rows)
      BY <2>3, PostingsSortable, SomeSortable
    <2>5. ShowsOrSaysMore(part, all, rows)
      BY <2>1, <2>4, FirstPageFacts
    <2> HIDE DEF all, part
    <2>6. reply.total = Len(all) /\ reply.postings = part
      BY <2>2
    <2>7. Len(part) < Len(all) => Shortened(reply)
      BY <2>6 DEF Shortened
    <2>8. shown = {part[i].id : i \in DOMAIN part}
      BY <2>6
    <2> HIDE DEF shown
    <2>9. /\ shown = register \/ (shown \subseteq register /\ Len(part) < Len(all))
          /\ Len(all) = Cardinality(register)
      BY <2>5, <2>8 DEF ShowsOrSaysMore
    <2> QED
      BY <2>6, <2>7, <2>9
  <1>2. ASSUME NEW book \in Books
        PROVE  LET asked(word) == BalanceFilter(<<word>>, Absent, Absent, "")
                   words == {TypeNames[type] : type \in DOMAIN TypeNames}
               IN  /\ \A word \in words : ~BalanceRefused(<<word>>)
                   /\ \A row \in ListAccountBalances(book, Everything(<<Absent, Absent>>, <<>>)) :
                         Cardinality({word \in words : row \in ListAccountBalances(book, asked(word))}) = 1
    <2> DEFINE words == {TypeNames[type] : type \in DOMAIN TypeNames}
               listed(word) == ListAccountBalances(book, BalanceFilter(<<word>>, Absent, Absent, ""))
    <2>1. ASSUME NEW row \in BalanceRows(book), NEW word \in words
          PROVE  row \in listed(word) <=> row.account.type = word
      <3>1. PICK type \in DOMAIN TypeNames : word = TypeNames[type]
        BY <2>1
      <3>2. row \in listed(TypeNames[type]) <=> row.account.type = TypeNames[type]
        BY <2>1, BalancesSelected
      <3> HIDE DEF listed
      <3> QED
        BY <3>1, <3>2, Zenon
    <2>2. ASSUME NEW word \in words PROVE ~BalanceRefused(<<word>>)
      BY NameTaken
    <2>3. ASSUME NEW row \in BalanceRows(book)
          PROVE  Cardinality({word \in words : row \in listed(word)}) = 1
      <3>1. PICK known \in DOMAIN TypeNames : row.account.type = TypeNames[known]
        BY BalanceType
      <3>2. row.account.type \in words
        BY <3>1
      <3> HIDE DEF words, listed
      <3>3. {word \in words : row \in listed(word)} = {row.account.type}
        BY <2>1, <3>2
      <3> QED
        BY <3>3, FS_Singleton
    <2>4. ListAccountBalances(book, Everything(<<Absent, Absent>>, <<>>)) \subseteq BalanceRows(book)
      BY DEF ListAccountBalances
    <2> QED
      BY <2>2, <2>3, <2>4
  <1>3. AccountsStayApart
    BY <1>1, <1>2 DEF AccountsStayApart
  <1> QED
    BY <1>3, PTL

----------------------------------------------------------------------------
\* Pages of one size make up what they were cut from, when there are enough of them.
LEMMA PagesJoin ==
    ASSUME NEW S, NEW s \in Seq(S), NEW limit \in Nat \ {0}, NEW N \in Nat, Len(s) <= N,
           NEW pages \in [1..N -> Seq(S)],
           \A n \in 1..N : IsCut(pages[n], s, (n - 1) * limit, limit, S)
    PROVE  FlattenSeq(pages) = s
  <1> DEFINE off(n) == n * limit
             F(n) == Flat(pages, n)
             K(n) == Len(Flat(pages, n))
             Holds(n) == /\ K(n) = IF off(n) < Len(s) THEN off(n) ELSE Len(s)
                         /\ \A i \in 1..K(n) : F(n)[i] = s[i]
             T == {n \in 0..N : Holds(n)}
  <1>1. /\ off(0) = 0 /\ \A n \in 0..N : off(n) \in Nat /\ n <= off(n)
        /\ \A n \in 0..N : off(n + 1) = off(n) + limit
    <2>1. \A n \in Nat : n * limit \in Nat /\ n <= n * limit /\ (n + 1) * limit = n * limit + limit
      <3> TAKE n \in Nat
      <3>1. PICK k \in Nat : limit = k + 1
        <4>1. limit - 1 \in Nat /\ limit = (limit - 1) + 1
          OBVIOUS
        <4> QED
          BY <4>1
      <3>2. n * limit = n * k + n /\ n * k \in Nat
        BY <3>1
      <3>3. (n + 1) * limit = n * limit + limit
        BY <3>1
      <3> QED
        BY <3>2, <3>3
    <2> QED
      BY <2>1
  <1>2. /\ F(0) = <<>> /\ FlattenSeq(pages) = F(N)
        /\ \A n \in 1..N : F(n) = F(n - 1) \o pages[n]
        /\ \A n \in 0..N : F(n) \in Seq(S)
    BY FlatFacts
  <1>3. Len(s) \in Nat /\ \A n \in 1..N : IsCut(pages[n], s, off(n - 1), limit, S)
    OBVIOUS
  <1> HIDE DEF off, F
  <1>4. 0 \in T
    <2>1. K(0) = 0
      BY <1>2, EmptySeq DEF F
    <2> QED
      BY <1>1, <1>3, <2>1
  <1>5. ASSUME NEW m \in 0..N, m \in T, m < N PROVE m + 1 \in T
    <2> DEFINE n == m + 1
               page == pages[n]
               from == off(m)
    <2>1. n \in 1..N /\ n - 1 = m /\ n \in 0..N
      BY <1>5
    <2> HIDE DEF n
    <2>2. /\ F(n) = F(m) \o page /\ F(m) \in Seq(S) /\ page \in Seq(S)
          /\ from \in Nat /\ off(n) = from + limit
      BY <1>1, <1>2, <2>1 DEF n
    <2>3. IsCut(page, s, from, limit, S)
      BY <1>3, <2>1
    <2> HIDE DEF page, from
    <2>4. /\ Len(page) \in Nat /\ DOMAIN page = 1..Len(page) /\ Len(page) <= limit
          /\ page = <<>> <=> Len(s) <= from
          /\ \A i \in 1..Len(page) : from + i \in 1..Len(s) /\ page[i] = s[from + i]
          /\ \A k \in 1..Len(s) : from < k /\ k <= from + limit => k - from \in 1..Len(page)
      <3>1. Len(page) \in Nat /\ DOMAIN page = 1..Len(page)
        BY <2>2, LenProperties
      <3> QED
        BY <2>3, <3>1 DEF IsCut
    <2>5. /\ K(m) = IF from < Len(s) THEN from ELSE Len(s)
          /\ \A i \in 1..K(m) : F(m)[i] = s[i]
      BY <1>5 DEF from
    <2>6. /\ K(n) = K(m) + Len(page) /\ K(m) \in Nat
          /\ \A i \in 1..K(n) : F(n)[i] = IF i <= K(m) THEN F(m)[i] ELSE page[i - K(m)]
      <3>1. K(n) = Len(F(n)) /\ K(m) = Len(F(m))
        BY DEF F
      <3> HIDE DEF K
      <3> QED
        BY <2>2, <3>1, ConcatProperties, LenProperties
    <2> HIDE DEF K
    <2>7. CASE Len(s) <= from
      <3>1. Len(page) = 0
        BY <2>2, <2>4, <2>7, EmptySeq
      <3>2. K(n) = Len(s) /\ K(m) = Len(s) /\ ~(off(n) < Len(s))
        BY <1>3, <2>2, <2>5, <2>6, <2>7, <3>1
      <3>3. \A i \in 1..K(n) : F(n)[i] = s[i]
        BY <2>5, <2>6, <3>2
      <3> QED
        BY <2>1, <3>2, <3>3 DEF n
    <2>8. CASE from < Len(s)
      <3>1. K(m) = from
        BY <2>5, <2>8
      <3>2. ASSUME from + limit < Len(s) PROVE Len(page) = limit
        <4> DEFINE k == from + limit
        <4>1. k \in 1..Len(s) /\ from < k /\ k <= from + limit /\ k - from = limit
          BY <1>3, <2>2, <3>2
        <4> HIDE DEF k
        <4>2. k - from \in 1..Len(page)
          BY <2>4, <4>1
        <4>3. limit \in 1..Len(page)
          BY <4>1, <4>2
        <4>4. Len(page) \in Nat /\ Len(page) <= limit
          BY <2>4
        <4> QED
          BY <4>3, <4>4
      <3>3. ASSUME ~(from + limit < Len(s)) PROVE Len(page) = Len(s) - from
        <4>1. Len(s) - from \in 1..Len(page)
          BY <1>3, <2>2, <2>4, <2>8, <3>3
        <4>2. Len(page) \in 1..Len(page)
          BY <2>4, <4>1
        <4>3. from + Len(page) \in 1..Len(s)
          BY <2>4, <4>2
        <4>4. Len(page) \in Nat /\ from \in Nat /\ Len(s) \in Nat
          BY <1>3, <2>2, <2>4
        <4> QED
          BY <4>1, <4>3, <4>4
      <3>4. K(n) = IF off(n) < Len(s) THEN off(n) ELSE Len(s)
        <4>1. CASE from + limit < Len(s)
          <5>1. K(n) = from + limit
            BY <2>6, <3>1, <3>2, <4>1
          <5> QED
            BY <2>2, <4>1, <5>1
        <4>2. CASE ~(from + limit < Len(s))
          <5>1. K(n) = from + (Len(s) - from)
            BY <2>6, <3>1, <3>3, <4>2
          <5>2. K(n) = Len(s)
            BY <1>3, <2>2, <5>1
          <5> QED
            BY <2>2, <4>2, <5>2
        <4> QED
          BY <4>1, <4>2
      <3>5. ASSUME NEW i \in 1..K(n) PROVE F(n)[i] = s[i]
        <4>1. CASE i <= K(m)
          <5>1. i \in 1..K(m)
            BY <4>1
          <5> QED
            BY <2>5, <2>6, <4>1, <5>1
        <4>2. CASE ~(i <= K(m))
          <5> DEFINE j == i - from
          <5>1. j \in 1..Len(page) /\ from + j = i /\ j = i - K(m)
            BY <2>2, <2>4, <2>6, <3>1, <4>2
          <5> HIDE DEF j
          <5>2. page[j] = s[from + j]
            BY <2>4, <5>1
          <5> QED
            BY <2>6, <4>2, <5>1, <5>2
        <4> QED
          BY <4>1, <4>2
      <3> QED
        BY <2>1, <3>4, <3>5 DEF n
    <2> QED
      BY <1>3, <2>2, <2>7, <2>8
  <1>6. Holds(N)
    <2> HIDE DEF T
    <2>1. \A n \in 0..N : n \in T
      BY <1>4, <1>5, InductionTo
    <2> QED
      BY <2>1 DEF T
  <1>7. K(N) = Len(s) /\ F(N) \in Seq(S) /\ K(N) = Len(F(N)) /\ \A i \in 1..Len(s) : F(N)[i] = s[i]
    <2>1. N \in 0..N
      OBVIOUS
    <2>2. F(N) \in Seq(S) /\ K(N) = Len(F(N)) /\ ~(off(N) < Len(s))
      BY <1>1, <1>2, <1>3, <2>1 DEF F
    <2> HIDE DEF K
    <2> QED
      BY <1>6, <2>2
  <1> HIDE DEF K
  <1>8. F(N) = s
    BY <1>7, SeqEqual
  <1> QED
    BY <1>2, <1>8

----------------------------------------------------------------------------
\* Transactions with their legs as a reader gathers them.
Gathered(Keys, Rows) == [id : Keys, legs : Seq(Rows)]

\* A row read adds to what has been gathered.
LEMMA ScannedType ==
    ASSUME NEW Keys, NEW Rows, NEW seen \in Seq(Gathered(Keys, Rows)),
           NEW row \in Rows, row.of.id \in Keys
    PROVE  Scanned(seen, row) \in Seq(Gathered(Keys, Rows))
  <1> DEFINE W == Gathered(Keys, Rows)
  <1>1. Len(seen) \in Nat /\ DOMAIN seen = 1..Len(seen) /\ \A i \in 1..Len(seen) : seen[i] \in W
    BY LenProperties
  <1>2. CASE \E i \in DOMAIN seen : seen[i].id = row.of.id
    <2> DEFINE more == [i \in DOMAIN seen |->
                          IF seen[i].id = row.of.id THEN [seen[i] EXCEPT !.legs = Append(@, row)] ELSE seen[i]]
    <2>1. ASSUME NEW i \in 1..Len(seen) PROVE [seen[i] EXCEPT !.legs = Append(@, row)] \in W
      <3> DEFINE w == seen[i]
      <3>1. w \in W
        BY <1>1
      <3> HIDE DEF w
      <3>2. w.legs \in Seq(Rows)
        BY <3>1 DEF Gathered
      <3>3. Append(w.legs, row) \in Seq(Rows)
        BY <3>2, AppendProperties
      <3>4. [w EXCEPT !.legs = Append(@, row)] \in W
        BY <3>1, <3>3 DEF Gathered
      <3> QED
        BY <3>4 DEF w
    <2> HIDE DEF W
    <2>2. more \in [1..Len(seen) -> W]
      BY <1>1, <2>1
    <2>3. Scanned(seen, row) = more
      BY <1>2 DEF Scanned
    <2> HIDE DEF more
    <2>4. more \in Seq(W)
      BY <1>1, <2>2
    <2> QED
      BY <2>3, <2>4 DEF W
  <1>3. CASE ~\E i \in DOMAIN seen : seen[i].id = row.of.id
    <2>1. Scanned(seen, row) = Append(seen, [id |-> row.of.id, legs |-> <<row>>])
      BY <1>3 DEF Scanned
    <2>2. <<row>> \in Seq(Rows)
      OBVIOUS
    <2>3. [id |-> row.of.id, legs |-> <<row>>] \in Gathered(Keys, Rows)
      BY <2>2 DEF Gathered
    <2> QED
      BY <2>1, <2>3, AppendProperties
  <1> QED
    BY <1>2, <1>3

\* What has been gathered of the first rows.
Gathers(upTo, rows) ==
    /\ upTo[0] = <<>>
    /\ \A n \in 1..Len(rows) : upTo[n] = Scanned(upTo[n - 1], rows[n])
    /\ Grouped(rows) = upTo[Len(rows)]

\* Rows are gathered one after another.
LEMMA GroupedUnrolls ==
    ASSUME NEW Keys, NEW Rows, \A row \in Rows : row.of.id \in Keys, NEW rows \in Seq(Rows)
    PROVE  \E upTo : Gathers(upTo, rows)
  <1> DEFINE N == Len(rows)
             V == Seq(Gathered(Keys, Rows))
             first == [n \in Nat |-> <<>>]
             past == Nat \ {0}
             before == [n \in Nat |-> IF n = 0 THEN 0 ELSE n - 1]
             step == [q \in Nat \X V |-> IF q[1] \in 1..N THEN Scanned(q[2], rows[q[1]]) ELSE q[2]]
             unrolls(upTo) == upTo = [n \in 0..N |-> IF n = 0 THEN <<>> ELSE Scanned(upTo[n - 1], rows[n])]
  <1>1. N \in Nat /\ \A n \in 1..N : rows[n] \in Rows /\ rows[n].of.id \in Keys
    BY LenProperties
  <1>2. first \in [Nat -> V] /\ \A n \in Nat : first[n] = <<>>
    BY EmptySeq
  <1>3. /\ step \in [Nat \X V -> V]
        /\ \A n \in 1..N, v \in V : step[<<n, v>>] = Scanned(v, rows[n])
    <2>1. \A n \in 1..N, v \in V : Scanned(v, rows[n]) \in V
      BY <1>1, ScannedType
    <2> HIDE DEF N, V
    <2>2. \A q \in Nat \X V : (IF q[1] \in 1..N THEN Scanned(q[2], rows[q[1]]) ELSE q[2]) \in V
      BY <2>1
    <2>3. step \in [Nat \X V -> V]
      BY <2>2
    <2>4. \A n \in 1..N, v \in V : <<n, v>> \in Nat \X V /\ <<n, v>>[1] = n /\ <<n, v>>[2] = v
      BY <1>1
    <2> QED
      BY <2>3, <2>4
  <1>4. before \in [Nat -> Nat] /\ \A n \in past : before[n] = n - 1
    OBVIOUS
  <1>5. GoesDown(before, past) /\ past \in SUBSET Nat
    BY <1>4 DEF GoesDown
  <1>6. PICK g \in [Nat -> V] : RunsDown(g, first, past, before, step)
    <2> HIDE DEF V, first, past, before, step
    <2> QED
      BY <1>2, <1>3, <1>4, <1>5, RecursionDown
  <1> DEFINE upTo == [n \in 0..N |-> g[n]]
  <1> HIDE DEF N, V, first, step, before
  <1>7. ASSUME NEW n \in 0..N
        PROVE  upTo[n] = IF n = 0 THEN <<>> ELSE Scanned(upTo[n - 1], rows[n])
    <2>1. n \in Nat /\ upTo[n] = g[n]
      BY <1>1
    <2>2. g[n] = IF n \in past THEN step[<<n, g[before[n]]>>] ELSE first[n]
      BY <1>6, <2>1 DEF RunsDown
    <2>3. CASE n = 0
      BY <1>2, <2>1, <2>2, <2>3
    <2>4. CASE n # 0
      <3>1. n \in past /\ n \in 1..N /\ n - 1 \in 0..N /\ n - 1 \in Nat
        BY <1>1, <2>4
      <3>2. before[n] = n - 1 /\ upTo[n - 1] = g[n - 1] /\ g[n - 1] \in V
        BY <1>4, <1>6, <3>1
      <3>3. step[<<n, g[n - 1]>>] = Scanned(g[n - 1], rows[n])
        BY <1>3, <3>1, <3>2
      <3> HIDE DEF upTo, past
      <3> QED
        BY <2>1, <2>2, <2>4, <3>1, <3>2, <3>3
    <2> QED
      BY <2>3, <2>4
  <1>8. unrolls(upTo)
    <2>1. upTo = [n \in 0..N |-> upTo[n]]
      OBVIOUS
    <2> HIDE DEF upTo
    <2> QED
      BY <1>7, <2>1
  <1> DEFINE made == CHOOSE f : unrolls(f)
  <1>9. unrolls(made)
    <2> HIDE DEF upTo, unrolls
    <2> QED
      BY <1>8
  <1>10. Grouped(rows) = made[N]
    BY DEF Grouped, N
  <1> HIDE DEF made
  <1>11. \A n \in 0..N : made[n] = IF n = 0 THEN <<>> ELSE Scanned(made[n - 1], rows[n])
    BY <1>9
  <1>12. 0 \in 0..N /\ \A n \in 1..N : n \in 0..N /\ n # 0
    BY <1>1
  <1>13. Gathers(made, rows)
    BY <1>10, <1>11, <1>12 DEF Gathers, N
  <1> QED
    BY <1>13

\* The first legs of a transaction.
FirstLegs(t, n) == [i \in 1..n |-> [of |-> t, leg |-> i]]

\* A transaction with all its legs, as it is listed.
Whole(t) == [id |-> t.id, legs |-> FirstLegs(t, Len(t.legs))]

\* The legs of a transaction come one after another, and what is gathered by then.
LegsAt(rows, k, t) ==
    \A j \in 1..Len(t.legs) : k + j \in 1..Len(rows) /\ rows[k + j] = [of |-> t, leg |-> j]
GathersNext(upTo, k, t, seen) == upTo[k + Len(t.legs)] = Append(seen, Whole(t))

\* The legs of one transaction come one after another and are gathered under it.
LEMMA OneGathered ==
    ASSUME NEW upTo, NEW rows, Gathers(upTo, rows), NEW t, Len(t.legs) \in Nat \ {0},
           NEW W, NEW seen \in Seq(W), \A i \in 1..Len(seen) : seen[i].id # t.id,
           NEW k \in Nat, upTo[k] = seen,
           LegsAt(rows, k, t)
    PROVE  GathersNext(upTo, k, t, seen)
  <1> DEFINE L == Len(t.legs)
             so(j) == Append(seen, [id |-> t.id, legs |-> FirstLegs(t, j)])
             T == {j \in 0..L - 1 : upTo[k + (j + 1)] = so(j + 1)}
  <1>1. /\ Len(seen) \in Nat /\ DOMAIN seen = 1..Len(seen)
        /\ \A x : /\ DOMAIN Append(seen, x) = 1..Len(seen) + 1
                  /\ \A i \in 1..Len(seen) : Append(seen, x)[i] = seen[i]
                  /\ Append(seen, x)[Len(seen) + 1] = x
                  /\ Append(seen, x) = [i \in 1..Len(seen) + 1 |-> Append(seen, x)[i]]
    <2>1. Len(seen) \in Nat /\ DOMAIN seen = 1..Len(seen)
      BY LenProperties
    <2>2. ASSUME NEW x
          PROVE  /\ DOMAIN Append(seen, x) = 1..Len(seen) + 1
                 /\ \A i \in 1..Len(seen) : Append(seen, x)[i] = seen[i]
                 /\ Append(seen, x)[Len(seen) + 1] = x
                 /\ Append(seen, x) = [i \in 1..Len(seen) + 1 |-> Append(seen, x)[i]]
      <3>1. seen \in Seq(W \cup {x}) /\ x \in W \cup {x}
        BY SeqMonotonic
      <3>2. /\ Append(seen, x) \in Seq(W \cup {x}) /\ Len(Append(seen, x)) = Len(seen) + 1
            /\ \A i \in 1..Len(seen) : Append(seen, x)[i] = seen[i]
            /\ Append(seen, x)[Len(seen) + 1] = x
        BY <3>1, AppendProperties
      <3> DEFINE longer == Append(seen, x)
      <3> HIDE DEF longer
      <3>3. longer \in Seq(W \cup {x}) /\ Len(longer) = Len(seen) + 1
        BY <3>2 DEF longer
      <3>4. DOMAIN longer = 1..Len(seen) + 1 /\ longer = [i \in 1..Len(seen) + 1 |-> longer[i]]
        BY <3>3
      <3> QED
        BY <3>2, <3>4 DEF longer
    <2> QED
      BY <2>1, <2>2
  <1>2. ASSUME NEW j \in 1..L
        PROVE  upTo[k + j] = Scanned(upTo[k + (j - 1)], [of |-> t, leg |-> j])
    <2>1. k + j \in 1..Len(rows) /\ rows[k + j] = [of |-> t, leg |-> j] /\ (k + j) - 1 = k + (j - 1)
      BY DEF LegsAt
    <2> QED
      BY <2>1 DEF Gathers
  <1>3. 0 \in T
    <2>1. 1 \in 1..L /\ k + 0 = k
      OBVIOUS
    <2>2. upTo[k + 1] = Scanned(seen, [of |-> t, leg |-> 1])
      BY <1>2, <2>1
    <2>3. Scanned(seen, [of |-> t, leg |-> 1]) = Append(seen, [id |-> t.id, legs |-> <<[of |-> t, leg |-> 1]>>])
      BY <1>1 DEF Scanned
    <2>4. FirstLegs(t, 1) = <<[of |-> t, leg |-> 1]>>
      BY DEF FirstLegs
    <2> QED
      BY <2>2, <2>3, <2>4
  <1>4. ASSUME NEW j \in 0..L - 1, j \in T, j < L - 1 PROVE j + 1 \in T
    <2> DEFINE n == j + 1
               row == [of |-> t, leg |-> n + 1]
               old == [id |-> t.id, legs |-> FirstLegs(t, n)]
               new == [id |-> t.id, legs |-> FirstLegs(t, n + 1)]
    <2>1. n \in Nat \ {0} /\ n + 1 \in 1..L /\ (n + 1) - 1 = n /\ n \in 0..L - 1
      BY <1>4
    <2>2. upTo[k + n] = Append(seen, old)
      BY <1>4
    <2>3. upTo[k + (n + 1)] = Scanned(Append(seen, old), row)
      BY <1>2, <2>1, <2>2
    <2>4. Append(FirstLegs(t, n), row) = FirstLegs(t, n + 1)
      BY <2>1 DEF FirstLegs
    <2>5. old.id = t.id /\ row.of.id = t.id /\ [old EXCEPT !.legs = Append(@, row)] = new
      <3> DEFINE before == FirstLegs(t, n)
                 after == FirstLegs(t, n + 1)
      <3>1. old = [id |-> t.id, legs |-> before] /\ new = [id |-> t.id, legs |-> after]
        OBVIOUS
      <3>2. row.of = t /\ Append(before, row) = after
        BY <2>4
      <3> HIDE DEF before, after, old, new, row
      <3>3. [old EXCEPT !.legs = after] = new /\ old.legs = before /\ old.id = t.id
        BY <3>1
      <3>4. Append(old.legs, row) = after
        BY <3>2, <3>3
      <3> QED
        BY <3>2, <3>3, <3>4
    <2> HIDE DEF n, row, old, new
    <2>6. Scanned(Append(seen, old), row) = Append(seen, new)
      <3> DEFINE was == Append(seen, old)
                 is == Append(seen, new)
                 M == Len(seen) + 1
      <3>1. /\ DOMAIN was = 1..M /\ was[M] = old /\ M \in 1..M
            /\ \A i \in 1..M : i # M => i \in 1..Len(seen) /\ was[i] = seen[i] /\ seen[i].id # t.id
        BY <1>1
      <3>2. is = [i \in 1..M |-> IF i = M THEN new ELSE seen[i]]
        <4>1. is = [i \in 1..M |-> is[i]]
          BY <1>1
        <4>2. \A i \in 1..M : is[i] = IF i = M THEN new ELSE seen[i]
          BY <1>1
        <4> HIDE DEF is, M
        <4> QED
          BY <4>1, <4>2
      <3> HIDE DEF was, is, M
      <3>3. Scanned(was, row) = [i \in 1..M |-> IF was[i].id = t.id
                                   THEN [was[i] EXCEPT !.legs = Append(@, row)] ELSE was[i]]
        BY <2>5, <3>1 DEF Scanned
      <3>4. ASSUME NEW i \in 1..M
            PROVE  (IF was[i].id = t.id THEN [was[i] EXCEPT !.legs = Append(@, row)] ELSE was[i])
                     = IF i = M THEN new ELSE seen[i]
        BY <2>5, <3>1
      <3>5. Scanned(was, row) = is
        BY <3>2, <3>3, <3>4
      <3> QED
        BY <3>5 DEF was, is
    <2> QED
      BY <2>1, <2>3, <2>6 DEF n, new
  <1>5. L - 1 \in T
    <2> HIDE DEF T
    <2>1. L - 1 \in Nat /\ L - 1 \in 0..L - 1
      OBVIOUS
    <2> QED
      BY <1>3, <1>4, <2>1, InductionTo
  <1>6. (L - 1) + 1 = L
    OBVIOUS
  <1> QED
    BY <1>5, <1>6 DEF Whole, GathersNext

----------------------------------------------------------------------------
\* Joined rows of some transactions.
LegRows(some) == {[of |-> t, leg |-> l] : t \in some, l \in Nat}

\* Transactions with a leg or more, numbered.
Legged(some) == \A t \in some : DOMAIN t.legs = 1 .. Len(t.legs) /\ Len(t.legs) \in Nat \ {0}

\* A transaction's legs, one row each.
LEMMA LegsFacts ==
    ASSUME NEW some, Legged(some), NEW t \in some
    PROVE  /\ Legs(t) \in Seq(LegRows(some)) /\ Len(Legs(t)) = Len(t.legs)
           /\ \A j \in 1 .. Len(t.legs) : Legs(t)[j] = [of |-> t, leg |-> j]
  <1>1. PICK L \in Nat : Len(t.legs) = L /\ DOMAIN t.legs = 1 .. L
    BY DEF Legged
  <1>2. Legs(t) = [i \in 1 .. L |-> [of |-> t, leg |-> i]]
    BY <1>1 DEF Legs
  <1>3. \A i \in 1 .. L : [of |-> t, leg |-> i] \in LegRows(some)
    BY DEF LegRows
  <1>4. Legs(t) \in [1 .. L -> LegRows(some)]
    BY <1>2, <1>3
  <1>5. Legs(t) \in Seq(LegRows(some)) /\ Len(Legs(t)) = L
    BY <1>4
  <1> QED
    BY <1>1, <1>2, <1>5

\* Transactions under ids of their own, joined to their legs, are read back whole.
LEMMA WholeGathered ==
    ASSUME NEW some, Legged(some), NEW M \in Nat, NEW P \in [1 .. M -> some],
           \A i, j \in 1 .. M : P[i].id = P[j].id => i = j
    PROVE  Grouped(FlattenSeq([i \in 1 .. M |-> Legs(P[i])])) = [i \in 1 .. M |-> Whole(P[i])]
  <1> DEFINE legsOf == [i \in 1 .. M |-> Legs(P[i])]
             R == LegRows(some)
             keys == {t.id : t \in some}
             rows == FlattenSeq(legsOf)
             K(n) == Len(Flat(legsOf, n))
             whole(n) == [i \in 1 .. n |-> Whole(P[i])]
             W == {Whole(t) : t \in some}
  <1>1. legsOf \in [1 .. M -> Seq(R)]
    BY LegsFacts
  <1>2. /\ \A n \in 1 .. M : legsOf[n] = Legs(P[n])
        /\ \A row \in R : row.of.id \in keys
    BY DEF LegRows
  <1> HIDE DEF legsOf, R
  <1>3. rows \in Seq(R)
    <2>1. FlattenSeq(legsOf) = Flat(legsOf, M) /\ \A n \in 0 .. M : Flat(legsOf, n) \in Seq(R)
      BY <1>1, FlatFacts
    <2>2. M \in 0 .. M
      OBVIOUS
    <2> QED
      BY <2>1, <2>2
  <1>4. /\ K(0) = 0 /\ K(M) = Len(rows)
        /\ \A n \in 0 .. M : K(n) \in Nat
        /\ \A n \in 1 .. M : K(n) = K(n - 1) + Len(legsOf[n])
        /\ \A n \in 1 .. M : \A j \in 1 .. Len(legsOf[n]) :
              /\ K(n - 1) + j \in 1 .. Len(rows)
              /\ rows[K(n - 1) + j] = legsOf[n][j]
    <2>1. FlatAt(legsOf, M)
      BY <1>1, FlatPlaces
    <2> QED
      BY <2>1 DEF FlatAt
  <1> HIDE DEF rows, K, keys
  <1>5. PICK upTo : Gathers(upTo, rows)
    BY <1>2, <1>3, GroupedUnrolls
  <1> DEFINE T == {n \in 0 .. M : upTo[K(n)] = whole(n)}
  <1>6. 0 \in T
    <2>1. upTo[K(0)] = <<>>
      BY <1>4, <1>5 DEF Gathers
    <2>2. whole(0) = <<>>
      OBVIOUS
    <2> QED
      BY <2>1, <2>2
  <1>7. ASSUME NEW n \in 0 .. M, n \in T, n < M PROVE n + 1 \in T
    <2> DEFINE next == n + 1
               t == P[next]
               seen == whole(n)
    <2>1. next \in 1 .. M /\ next - 1 = n /\ n \in Nat
      BY <1>7
    <2> HIDE DEF next
    <2>2. t \in some /\ legsOf[next] = Legs(t)
      BY <1>2, <2>1
    <2>3. /\ Len(t.legs) \in Nat \ {0}
          /\ Len(Legs(t)) = Len(t.legs)
          /\ \A j \in 1 .. Len(t.legs) : Legs(t)[j] = [of |-> t, leg |-> j]
      BY <2>2, LegsFacts DEF Legged
    <2>4. upTo[K(n)] = seen
      BY <1>7
    <2>5. ASSUME NEW i \in 1 .. n PROVE seen[i] \in W /\ seen[i].id = P[i].id /\ P[i].id # t.id
      <3>1. i \in 1 .. M /\ i # next
        BY <2>1, <2>5
      <3>2. seen[i] = Whole(P[i])
        BY <2>5
      <3>3. P[i] \in some /\ P[i].id # t.id
        BY <2>1, <3>1
      <3> QED
        BY <3>2, <3>3 DEF Whole
    <2>6. seen \in Seq(W) /\ Len(seen) = n
      <3> HIDE DEF W
      <3>1. seen \in [1 .. n -> W]
        BY <2>5
      <3> QED
        BY <2>1, <3>1
    <2>7. \A i \in 1 .. Len(seen) : seen[i].id # t.id
      BY <2>5, <2>6
    <2>8. whole(next) = Append(seen, Whole(t))
      BY <2>1, <2>6 DEF next
    <2>9. \A j \in 1 .. Len(t.legs) : K(n) + j \in 1 .. Len(rows) /\ rows[K(n) + j] = [of |-> t, leg |-> j]
      <3> HIDE DEF t, T, seen, W, whole
      <3>1. Len(legsOf[next]) = Len(t.legs)
        BY <2>2, <2>3
      <3>2. \A j \in 1 .. Len(legsOf[next]) :
               K(next - 1) + j \in 1 .. Len(rows) /\ rows[K(next - 1) + j] = legsOf[next][j]
        BY <1>4, <2>1
      <3>3. \A j \in 1 .. Len(t.legs) :
               K(n) + j \in 1 .. Len(rows) /\ rows[K(n) + j] = legsOf[next][j]
        BY <2>1, <3>1, <3>2
      <3> QED
        BY <2>2, <2>3, <3>3
    <2>10. K(n) \in Nat
      BY <1>4
    <2> DEFINE k == K(n)
    <2>14. \A j \in 1 .. Len(t.legs) : k + j \in 1 .. Len(rows) /\ rows[k + j] = [of |-> t, leg |-> j]
      BY <2>9
    <2>15. k \in Nat /\ upTo[k] = seen
      BY <2>4, <2>10
    <2> HIDE DEF t, seen, W, k
    <2>16. LegsAt(rows, k, t)
      BY <2>14 DEF LegsAt
    <2>17. GathersNext(upTo, k, t, seen)
      BY <1>5, <2>3, <2>6, <2>7, <2>15, <2>16, OneGathered
    <2>11. upTo[K(n) + Len(t.legs)] = Append(seen, Whole(t))
      BY <2>17 DEF GathersNext, k
    <2>12. K(next) = K(n) + Len(t.legs)
      BY <1>4, <2>1, <2>2, <2>3
    <2> HIDE DEF whole
    <2>13. next \in 0 .. M /\ upTo[K(next)] = whole(next)
      BY <2>1, <2>8, <2>11, <2>12
    <2> QED
      BY <2>13 DEF next
  <1>8. upTo[K(M)] = whole(M)
    <2> HIDE DEF T
    <2>1. \A n \in 0 .. M : n \in T
      BY <1>6, <1>7, InductionTo
    <2>2. M \in 0 .. M
      OBVIOUS
    <2> QED
      BY <2>1, <2>2 DEF T
  <1>9. Grouped(rows) = whole(M)
    BY <1>4, <1>5, <1>8 DEF Gathers
  <1> QED
    BY <1>9 DEF rows, legsOf

----------------------------------------------------------------------------
\* A page is the rows at its places.
LEMMA PageIsCut ==
    ASSUME NEW S, NEW s \in Seq(S), NEW size \in Int, NEW n \in 1 .. LargestNumber,
           NEW page, page.number = n, page.size = size
    PROVE  /\ Limit(size) \in Nat \ {0} /\ Offset(n, size) \in Nat
           /\ IsCut(PageOf(s, page), s, (n - 1) * Limit(size), Limit(size), S)
  <1> DEFINE limit == Limit(size)
             from == Offset(n, size)
  <1>1. LargestNumber \in Nat
    BY RegisterConstants
  <1>2. limit \in Nat \ {0}
    <2>1. limit \in 1 .. LargestNumber
      BY LimitFacts
    <2> HIDE DEF limit
    <2> QED
      BY <1>1, <2>1
  <1>3. from \in Nat /\ from = (n - 1) * limit
    <2>1. n \in Nat /\ n >= 1 /\ n <= LargestNumber + 1
      BY <1>1
    <2> QED
      BY <2>1, OffsetFacts
  <1>4. PageOf(s, page) = Cut(s, from, limit)
    BY DEF PageOf, Cut
  <1> HIDE DEF limit, from
  <1>5. IsCut(Cut(s, from, limit), s, from, limit, S)
    BY <1>2, <1>3, CutFacts
  <1> QED
    BY <1>2, <1>3, <1>4, <1>5 DEF limit, from

\* A page of transactions, joined to their legs and read back, is the same page of
\* the whole transactions.
LEMMA JoinedPageFacts ==
    ASSUME NEW some, Legged(some), NEW s \in Seq(some),
           \A i, j \in 1 .. Len(s) : s[i].id = s[j].id => i = j,
           NEW size \in Int, NEW n \in 1 .. LargestNumber,
           NEW page, page.number = n, page.size = size
    PROVE  IsCut(Grouped(JoinedPage(s, page)), [k \in 1 .. Len(s) |-> Whole(s[k])],
                 (n - 1) * Limit(size), Limit(size), {Whole(t) : t \in some})
  <1> DEFINE part == PageOf(s, page)
             from == (n - 1) * Limit(size)
             limit == Limit(size)
             M == Len(part)
             all == [k \in 1 .. Len(s) |-> Whole(s[k])]
             W == {Whole(t) : t \in some}
             back == [i \in 1 .. M |-> Whole(part[i])]
  <1>1. IsCut(part, s, from, limit, some)
    BY PageIsCut
  <1>2. from \in Int
    <2>1. Limit(size) \in Nat /\ n - 1 \in Int
      BY PageIsCut
    <2> HIDE DEF limit
    <2> QED
      BY <2>1
  <1>3. JoinedPage(s, page) = FlattenSeq([i \in DOMAIN part |-> Legs(part[i])])
    BY DEF JoinedPage
  <1> HIDE DEF part, from, limit
  <1>4. /\ M \in Nat /\ DOMAIN part = 1 .. M /\ part \in [1 .. M -> some]
        /\ Len(s) \in Nat /\ \A k \in 1 .. Len(s) : s[k] \in some
    BY <1>1 DEF IsCut
  <1>5. /\ part = <<>> <=> Len(s) <= from
        /\ M <= limit
        /\ \A i \in 1 .. M : from + i \in 1 .. Len(s) /\ part[i] = s[from + i]
        /\ \A k \in 1 .. Len(s) : from < k /\ k <= from + limit => k - from \in 1 .. M /\ part[k - from] = s[k]
    BY <1>1, <1>4 DEF IsCut
  <1> HIDE DEF M
  <1>6. ASSUME NEW i \in 1 .. M, NEW j \in 1 .. M, part[i].id = part[j].id PROVE i = j
    <2>1. from + i = from + j
      BY <1>5, <1>6
    <2> QED
      BY <1>2, <1>4, <2>1
  <1>7. Grouped(JoinedPage(s, page)) = back
    <2>1. JoinedPage(s, page) = FlattenSeq([i \in 1 .. M |-> Legs(part[i])])
      BY <1>3, <1>4
    <2> HIDE DEF all, W
    <2>2. \A i, j \in 1 .. M : part[i].id = part[j].id => i = j
      BY <1>6
    <2>3. Grouped(FlattenSeq([i \in 1 .. M |-> Legs(part[i])])) = back
      BY <1>4, <2>2, WholeGathered
    <2> QED
      BY <2>1, <2>3
  <1>8. back \in Seq(W) /\ Len(back) = M /\ DOMAIN back = 1 .. M
    <2>1. back \in [1 .. M -> W]
      BY <1>4
    <2> HIDE DEF back, W
    <2> QED
      BY <1>4, <2>1
  <1>9. Len(all) = Len(s) /\ \A k \in 1 .. Len(s) : all[k] = Whole(s[k])
    BY <1>4
  <1>10. \A i \in 1 .. M : back[i] = Whole(part[i])
    OBVIOUS
  <1>11. back = <<>> <=> part = <<>>
    <2>1. part \in Seq(some) /\ Len(part) = M
      BY <1>1 DEF IsCut, M
    <2> HIDE DEF back, W
    <2>2. back = <<>> <=> M = 0
      BY <1>8, EmptySeq
    <2>3. part = <<>> <=> M = 0
      BY <2>1, EmptySeq
    <2> QED
      BY <2>2, <2>3
  <1> HIDE DEF back, all, W
  <1>12. \A i \in 1 .. M : from + i \in 1 .. Len(s) /\ back[i] = all[from + i]
    BY <1>5, <1>9, <1>10
  <1>13. \A k \in 1 .. Len(s) : from < k /\ k <= from + limit => k - from \in 1 .. M /\ back[k - from] = all[k]
    BY <1>5, <1>9, <1>10
  <1>14. IsCut(back, all, from, limit, W)
    BY <1>5, <1>8, <1>9, <1>11, <1>12, <1>13 DEF IsCut
  <1> QED
    BY <1>7, <1>14 DEF all, W, from, limit

----------------------------------------------------------------------------
\* The page of a number.
PageAt(n, size, ascending) == [size |-> size, number |-> n, ascending |-> ascending]

\* What a reader of all the pages has been shown of the transactions, and of the postings.
Listed(book, asked, size, ascending) ==
    FlattenSeq([n \in 1 .. LargestNumber |->
                  ListTransactions(book, asked, PageAt(n, size, ascending)).transactions])
RegisterRead(book, asked, size, ascending) ==
    FlattenSeq([n \in 1 .. LargestNumber |->
                  ListRegister(book, asked, PageAt(n, size, ascending)).postings])

\* What both ask for.
Chosen(book, asked) == {t \in book : SelectsTransaction(asked, t)}
ChosenRows(book, asked) ==
    {row \in PostingRows(book) :
       /\ SelectsAccount(Asked(asked), row)
       /\ InPeriod(asked.period, row.date)
       /\ CarriesPairs(row.of.metadata, asked.metadata)}

\* A book has a transaction's legs in order and can be sorted, and so can what is
\* chosen of it; all of it fits in the pages.
LEMMA ChosenFacts ==
    ASSUME NEW book \in Books, NEW asked
    PROVE  /\ Legged(Chosen(book, asked)) /\ Sortable(Chosen(book, asked))
           /\ Cardinality(Chosen(book, asked)) \in Nat
           /\ Cardinality(Chosen(book, asked)) <= LargestNumber
           /\ Sortable(ChosenRows(book, asked))
           /\ Cardinality(ChosenRows(book, asked)) \in Nat
           /\ Cardinality(ChosenRows(book, asked)) <= LargestNumber
  <1> DEFINE rows == PostingRows(book)
             ts == Chosen(book, asked)
             rs == ChosenRows(book, asked)
             of == [row \in rows |-> row.of]
  <1>1. /\ IsFiniteSet(book)
        /\ \A t, other \in book : t.id = other.id => t = other
        /\ \A t \in book :
              /\ t.id \in Nat /\ t.date \in Int
              /\ DOMAIN t.legs = 1 .. Len(t.legs) /\ Len(t.legs) \in 1 .. MaxLegs
    BY BookFacts
  <1>2. ts \in SUBSET book /\ rs \in SUBSET rows
    BY DEF Chosen, ChosenRows
  <1>3. Sortable(rows) /\ IsFiniteSet(rows)
    BY PostingsSortable DEF Sortable
  <1>4. Sortable(book)
    BY <1>1 DEF Sortable
  <1>5. Cardinality(rows) <= LargestNumber /\ LargestNumber \in Nat /\ MaxLegs \in Nat
    BY ListingConstants, RegisterConstants
  <1>6. of \in Surjection(rows, book)
    <2>1. ASSUME NEW row \in rows PROVE row.of \in book
      BY PostingRowFacts
    <2>2. ASSUME NEW t \in book PROVE \E row \in rows : row.of = t
      <3>1. 1 \in DOMAIN t.legs
        <4>1. DOMAIN t.legs = 1 .. Len(t.legs) /\ Len(t.legs) \in 1 .. MaxLegs
          BY <1>1
        <4> QED
          BY <1>5, <4>1
      <3>2. PostingRow(t, 1) \in rows /\ PostingRow(t, 1).of = t
        BY <3>1 DEF PostingRows, PostingRow
      <3> QED
        BY <3>2
    <2> HIDE DEF rows
    <2> QED
      BY <2>1, <2>2 DEF Surjection
  <1> HIDE DEF ts, rs, rows, of
  <1>7. Cardinality(book) <= Cardinality(rows) /\ Cardinality(rows) \in Nat /\ Cardinality(book) \in Nat
    BY <1>1, <1>3, <1>6, FS_Surjection, FS_CardinalityType
  <1>8. Sortable(ts) /\ Sortable(rs)
    BY <1>2, <1>3, <1>4, SomeSortable
  <1>9. /\ IsFiniteSet(ts) /\ Cardinality(ts) <= Cardinality(book) /\ Cardinality(ts) \in Nat
        /\ IsFiniteSet(rs) /\ Cardinality(rs) <= Cardinality(rows) /\ Cardinality(rs) \in Nat
    BY <1>1, <1>2, <1>3, FS_Subset, FS_CardinalityType
  <1>10. Cardinality(ts) <= LargestNumber /\ Cardinality(rs) <= LargestNumber
    BY <1>5, <1>7, <1>9
  <1>11. Legged(ts)
    <2> SUFFICES ASSUME NEW t \in ts
                 PROVE  DOMAIN t.legs = 1 .. Len(t.legs) /\ Len(t.legs) \in Nat \ {0}
      BY DEF Legged
    <2>1. DOMAIN t.legs = 1 .. Len(t.legs) /\ Len(t.legs) \in 1 .. MaxLegs
      BY <1>1, <1>2
    <2> QED
      BY <1>5, <2>1
  <1> QED
    BY <1>8, <1>9, <1>10, <1>11 DEF ts, rs

\* The pages of transactions make up the transactions chosen, whole and in order.
LEMMA ListedWhole ==
    ASSUME NEW book \in Books, NEW asked, NEW size \in Int, NEW ascending
    PROVE  LET ts == Sorted(Chosen(book, asked), ascending)
           IN  /\ Listed(book, asked, size, ascending) = [k \in 1 .. Len(ts) |-> Whole(ts[k])]
               /\ \A n : ListTransactions(book, asked, PageAt(n, size, ascending)).total = Len(ts)
  <1> DEFINE some == Chosen(book, asked)
             ts == Sorted(some, ascending)
             all == [k \in 1 .. Len(ts) |-> Whole(ts[k])]
             W == {Whole(t) : t \in some}
             N == LargestNumber
             limit == Limit(size)
             page(n) == PageAt(n, size, ascending)
             pages == [n \in 1 .. N |-> Grouped(JoinedPage(ts, page(n)))]
  <1>1. /\ Legged(some) /\ Sortable(some) /\ Cardinality(some) <= N /\ N \in Nat
    BY ChosenFacts, RegisterConstants
  <1>2. \A n : page(n).number = n /\ page(n).size = size /\ page(n).ascending = ascending
    BY DEF PageAt
  <1>3. \A n : /\ ListTransactions(book, asked, page(n)).total = Len(ts)
               /\ ListTransactions(book, asked, page(n)).transactions = Grouped(JoinedPage(ts, page(n)))
    <2> TAKE n
    <2>1. page(n).ascending = ascending
      BY <1>2
    <2>2. ListTransactions(book, asked, page(n)) =
             [total |-> Len(ts), transactions |-> Grouped(JoinedPage(ts, page(n)))]
      BY <2>1 DEF ListTransactions, Chosen
    <2> HIDE DEF ts, page
    <2> QED
      BY <2>2
  <1> HIDE DEF page, ts
  <1>4. IsListOf(ts, some)
    BY <1>1, SortedFacts DEF ts
  <1> HIDE DEF some
  <1>5. /\ ts \in Seq(some) /\ Len(ts) <= N /\ Len(ts) \in Nat
        /\ \A k \in 1 .. Len(ts) : ts[k] \in some
    BY <1>1, <1>4 DEF IsListOf
  <1>6. \A i, j \in 1 .. Len(ts) : ts[i].id = ts[j].id => i = j
    BY <1>1, <1>4, <1>5 DEF IsListOf, Sortable
  <1> HIDE DEF N, limit
  <1>7. ASSUME NEW n \in 1 .. N
        PROVE  pages[n] \in Seq(W) /\ IsCut(pages[n], all, (n - 1) * limit, limit, W)
    <2>1. n \in 1 .. LargestNumber
      BY DEF N
    <2>2. IsCut(Grouped(JoinedPage(ts, page(n))), all, (n - 1) * limit, limit, W)
      BY <1>1, <1>2, <1>5, <1>6, <2>1, JoinedPageFacts DEF limit
    <2> QED
      BY <2>2 DEF IsCut
  <1>8. all \in Seq(W) /\ Len(all) <= N
    <2>1. all \in [1 .. Len(ts) -> W]
      BY <1>5
    <2> HIDE DEF all, W
    <2> QED
      BY <1>5, <2>1
  <1>9. limit \in Nat \ {0}
    <2>1. limit \in 1 .. LargestNumber /\ LargestNumber \in Nat
      BY LimitFacts, RegisterConstants DEF limit
    <2> QED
      BY <2>1
  <1>10. pages \in [1 .. N -> Seq(W)]
    <2> HIDE DEF W
    <2>1. pages = [n \in 1 .. N |-> pages[n]]
      OBVIOUS
    <2> HIDE DEF pages
    <2> QED
      BY <1>7, <2>1
  <1>11. Listed(book, asked, size, ascending) = FlattenSeq(pages)
    BY <1>3 DEF Listed, page, N
  <1> HIDE DEF pages, W, all
  <1>12. FlattenSeq(pages) = all
    BY <1>1, <1>7, <1>8, <1>9, <1>10, PagesJoin
  <1>13. \A n : ListTransactions(book, asked, page(n)).total = Len(ts)
    BY <1>3
  <1> QED
    BY <1>11, <1>12, <1>13 DEF all, ts, some, page

\* The pages of the register make up the postings chosen.
LEMMA RegisterWhole ==
    ASSUME NEW book \in Books, NEW asked, NEW size \in Int, NEW ascending
    PROVE  RegisterRead(book, asked, size, ascending) = Sorted(ChosenRows(book, asked), ascending)
  <1> DEFINE some == ChosenRows(book, asked)
             rs == Sorted(some, ascending)
             N == LargestNumber
             limit == Limit(size)
             page(n) == PageAt(n, size, ascending)
             pages == [n \in 1 .. N |-> PageOf(rs, page(n))]
  <1>1. Sortable(some) /\ Cardinality(some) <= N /\ N \in Nat
    BY ChosenFacts, RegisterConstants
  <1>2. \A n : page(n).number = n /\ page(n).size = size /\ page(n).ascending = ascending
    BY DEF PageAt
  <1>3. \A n : ListRegister(book, asked, page(n)).postings = PageOf(rs, page(n))
    <2> TAKE n
    <2>1. page(n).ascending = ascending
      BY <1>2
    <2>2. ListRegister(book, asked, page(n)) = [total |-> Len(rs), postings |-> PageOf(rs, page(n))]
      BY <2>1 DEF ListRegister, ChosenRows
    <2> HIDE DEF rs, page
    <2> QED
      BY <2>2
  <1> HIDE DEF page, rs
  <1>4. IsListOf(rs, some)
    BY <1>1, SortedFacts DEF rs
  <1> HIDE DEF some
  <1>5. rs \in Seq(some) /\ Len(rs) <= N
    BY <1>1, <1>4 DEF IsListOf
  <1> HIDE DEF N, limit
  <1>6. ASSUME NEW n \in 1 .. N
        PROVE  pages[n] \in Seq(some) /\ IsCut(pages[n], rs, (n - 1) * limit, limit, some)
    <2>1. n \in 1 .. LargestNumber
      BY DEF N
    <2>2. IsCut(PageOf(rs, page(n)), rs, (n - 1) * limit, limit, some)
      BY <1>2, <1>5, <2>1, PageIsCut DEF limit
    <2> QED
      BY <2>2 DEF IsCut
  <1>7. limit \in Nat \ {0}
    <2>1. limit \in 1 .. LargestNumber /\ LargestNumber \in Nat
      BY LimitFacts, RegisterConstants DEF limit
    <2> QED
      BY <2>1
  <1>8. pages \in [1 .. N -> Seq(some)]
    <2>1. pages = [n \in 1 .. N |-> pages[n]]
      OBVIOUS
    <2> HIDE DEF pages
    <2> QED
      BY <1>6, <2>1
  <1>9. RegisterRead(book, asked, size, ascending) = FlattenSeq(pages)
    BY <1>3 DEF RegisterRead, page, N
  <1> HIDE DEF pages
  <1>10. FlattenSeq(pages) = rs
    BY <1>1, <1>5, <1>6, <1>7, <1>8, PagesJoin
  <1> QED
    BY <1>9, <1>10 DEF rs, some

\* Both readers ask for the legs of the same transactions.
LEMMA SameLegs ==
    ASSUME NEW book \in Books, NEW period, NEW pairs
    PROVE  {row.id : row \in ChosenRows(book, Everything(period, pairs))}
              = UNION {{LegId(t.id, leg) : leg \in DOMAIN t.legs} : t \in Chosen(book, Everything(period, pairs))}
  <1> DEFINE asked == Everything(period, pairs)
             some == Chosen(book, asked)
             ids == UNION {{LegId(t.id, leg) : leg \in DOMAIN t.legs} : t \in some}
             any == ""
  <1>1. /\ asked.period = period /\ asked.metadata = pairs
        /\ Asked(asked).user = Absent /\ Asked(asked).name = Absent
        /\ Asked(asked).type = any /\ Asked(asked).currency = any /\ asked.key = any
    <2> DEFINE code == UpperCased[any]
               type == AccountTypeToString(0)
    <2>1. code = any
      BY ListingConstants
    <2>2. type = any
      BY WireConstants DEF AccountTypeToString
    <2>3. asked = [key |-> any, type |-> 0, user |-> Absent, name |-> Absent, currency |-> any,
                   period |-> period, metadata |-> pairs]
      BY DEF Everything
    <2> HIDE DEF asked, any
    <2>4. asked.type = 0 /\ asked.currency = any
      BY <2>3
    <2>5. Asked(asked) = [asked EXCEPT !.type = AccountTypeToString(0), !.currency = UpperCased[any]]
      BY <2>4 DEF Asked
    <2> HIDE DEF code, type
    <2>6. Asked(asked) = [asked EXCEPT !.type = type, !.currency = code]
      BY <2>5 DEF code, type
    <2>7. /\ Asked(asked).user = Absent /\ Asked(asked).name = Absent
          /\ Asked(asked).type = type /\ Asked(asked).currency = code
      BY <2>3, <2>6
    <2> QED
      BY <2>1, <2>2, <2>3, <2>7
  <1> HIDE DEF asked
  <1>2. \A row : SelectsAccount(Asked(asked), row)
    BY <1>1 DEF SelectsAccount, IfSet, IfGiven
  <1>3. \A t : SelectsTransaction(asked, t) <=> InPeriod(period, t.date) /\ CarriesPairs(t.metadata, pairs)
    BY <1>1 DEF SelectsTransaction, IfSet
  <1> HIDE DEF any
  <1>4. ASSUME NEW row \in ChosenRows(book, asked) PROVE row.id \in ids
    <2>1. /\ row \in PostingRows(book)
          /\ InPeriod(period, row.date) /\ CarriesPairs(row.of.metadata, pairs)
      BY <1>1 DEF ChosenRows
    <2>2. PICK t \in book : \E leg \in DOMAIN t.legs :
             row.id = LegId(t.id, leg) /\ row.date = t.date /\ row.of = t
      BY <2>1, PostingRowFacts
    <2>3. PICK leg \in DOMAIN t.legs : row.id = LegId(t.id, leg) /\ row.date = t.date /\ row.of = t
      BY <2>2
    <2>4. t \in some
      BY <1>3, <2>1, <2>3 DEF Chosen
    <2> HIDE DEF some
    <2> QED
      BY <2>3, <2>4
  <1>5. ASSUME NEW t \in some, NEW leg \in DOMAIN t.legs
        PROVE  \E row \in ChosenRows(book, asked) : row.id = LegId(t.id, leg)
    <2> DEFINE row == PostingRow(t, leg)
    <2>1. t \in book /\ InPeriod(period, t.date) /\ CarriesPairs(t.metadata, pairs)
      BY <1>3 DEF Chosen
    <2>2. row.id = LegId(t.id, leg) /\ row.date = t.date /\ row.of = t
      BY DEF PostingRow
    <2>3. row \in PostingRows(book)
      BY <1>5, <2>1 DEF PostingRows
    <2> HIDE DEF row
    <2>4. row \in ChosenRows(book, asked)
      BY <1>1, <1>2, <2>1, <2>2, <2>3 DEF ChosenRows
    <2> QED
      BY <2>2, <2>4
  <1> HIDE DEF some
  <1>6. {row.id : row \in ChosenRows(book, asked)} = ids
    BY <1>4, <1>5
  <1> QED
    BY <1>6 DEF asked, some

\* What the readers of the pages agree on.
Agree(book, asked, size, ascending) ==
    LET listed == Listed(book, asked, size, ascending)
        register == RegisterRead(book, asked, size, ascending)
    IN  /\ \A n \in 1 .. LargestNumber : Offset(n, size) >= 0
        /\ \A i, j \in DOMAIN listed : i # j => listed[i].id # listed[j].id
        /\ \A i \in DOMAIN listed :
              /\ Len(listed[i].legs) = Len(listed[i].legs[1].of.legs)
              /\ \A leg \in DOMAIN listed[i].legs : listed[i].legs[leg].leg = leg
        /\ Len(listed) = ListTransactions(book, asked, PageAt(1, size, ascending)).total
        /\ {register[i].id : i \in DOMAIN register}
             = UNION {{LegId(listed[i].id, leg) : leg \in DOMAIN listed[i].legs} : i \in DOMAIN listed}

LEMMA ReadersAgree ==
    ASSUME NEW book \in Books, NEW period, NEW pairs, NEW size \in Int, NEW ascending
    PROVE  Agree(book, Everything(period, pairs), size, ascending)
  <1> DEFINE asked == Everything(period, pairs)
             some == Chosen(book, asked)
             rows == ChosenRows(book, asked)
             ts == Sorted(some, ascending)
             rs == Sorted(rows, ascending)
             listed == Listed(book, asked, size, ascending)
             register == RegisterRead(book, asked, size, ascending)
             total == ListTransactions(book, asked, PageAt(1, size, ascending)).total
  <1>1. {row.id : row \in rows} = UNION {{LegId(t.id, leg) : leg \in DOMAIN t.legs} : t \in some}
    BY SameLegs
  <1> HIDE DEF asked
  <1>2. listed = [k \in 1 .. Len(ts) |-> Whole(ts[k])] /\ total = Len(ts) /\ register = rs
    BY ListedWhole, RegisterWhole
  <1>3. Legged(some) /\ Sortable(some) /\ IsListOf(ts, some) /\ IsListOf(rs, rows)
    BY ChosenFacts, SortedFacts
  <1> HIDE DEF some, rows, ts, rs, listed, register, total
  <1>4. /\ Len(ts) \in Nat /\ \A k \in 1 .. Len(ts) : ts[k] \in some
        /\ \A t \in some : \E k \in 1 .. Len(ts) : ts[k] = t
        /\ \A i, j \in 1 .. Len(ts) : ts[i] = ts[j] => i = j
        /\ Len(rs) \in Nat /\ DOMAIN rs = 1 .. Len(rs)
        /\ \A k \in 1 .. Len(rs) : rs[k] \in rows
        /\ \A r \in rows : \E k \in 1 .. Len(rs) : rs[k] = r
    BY <1>3 DEF IsListOf
  <1>5. \A n \in 1 .. LargestNumber : Offset(n, size) >= 0
    <2> TAKE n \in 1 .. LargestNumber
    <2>1. n \in Nat /\ n <= LargestNumber + 1
      BY RegisterConstants
    <2>2. Offset(n, size) \in Nat
      BY <2>1, OffsetFacts
    <2> QED
      BY <2>2
  <1>6. DOMAIN listed = 1 .. Len(ts) /\ Len(listed) = total
    BY <1>2, <1>4
  <1>7. ASSUME NEW i \in 1 .. Len(ts)
        PROVE  /\ ts[i] \in some /\ listed[i].id = ts[i].id
               /\ DOMAIN listed[i].legs = DOMAIN ts[i].legs
               /\ Len(listed[i].legs) = Len(listed[i].legs[1].of.legs)
               /\ \A leg \in DOMAIN listed[i].legs : listed[i].legs[leg].leg = leg
    <2>1. listed[i] = Whole(ts[i]) /\ ts[i] \in some
      BY <1>2, <1>4
    <2>2. PICK t \in some : t = ts[i]
      BY <2>1
    <2>3. PICK L \in Nat \ {0} : L = Len(t.legs) /\ DOMAIN t.legs = 1 .. L
      BY <1>3 DEF Legged
    <2>4. listed[i].id = t.id /\ listed[i].legs = FirstLegs(t, L)
      BY <2>1, <2>2, <2>3 DEF Whole
    <2>5. /\ DOMAIN FirstLegs(t, L) = 1 .. L /\ Len(FirstLegs(t, L)) = L
          /\ \A leg \in 1 .. L : FirstLegs(t, L)[leg] = [of |-> t, leg |-> leg]
      BY DEF FirstLegs
    <2> DEFINE legs == FirstLegs(t, L)
    <2>6. \A leg \in 1 .. L : legs[leg].of = t /\ legs[leg].leg = leg
      BY <2>5
    <2>7. DOMAIN legs = 1 .. L /\ Len(legs) = L /\ 1 \in 1 .. L
      BY <2>5
    <2>8. listed[i].legs = legs
      BY <2>4
    <2> HIDE DEF legs
    <2>9. legs[1].of = t /\ Len(t.legs) = L
      BY <2>3, <2>6, <2>7
    <2> QED
      BY <2>2, <2>3, <2>4, <2>6, <2>7, <2>8, <2>9
  <1>8. ASSUME NEW i \in 1 .. Len(ts), NEW j \in 1 .. Len(ts), i # j
        PROVE  listed[i].id # listed[j].id
    BY <1>3, <1>4, <1>7, <1>8 DEF Sortable
  <1>9. {register[i].id : i \in DOMAIN register} = {row.id : row \in rows}
    BY <1>2, <1>4
  <1>10. {{LegId(listed[i].id, leg) : leg \in DOMAIN listed[i].legs} : i \in DOMAIN listed}
           = {{LegId(t.id, leg) : leg \in DOMAIN t.legs} : t \in some}
    <2>1. \A i \in 1 .. Len(ts) :
             {LegId(listed[i].id, leg) : leg \in DOMAIN listed[i].legs}
               = {LegId(ts[i].id, leg) : leg \in DOMAIN ts[i].legs}
      BY <1>7
    <2> DEFINE legs(t) == {LegId(t.id, leg) : leg \in DOMAIN t.legs}
               listedLegs(i) == {LegId(listed[i].id, leg) : leg \in DOMAIN listed[i].legs}
    <2>2. \A i \in 1 .. Len(ts) : listedLegs(i) = legs(ts[i])
      BY <2>1
    <2> HIDE DEF legs, listedLegs
    <2>3. {listedLegs(i) : i \in 1 .. Len(ts)} = {legs(t) : t \in some}
      BY <1>4, <2>2
    <2> QED
      BY <1>6, <2>3 DEF legs, listedLegs
  <1>11. {register[i].id : i \in DOMAIN register}
           = UNION {{LegId(listed[i].id, leg) : leg \in DOMAIN listed[i].legs} : i \in DOMAIN listed}
    BY <1>1, <1>9, <1>10
  <1> QED
    BY <1>5, <1>6, <1>7, <1>8, <1>11 DEF Agree, listed, register, total, asked

\* Paging through the transactions of a period and through its postings shows the same
\* legs, each transaction once and whole.
THEOREM TheListingsAgree == Spec => []ListingsAgree
  <1>1. ASSUME Init PROVE walk.size \in Int
    <2>1. PICK size \in Sizes :
             walk = [stage |-> "closed", size |-> size, number |-> 1, ascending |-> TRUE,
                     total |-> 0, rows |-> <<>>, seen |-> {}, owed |-> {}]
      BY <1>1 DEF Init
    <2>2. walk.size = size
      BY <2>1
    <2> QED
      BY <2>2, RegisterConstants
  <1>2. ListingsAgree
    <2> SUFFICES ASSUME Init, NEW book \in Books, NEW period \in Periods, NEW pairs \in Pairs,
                        NEW ascending \in BOOLEAN
                 PROVE  Agree(book, Everything(period, pairs), walk.size, ascending)
      BY DEF ListingsAgree, Agree, Listed, RegisterRead, PageAt
    <2> QED
      BY <1>1, ReadersAgree
  <1> QED
    BY <1>2, PTL
================================================================================
