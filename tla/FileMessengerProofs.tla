------------------------- MODULE FileMessengerProofs --------------------------
(***************************************************************************)
(* The messenger over a file for any number of users, of units and of      *)
(* faults and for buffers of any size: screens agree as far as they are    *)
(* whole, and the file keeps the order in which each user typed.           *)
(***************************************************************************)
EXTENDS FileMessengerProps, SequenceTheorems, TLAPS

Units == Users \X Nat

TypeOK ==
    /\ file \in Seq(Units)
    /\ child \in [Users -> {"none", "read", "write"}]
    /\ parent \in [Users -> {"none", "read", "write"}]
    /\ typed \in [Users -> Nat]
    /\ to_file \in [Users -> Seq(Units)]
    /\ offset \in [Users -> Nat]
    /\ to_screen \in [Users -> Seq(Units)]
    /\ screen \in [Users -> Seq(Units)]

\* The child starts with the parent.  Its buffer holds the last units typed, and
\* only while it writes; what the file has of its user was typed before them.
BufferIsLatest(u) ==
    LET before == typed[u] - Len(to_file[u]) IN
    /\ parent[u] = "none" => child[u] = "none"
    /\ child[u] # "write" => to_file[u] = <<>>
    /\ \A k \in 1..Len(to_file[u]) : to_file[u][k] = <<u, before + k>>
    /\ \A j \in 1..Len(file) : file[j][1] = u => file[j][2] <= before

FileInOrder ==
    \A j, k \in 1..Len(file) : j < k /\ file[j][1] = file[k][1] => file[j][2] < file[k][2]

\* A parent is never ahead of the file; what is on its screen and in its buffer
\* falls short of its place in the file or is all the file has before it.
ScreenIsFile(u) ==
    /\ offset[u] <= Len(file)
    /\ parent[u] # "write" => to_screen[u] = <<>>
    /\ Len(screen[u]) + Len(to_screen[u]) <= offset[u]
    /\ Len(screen[u]) + Len(to_screen[u]) = offset[u] =>
          /\ \A k \in 1..Len(screen[u]) : screen[u][k] = file[k]
          /\ \A k \in 1..Len(to_screen[u]) : to_screen[u][k] = file[Len(screen[u]) + k]

Inv ==
    /\ TypeOK
    /\ \A u \in Users : BufferIsLatest(u) /\ ScreenIsFile(u)
    /\ FileInOrder

-----------------------------------------------------------------------------
\* Min and Max choose the smaller and the greater of two numbers.
LEMMA MinMaxOfTwo ==
    ASSUME NEW a \in Int, NEW b \in Int
    PROVE  /\ Min({a, b}) = IF a <= b THEN a ELSE b
           /\ Max({a, b}) = IF a >= b THEN a ELSE b
<1>1. Min({a, b}) = IF a <= b THEN a ELSE b
  <2> DEFINE P(x) == x \in {a, b} /\ \A y \in {a, b} : x <= y
  <2>1. \E x : P(x)
    <3>1. CASE a <= b
      BY <3>1
    <3>2. CASE b <= a
      BY <3>2
    <3>3. QED
      BY <3>1, <3>2
  <2>2. Min({a, b}) = CHOOSE x : P(x)
    BY DEF Min
  <2>3. P(CHOOSE x : P(x))
    BY <2>1, Zenon
  <2>4. QED
    BY <2>2, <2>3
<1>2. Max({a, b}) = IF a >= b THEN a ELSE b
  <2> DEFINE P(x) == x \in {a, b} /\ \A y \in {a, b} : x >= y
  <2>1. \E x : P(x)
    <3>1. CASE a >= b
      BY <3>1
    <3>2. CASE b >= a
      BY <3>2
    <3>3. QED
      BY <3>1, <3>2
  <2>2. Max({a, b}) = CHOOSE x : P(x)
    BY DEF Max
  <2>3. P(CHOOSE x : P(x))
    BY <2>1, Zenon
  <2>4. QED
    BY <2>2, <2>3
<1>3. QED
  BY <1>1, <1>2

\* A write with O_APPEND leaves the file as it was and puts the units behind it.
LEMMA WrittenAtTheEnd ==
    ASSUME NEW M, file \in Seq(M), NEW units \in Seq(M), NEW u
    PROVE  /\ Written(WriteAt(u), units) \in Seq(M)
           /\ Len(Written(WriteAt(u), units)) = Len(file) + Len(units)
           /\ \A k \in 1..Len(file) : Written(WriteAt(u), units)[k] = file[k]
           /\ \A k \in 1..Len(units) : Written(WriteAt(u), units)[Len(file) + k] = units[k]
<1>1. Len(file) \in Nat /\ Len(units) \in Nat
  OBVIOUS
<1>2. Max({Len(file), Len(file) + Len(units)}) = Len(file) + Len(units)
  <2>1. Len(file) \in Int /\ Len(file) + Len(units) \in Int
    BY <1>1
  <2>2. Max({Len(file), Len(file) + Len(units)}) =
            IF Len(file) >= Len(file) + Len(units) THEN Len(file) ELSE Len(file) + Len(units)
    BY <2>1, MinMaxOfTwo, Zenon
  <2>3. QED
    BY <1>1, <2>2
<1>3. Written(WriteAt(u), units) =
        [k \in 1..(Len(file) + Len(units)) |->
            IF k \in (Len(file) + 1)..(Len(file) + Len(units))
            THEN units[k - Len(file)] ELSE file[k]]
  BY <1>2 DEF Written, WriteAt
<1>4. ASSUME NEW k \in 1..(Len(file) + Len(units))
      PROVE  (IF k \in (Len(file) + 1)..(Len(file) + Len(units))
              THEN units[k - Len(file)] ELSE file[k]) \in M
  <2>1. CASE k \in (Len(file) + 1)..(Len(file) + Len(units))
    <3>1. k - Len(file) \in 1..Len(units)
      BY <1>1, <2>1
    <3>2. QED
      BY <2>1, <3>1
  <2>2. CASE ~(k \in (Len(file) + 1)..(Len(file) + Len(units)))
    <3>1. k \in 1..Len(file)
      BY <1>1, <2>2
    <3>2. QED
      BY <2>2, <3>1
  <2>3. QED
    BY <2>1, <2>2
<1>5. Written(WriteAt(u), units) \in Seq(M)
      /\ Len(Written(WriteAt(u), units)) = Len(file) + Len(units)
  BY <1>1, <1>3, <1>4
<1>6. \A k \in 1..Len(file) : Written(WriteAt(u), units)[k] = file[k]
  BY <1>1, <1>3
<1>7. \A k \in 1..Len(units) : Written(WriteAt(u), units)[Len(file) + k] = units[k]
  BY <1>1, <1>3
<1>8. QED
  BY <1>5, <1>6, <1>7

\* The n units of a sequence that follow its first a.
LEMMA NextUnits ==
    ASSUME NEW M, NEW s \in Seq(M), NEW a \in Nat, NEW n \in Nat, a + n <= Len(s)
    PROVE  /\ SubSeq(s, a + 1, a + n) \in Seq(M) /\ Len(SubSeq(s, a + 1, a + n)) = n
           /\ \A k \in 1..n : SubSeq(s, a + 1, a + n)[k] = s[a + k]
<1> DEFINE x == a + 1
           y == a + n
<1>1. x \in 1..Len(s) + 1 /\ y \in x - 1..Len(s) /\ y - x + 1 = n
  OBVIOUS
<1>2. /\ SubSeq(s, x, y) \in Seq(M)
      /\ Len(SubSeq(s, x, y)) = IF x <= y THEN y - x + 1 ELSE 0
      /\ \A i \in 1..y - x + 1 : SubSeq(s, x, y)[i] = s[x + i - 1]
  <2> HIDE DEF x, y
  <2> QED  BY <1>1, SubSeqProperties
<1>3. (IF x <= y THEN y - x + 1 ELSE 0) = n /\ 1..y - x + 1 = 1..n
  OBVIOUS
<1>4. \A k \in 1..n : x + k - 1 = a + k
  OBVIOUS
<1> HIDE DEF x
<1>5. /\ SubSeq(s, x, y) \in Seq(M) /\ Len(SubSeq(s, x, y)) = n
      /\ \A k \in 1..n : SubSeq(s, x, y)[k] = s[a + k]
  <2> HIDE DEF y
  <2> QED  BY <1>2, <1>3, <1>4
<1>6. QED
  BY <1>5, Zenon DEF x, y

\* The first n units of a sequence.
LEMMA FirstUnits ==
    ASSUME NEW M, NEW s \in Seq(M), NEW n \in 0..Len(s)
    PROVE  /\ SubSeq(s, 1, n) \in Seq(M) /\ Len(SubSeq(s, 1, n)) = n
           /\ \A k \in 1..n : SubSeq(s, 1, n)[k] = s[k]
  OBVIOUS

LEMMA InitInv == Init => Inv
  BY DEF Init, Inv, TypeOK, BufferIsLatest, FileInOrder, ScreenIsFile

-----------------------------------------------------------------------------
LEMMA StartStep ==
    ASSUME Inv, NEW u \in Users, Start(u) PROVE Inv'
<1>1. TypeOK'
  BY DEF Start, Inv, TypeOK
<1>2. ASSUME NEW v \in Users PROVE BufferIsLatest(v)'
  BY DEF Start, Inv, TypeOK, BufferIsLatest
<1>3. ASSUME NEW v \in Users PROVE ScreenIsFile(v)'
  BY DEF Start, Inv, TypeOK, ScreenIsFile
<1>4. FileInOrder'
  BY DEF Start, Inv, FileInOrder
<1>5. QED
  BY <1>1, <1>2, <1>3, <1>4 DEF Inv

LEMMA ReadInputStep ==
    ASSUME BUFFER_SIZE \in Nat, MaxTyped \in Nat, Inv, NEW u \in Users, ReadInput(u)
    PROVE  Inv'
<1>1. PICK n \in 1..Min({BUFFER_SIZE, MaxTyped - typed[u]}) :
        /\ to_file' = [to_file EXCEPT ![u] = [k \in 1..n |-> <<u, typed[u] + k>>]]
        /\ typed' = [typed EXCEPT ![u] = typed[u] + n]
  BY Zenon DEF ReadInput, Inv, TypeOK
<1>2. typed[u] \in Nat /\ Min({BUFFER_SIZE, MaxTyped - typed[u]}) \in Int
  <2>1. typed[u] \in Nat /\ BUFFER_SIZE \in Int /\ MaxTyped - typed[u] \in Int
    BY DEF Inv, TypeOK
  <2>2. Min({BUFFER_SIZE, MaxTyped - typed[u]}) =
            IF BUFFER_SIZE <= MaxTyped - typed[u] THEN BUFFER_SIZE ELSE MaxTyped - typed[u]
    BY <2>1, MinMaxOfTwo, Zenon
  <2>3. QED
    BY <2>1, <2>2
<1>3. n \in Nat
  BY <1>1, <1>2
<1>4. PICK new : new = [k \in 1..n |-> <<u, typed[u] + k>>]
  OBVIOUS
<1>5. new \in Seq(Units) /\ Len(new) = n /\ \A k \in 1..n : new[k] = <<u, typed[u] + k>>
  BY <1>2, <1>3, <1>4 DEF Units
<1>6. /\ child[u] = "read" /\ child' = [child EXCEPT ![u] = "write"]
      /\ to_file' = [to_file EXCEPT ![u] = new]
      /\ typed' = [typed EXCEPT ![u] = typed[u] + n]
      /\ UNCHANGED <<file, parent, offset, to_screen, screen>>
  BY <1>1, <1>4 DEF ReadInput, parentState
<1>7. TypeOK'
  BY <1>2, <1>3, <1>5, <1>6 DEF Inv, TypeOK
<1>8. ASSUME NEW v \in Users PROVE BufferIsLatest(v)'
  <2>1. BufferIsLatest(v)
    BY DEF Inv
  <2>2. CASE v # u
    BY <1>6, <2>1, <2>2 DEF Inv, TypeOK, BufferIsLatest
  <2>3. CASE v = u
    <3>1. to_file[u] = <<>> /\ to_file'[u] = new /\ typed'[u] = typed[u] + n
      BY <1>6, <2>1, <2>3 DEF Inv, TypeOK, BufferIsLatest
    <3>2. typed'[u] - Len(to_file'[u]) = typed[u] /\ typed[u] - Len(to_file[u]) = typed[u]
      BY <1>2, <1>3, <1>5, <3>1
    <3>3. QED
      BY <1>5, <1>6, <2>1, <2>3, <3>1, <3>2, SMTT(30) DEF Inv, TypeOK, BufferIsLatest
  <2>4. QED
    BY <2>2, <2>3
<1>9. ASSUME NEW v \in Users PROVE ScreenIsFile(v)'
  BY <1>6 DEF Inv, ScreenIsFile
<1>10. FileInOrder'
  BY <1>6 DEF Inv, FileInOrder
<1>11. QED
  BY <1>7, <1>8, <1>9, <1>10 DEF Inv

LEMMA WriteFileStep ==
    ASSUME Inv, NEW u \in Users, WriteFile(u) PROVE Inv'
<1>1. PICK n \in 0..Len(to_file[u]) :
        /\ file' = Written(WriteAt(u), SubSeq(to_file[u], 1, n))
        /\ to_file' = [to_file EXCEPT ![u] = <<>>]
  BY DEF WriteFile, LeftToWrite
<1>2. /\ child' = [child EXCEPT ![u] = "read"]
      /\ UNCHANGED <<typed, parent, offset, to_screen, screen>>
  BY <1>1 DEF WriteFile, parentState, Inv, TypeOK
<1>3. PICK units : units = SubSeq(to_file[u], 1, n)
  OBVIOUS
<1>4. to_file[u] \in Seq(Units) /\ file \in Seq(Units) /\ Len(file) \in Nat
      /\ typed[u] \in Nat /\ Len(to_file[u]) \in Nat /\ n \in Nat /\ n <= Len(to_file[u])
  BY <1>1 DEF Inv, TypeOK
<1>5. units \in Seq(Units) /\ Len(units) = n /\ \A k \in 1..n : units[k] = to_file[u][k]
  BY <1>3, <1>4, FirstUnits
<1>6. /\ file' \in Seq(Units) /\ Len(file') = Len(file) + n
      /\ \A k \in 1..Len(file) : file'[k] = file[k]
      /\ \A k \in 1..n : file'[Len(file) + k] = units[k]
  <2>1. PICK f : f = Written(WriteAt(u), units)
    OBVIOUS
  <2>2. /\ f \in Seq(Units) /\ Len(f) = Len(file) + Len(units)
        /\ \A k \in 1..Len(file) : f[k] = file[k]
        /\ \A k \in 1..Len(units) : f[Len(file) + k] = units[k]
    <3>1. units \in Seq(Units) /\ file \in Seq(Units)
      BY <1>4, <1>5
    <3>2. /\ Written(WriteAt(u), units) \in Seq(Units)
          /\ Len(Written(WriteAt(u), units)) = Len(file) + Len(units)
          /\ \A k \in 1..Len(file) : Written(WriteAt(u), units)[k] = file[k]
          /\ \A k \in 1..Len(units) : Written(WriteAt(u), units)[Len(file) + k] = units[k]
      BY <3>1, WrittenAtTheEnd, Zenon
    <3>3. QED
      BY <2>1, <3>2
  <2>3. file' = f
    BY <1>1, <1>3, <2>1
  <2>4. QED
    BY <1>5, <2>2, <2>3
<1>7. PICK before : before = typed[u] - Len(to_file[u])
  OBVIOUS
<1>8. /\ before \in Int /\ before + n <= typed[u]
      /\ \A k \in 1..n : units[k] = <<u, before + k>>
      /\ \A j \in 1..Len(file) : file[j][1] = u => file[j][2] <= before
  <2>1. BufferIsLatest(u)
    BY DEF Inv
  <2>2. \A k \in 1..Len(to_file[u]) : to_file[u][k] = <<u, before + k>>
    BY <1>7, <2>1 DEF BufferIsLatest
  <2>3. \A j \in 1..Len(file) : file[j][1] = u => file[j][2] <= before
    BY <1>7, <2>1 DEF BufferIsLatest
  <2>4. QED
    <3>1. before \in Int /\ before + n <= typed[u]
      BY <1>4, <1>7
    <3>2. \A k \in 1..n : k \in 1..Len(to_file[u])
      BY <1>4
    <3>3. QED
      BY <1>5, <2>2, <2>3, <3>1, <3>2
\* What stands in the file now stood there before or is a unit just written.
<1>9. ASSUME NEW j \in 1..Len(file')
      PROVE  \/ j \in 1..Len(file) /\ file'[j] = file[j]
             \/ \E k \in 1..n : /\ j = Len(file) + k
                                /\ file'[j][1] = u /\ file'[j][2] = before + k
  <2>1. CASE j \in 1..Len(file)
    BY <1>6, <2>1
  <2>2. CASE j \notin 1..Len(file)
    <3>1. PICK k \in 1..n : j = Len(file) + k
      <4>1. j - Len(file) \in 1..n /\ Len(file) + (j - Len(file)) = j
        BY <1>4, <1>6, <2>2
      <4>2. QED
        BY <4>1
    <3>2. file'[j] = <<u, before + k>>
      BY <1>6, <1>8, <3>1
    <3>3. QED
      BY <3>1, <3>2
  <2>3. QED
    BY <2>1, <2>2
<1>10. TypeOK'
  BY <1>1, <1>2, <1>6 DEF Inv, TypeOK
<1>11. \A v \in Users : typed[v] \in Nat /\ Len(to_file[v]) \in Nat
  BY DEF Inv, TypeOK
<1>12. \A j \in 1..Len(file) : file[j][2] \in Nat
  BY DEF Inv, TypeOK, Units
<1>13. ASSUME NEW v \in Users PROVE BufferIsLatest(v)'
  <2>1. BufferIsLatest(v)
    BY DEF Inv
  <2>2. CASE v # u
    <3>1. /\ to_file'[v] = to_file[v] /\ child'[v] = child[v] /\ typed'[v] = typed[v]
          /\ parent'[v] = parent[v]
      BY <1>1, <1>2, <2>2 DEF Inv, TypeOK
    <3>2. \A j \in 1..Len(file') : file'[j][1] = v => file'[j][2] <= typed[v] - Len(to_file[v])
      BY <1>9, <2>1, <2>2 DEF BufferIsLatest
    <3>3. QED
      BY <2>1, <3>1, <3>2 DEF BufferIsLatest
  <2>3. CASE v = u
    <3>1. /\ to_file'[u] = <<>> /\ child'[u] = "read" /\ typed'[u] = typed[u]
          /\ parent'[u] = parent[u] /\ parent[u] # "none"
      BY <1>1, <1>2, <2>1, <2>3 DEF Inv, TypeOK, BufferIsLatest, WriteFile
    <3>2. \A j \in 1..Len(file') : file'[j][1] = u => file'[j][2] <= typed[u]
      <4>1. ASSUME NEW j \in 1..Len(file'), file'[j][1] = u PROVE file'[j][2] <= typed[u]
        <5>1. CASE j \in 1..Len(file) /\ file'[j] = file[j]
          BY <1>4, <1>8, <1>12, <4>1, <5>1
        <5>2. CASE \E k \in 1..n : file'[j][2] = before + k
          BY <1>4, <1>8, <5>2
        <5>3. QED
          BY <1>9, <4>1, <5>1, <5>2
      <4>2. QED
        BY <4>1
    <3>3. QED
      BY <1>4, <2>3, <3>1, <3>2 DEF BufferIsLatest
  <2>4. QED
    BY <2>2, <2>3
<1>14. FileInOrder'
  <2>1. ASSUME NEW j \in 1..Len(file'), NEW k \in 1..Len(file'),
               j < k, file'[j][1] = file'[k][1]
        PROVE  file'[j][2] < file'[k][2]
    <3>1. CASE k \in 1..Len(file) /\ file'[k] = file[k]
      <4>1. j \in 1..Len(file) /\ file'[j] = file[j]
        BY <1>4, <1>6, <2>1, <3>1
      <4>2. QED
        BY <2>1, <3>1, <4>1 DEF Inv, FileInOrder
    <3>2. ASSUME NEW l \in 1..n, k = Len(file) + l, file'[k][1] = u, file'[k][2] = before + l
          PROVE  file'[j][2] < file'[k][2]
      <4>1. CASE j \in 1..Len(file) /\ file'[j] = file[j]
        BY <1>4, <1>8, <1>12, <2>1, <3>2, <4>1
      <4>2. CASE \E i \in 1..n : j = Len(file) + i /\ file'[j][2] = before + i
        BY <1>4, <1>8, <2>1, <3>2, <4>2
      <4>3. QED
        BY <1>9, <4>1, <4>2
    <3>3. QED
      BY <1>9, <3>1, <3>2
  <2>2. QED
    BY <2>1 DEF FileInOrder
<1>15. ASSUME NEW v \in Users PROVE ScreenIsFile(v)'
  <2>1. ScreenIsFile(v) /\ offset[v] \in Nat /\ Len(screen[v]) \in Nat /\ Len(to_screen[v]) \in Nat
    BY DEF Inv, TypeOK
  <2>2. QED
    <3>1. /\ \A k \in 1..Len(screen[v]) : k <= offset[v] => file'[k] = file[k]
          /\ \A k \in 1..Len(to_screen[v]) :
                Len(screen[v]) + k <= offset[v] => file'[Len(screen[v]) + k] = file[Len(screen[v]) + k]
      BY <1>4, <1>6, <2>1, SMTT(30) DEF ScreenIsFile
    <3>2. offset[v] <= Len(file')
      BY <1>4, <1>6, <2>1 DEF ScreenIsFile
    <3>3. Len(screen[v]) + Len(to_screen[v]) = offset[v] =>
          /\ \A k \in 1..Len(screen[v]) : screen[v][k] = file'[k]
          /\ \A k \in 1..Len(to_screen[v]) : to_screen[v][k] = file'[Len(screen[v]) + k]
      <4>1. ASSUME Len(screen[v]) + Len(to_screen[v]) = offset[v], NEW k \in 1..Len(screen[v])
            PROVE  screen[v][k] = file'[k]
        <5>1. k <= offset[v] /\ screen[v][k] = file[k]
          BY <2>1, <4>1 DEF ScreenIsFile, Inv, TypeOK
        <5>2. QED
          BY <3>1, <4>1, <5>1
      <4>2. ASSUME Len(screen[v]) + Len(to_screen[v]) = offset[v], NEW k \in 1..Len(to_screen[v])
            PROVE  to_screen[v][k] = file'[Len(screen[v]) + k]
        <5>1. Len(screen[v]) + k <= offset[v] /\ to_screen[v][k] = file[Len(screen[v]) + k]
          BY <2>1, <4>2 DEF ScreenIsFile, Inv, TypeOK
        <5>2. QED
          BY <3>1, <4>2, <5>1
      <4>3. QED
        BY <4>1, <4>2
    <3>4. QED
      BY <1>2, <2>1, <3>2, <3>3 DEF ScreenIsFile
<1>16. QED
  BY <1>10, <1>13, <1>14, <1>15 DEF Inv

LEMMA ReadFileStep ==
    ASSUME BUFFER_SIZE \in Nat, Inv, NEW u \in Users, ReadFile(u) PROVE Inv'
<1>1. PICK n : n = Min({BUFFER_SIZE, Len(file) - offset[u]})
  OBVIOUS
<1>2. /\ file \in Seq(Units) /\ offset[u] \in Nat /\ Len(file) \in Nat
      /\ screen[u] \in Seq(Units) /\ Len(screen[u]) \in Nat
      /\ offset[u] <= Len(file)
  BY DEF Inv, TypeOK, ScreenIsFile
<1>3. n \in Int /\ n <= Len(file) - offset[u]
  <2>1. BUFFER_SIZE \in Int /\ Len(file) - offset[u] \in Int
    BY <1>2
  <2>2. n = IF BUFFER_SIZE <= Len(file) - offset[u] THEN BUFFER_SIZE ELSE Len(file) - offset[u]
    BY <1>1, <2>1, MinMaxOfTwo, Zenon
  <2>3. QED
    BY <1>2, <2>2
<1>4. PICK new : new = SubSeq(file, offset[u] + 1, offset[u] + n)
  OBVIOUS
<1>5. /\ parent[u] = "read" /\ parent' = [parent EXCEPT ![u] = "write"] /\ n > 0
      /\ to_screen' = [to_screen EXCEPT ![u] = new]
      /\ offset' = [offset EXCEPT ![u] = offset[u] + n]
      /\ UNCHANGED <<file, child, typed, to_file, screen>>
  BY <1>1, <1>4, Zenon DEF ReadFile, Moved, childState, Inv, TypeOK
<1>6. new \in Seq(Units) /\ Len(new) = n /\ \A k \in 1..n : new[k] = file[offset[u] + k]
  <2>1. n \in Nat /\ offset[u] + n <= Len(file)
    BY <1>2, <1>3, <1>5
  <2>2. QED
    <3>1. file \in Seq(Units) /\ offset[u] \in Nat
      BY <1>2
    <3>2. /\ SubSeq(file, offset[u] + 1, offset[u] + n) \in Seq(Units)
          /\ Len(SubSeq(file, offset[u] + 1, offset[u] + n)) = n
          /\ \A k \in 1..n : SubSeq(file, offset[u] + 1, offset[u] + n)[k] = file[offset[u] + k]
      BY <2>1, <3>1, NextUnits, ZenonT(40)
    <3>3. QED
      BY <1>4, <3>2
<1>7. TypeOK'

  BY <1>2, <1>3, <1>5, <1>6 DEF Inv, TypeOK
<1>8. ASSUME NEW v \in Users PROVE BufferIsLatest(v)'
  BY <1>5 DEF Inv, BufferIsLatest
<1>9. FileInOrder'
  BY <1>5 DEF Inv, FileInOrder
<1>10. ASSUME NEW v \in Users PROVE ScreenIsFile(v)'
  <2>1. ScreenIsFile(v)
    BY DEF Inv
  <2>2. CASE v # u
    BY <1>5, <2>1, <2>2 DEF Inv, TypeOK, ScreenIsFile
  <2>3. CASE v = u
    <3>1. /\ to_screen[u] = <<>> /\ to_screen'[u] = new /\ offset'[u] = offset[u] + n
          /\ parent'[u] = "write" /\ screen'[u] = screen[u]
      BY <1>5, <2>1, <2>3 DEF Inv, TypeOK, ScreenIsFile
    <3>2. Len(screen[u]) <= offset[u]
      BY <1>2, <2>1, <2>3, <3>1 DEF ScreenIsFile
    <3>3. Len(screen[u]) = offset[u] => \A k \in 1..Len(screen[u]) : screen[u][k] = file[k]
      BY <1>2, <2>1, <2>3, <3>1 DEF ScreenIsFile
    <3>4. QED
      <4>1. /\ offset[u] + n <= Len(file) /\ Len(screen[u]) + Len(new) <= offset[u] + n
            /\ Len(screen[u]) + Len(new) = offset[u] + n => Len(screen[u]) = offset[u]
        BY <1>2, <1>3, <1>6, <3>2
      <4>2. Len(screen[u]) + Len(new) = offset[u] + n =>
              /\ \A k \in 1..Len(screen[u]) : screen[u][k] = file[k]
              /\ \A k \in 1..Len(new) : new[k] = file[Len(screen[u]) + k]
        BY <1>6, <3>3, <4>1
      <4>3. QED
        <5>1. ScreenIsFile(u)'
          BY <1>5, <3>1, <4>1, <4>2 DEF ScreenIsFile
        <5>2. QED
          BY <2>3, <5>1
  <2>4. QED
    BY <2>2, <2>3
<1>11. QED
  BY <1>7, <1>8, <1>9, <1>10 DEF Inv

LEMMA WriteScreenStep ==
    ASSUME Inv, NEW u \in Users, WriteScreen(u) PROVE Inv'
<1>1. PICK n \in 0..Len(to_screen[u]) :
        screen' = [screen EXCEPT ![u] = screen[u] \o SubSeq(to_screen[u], 1, n)]
  BY Zenon DEF WriteScreen, Inv, TypeOK
<1>2. /\ parent' = [parent EXCEPT ![u] = "read"]
      /\ to_screen' = [to_screen EXCEPT ![u] = <<>>]
      /\ UNCHANGED <<file, child, typed, to_file, offset>>
  BY DEF WriteScreen, childState
<1>3. PICK units : units = SubSeq(to_screen[u], 1, n)
  OBVIOUS
<1>4. /\ to_screen[u] \in Seq(Units) /\ screen[u] \in Seq(Units)
      /\ Len(screen[u]) \in Nat /\ Len(to_screen[u]) \in Nat /\ offset[u] \in Nat
      /\ n \in Nat /\ n <= Len(to_screen[u])
  BY <1>1 DEF Inv, TypeOK
<1>5. units \in Seq(Units) /\ Len(units) = n /\ \A k \in 1..n : units[k] = to_screen[u][k]
  BY <1>3, <1>4, FirstUnits
<1>6. PICK new : new = screen[u] \o units
  OBVIOUS
<1>7. /\ new \in Seq(Units) /\ Len(new) = Len(screen[u]) + n
      /\ \A k \in 1..Len(screen[u]) : new[k] = screen[u][k]
      /\ \A k \in 1..Len(new) : k \notin 1..Len(screen[u]) =>
            k - Len(screen[u]) \in 1..n /\ new[k] = to_screen[u][k - Len(screen[u])]
  <2>1. /\ new \in Seq(Units) /\ Len(new) = Len(screen[u]) + Len(units)
        /\ \A k \in 1..(Len(screen[u]) + Len(units)) :
              new[k] = IF k <= Len(screen[u]) THEN screen[u][k] ELSE units[k - Len(screen[u])]
    BY <1>4, <1>5, <1>6, ConcatProperties, Zenon
  <2>2. ASSUME NEW k \in 1..Len(new), k \notin 1..Len(screen[u])
        PROVE  k - Len(screen[u]) \in 1..n /\ new[k] = to_screen[u][k - Len(screen[u])]
    <3>1. k \in 1..(Len(screen[u]) + n) /\ ~(k <= Len(screen[u]))
      BY <1>4, <1>5, <2>1, <2>2
    <3>2. k - Len(screen[u]) \in 1..n
      BY <1>4, <3>1
    <3>3. QED
      BY <1>5, <2>1, <3>1, <3>2, Zenon
  <2>3. \A k \in 1..Len(screen[u]) : new[k] = screen[u][k]
    <3>1. \A k \in 1..Len(screen[u]) : k \in 1..(Len(screen[u]) + Len(units)) /\ k <= Len(screen[u])
      BY <1>4, <1>5
    <3>2. QED
      BY <2>1, <3>1, Zenon
  <2>4. QED
    BY <1>5, <2>1, <2>2, <2>3
<1>8. screen' = [screen EXCEPT ![u] = new]
  BY <1>1, <1>3, <1>6
<1>9. TypeOK'
  BY <1>2, <1>7, <1>8 DEF Inv, TypeOK
<1>10. ASSUME NEW v \in Users PROVE BufferIsLatest(v)'
  BY <1>2 DEF Inv, BufferIsLatest
<1>11. FileInOrder'
  BY <1>2 DEF Inv, FileInOrder
<1>12. ASSUME NEW v \in Users PROVE ScreenIsFile(v)'
  <2>1. ScreenIsFile(v)
    BY DEF Inv
  <2>2. CASE v # u
    BY <1>2, <1>8, <2>1, <2>2 DEF Inv, TypeOK, ScreenIsFile
  <2>3. CASE v = u
    <3>1. /\ to_screen'[u] = <<>> /\ screen'[u] = new /\ offset'[u] = offset[u]
          /\ parent'[u] = "read" /\ file' = file
      BY <1>2, <1>8 DEF Inv, TypeOK
    <3>2. /\ offset[u] <= Len(file) /\ Len(new) <= offset[u]
          /\ Len(new) = offset[u] => n = Len(to_screen[u])
      <4>1. offset[u] <= Len(file) /\ Len(screen[u]) + Len(to_screen[u]) <= offset[u]
        BY <2>1, <2>3 DEF ScreenIsFile
      <4>2. QED
        BY <1>4, <1>7, <4>1 DEF Inv, TypeOK
    <3>3. ASSUME Len(new) = offset[u], NEW k \in 1..Len(new) PROVE new[k] = file[k]
      <4>1. CASE k \in 1..Len(screen[u])
        BY <1>4, <1>7, <2>1, <2>3, <3>2, <3>3, <4>1 DEF ScreenIsFile
      <4>2. CASE k \notin 1..Len(screen[u])
        <5>1. PICK j \in 1..n : j = k - Len(screen[u]) /\ new[k] = to_screen[u][j]
          BY <1>7, <3>3, <4>2
        <5>2. to_screen[u][j] = file[Len(screen[u]) + j]
          BY <1>1, <1>4, <1>7, <2>1, <2>3, <3>2, <3>3, <5>1 DEF ScreenIsFile
        <5>3. Len(screen[u]) + j = k
          BY <1>4, <5>1
        <5>4. QED
          BY <5>1, <5>2, <5>3
      <4>3. QED
        BY <4>1, <4>2
    <3>4. QED
      BY <1>4, <1>7, <2>3, <3>1, <3>2, <3>3 DEF ScreenIsFile
  <2>4. QED
    BY <2>2, <2>3
<1>13. QED
  BY <1>9, <1>10, <1>11, <1>12 DEF Inv

\* The invariant of the users and the file, for any number of users and of faults
\* (main.c:48-114).
THEOREM InvHolds ==
    ASSUME BUFFER_SIZE \in Nat, MaxTyped \in Nat PROVE Spec => []Inv
<1>1. Inv /\ [Next]_vars => Inv'
  <2> SUFFICES ASSUME Inv, [Next]_vars PROVE Inv'
    OBVIOUS
  <2>1. CASE UNCHANGED vars
    BY <2>1 DEF vars, childState, parentState, Inv, TypeOK, BufferIsLatest, ScreenIsFile, FileInOrder
  <2>2. ASSUME NEW u \in Users, Start(u) PROVE Inv'
    BY <2>2, StartStep
  <2>3. ASSUME NEW u \in Users, ReadInput(u) PROVE Inv'
    BY <2>3, ReadInputStep
  <2>4. ASSUME NEW u \in Users, WriteFile(u) PROVE Inv'
    BY <2>4, WriteFileStep
  <2>5. ASSUME NEW u \in Users, ReadFile(u) PROVE Inv'
    BY <2>5, ReadFileStep
  <2>6. ASSUME NEW u \in Users, WriteScreen(u) PROVE Inv'
    BY <2>6, WriteScreenStep
  <2>7. QED
    BY <2>1, <2>2, <2>3, <2>4, <2>5, <2>6 DEF Next, Parent
<1>2. QED
  BY <1>1, InitInv, PTL DEF Spec

-----------------------------------------------------------------------------
\* What a user typed is in the file in the order it was typed and no unit twice,
\* whoever else writes and whatever writes are short (main.c:103-114).
THEOREM OrderOfTyping ==
    ASSUME BUFFER_SIZE \in Nat, MaxTyped \in Nat PROVE Spec => []TypedOrder
<1>1. ASSUME Inv PROVE TypedOrder
  <2>1. DOMAIN file = 1..Len(file)
    BY <1>1 DEF Inv, TypeOK
  <2>2. QED
    BY <1>1, <2>1 DEF Inv, FileInOrder, TypedOrder
<1>2. QED
  BY <1>1, InvHolds, PTL

\* Of two screens that miss nothing one is the beginning of the other
\* (main.c:56,66-80,91,111).
THEOREM SameConversation ==
    ASSUME BUFFER_SIZE \in Nat, MaxTyped \in Nat PROVE Spec => []ScreensAgree
<1>1. ASSUME Inv PROVE ScreensAgree
  <2> DEFINE Whole == {u \in Users : Len(screen[u]) + Len(to_screen[u]) = offset[u]}
  <2>1. ASSUME NEW u \in Whole, NEW v \in Whole, Len(screen[u]) <= Len(screen[v])
        PROVE  IsPrefix(screen[u], screen[v])
    <3>1. screen[u] \in Seq(Units) /\ screen[v] \in Seq(Units)
      BY <1>1 DEF Inv, TypeOK
    <3>2. Len(screen[u]) \in Nat /\ Len(screen[v]) \in Nat
      BY <3>1
    <3>3. \A k \in 1..Len(screen[u]) : screen[u][k] = file[k]
      BY <1>1 DEF Inv, ScreenIsFile
    <3>4. \A k \in 1..Len(screen[v]) : screen[v][k] = file[k]
      BY <1>1 DEF Inv, ScreenIsFile
    <3>5. SubSeq(screen[u], 1, Len(screen[u])) = SubSeq(screen[v], 1, Len(screen[u]))
      <4>1. \A k \in 1..Len(screen[u]) : screen[u][k] = screen[v][k]
        BY <2>1, <3>2, <3>3, <3>4
      <4>2. QED
        BY <2>1, <3>1, <3>2, <4>1
    <3>6. QED
      BY <2>1, <3>5 DEF IsPrefix
  <2>2. \A u \in Whole : Len(screen[u]) \in Nat
    BY <1>1 DEF Inv, TypeOK
  <2>3. \A u, v \in Whole : IsPrefix(screen[u], screen[v]) \/ IsPrefix(screen[v], screen[u])
    <3>1. ASSUME NEW u \in Whole, NEW v \in Whole
          PROVE  IsPrefix(screen[u], screen[v]) \/ IsPrefix(screen[v], screen[u])
      <4>1. CASE Len(screen[u]) <= Len(screen[v])
        BY <2>1, <4>1
      <4>2. CASE Len(screen[v]) <= Len(screen[u])
        BY <2>1, <4>2
      <4>3. QED
        BY <2>2, <4>1, <4>2
    <3>2. QED
      BY <3>1
  <2>4. QED
    BY <2>3, Zenon DEF ScreensAgree
<1>2. QED
  BY <1>1, InvHolds, PTL
=============================================================================
