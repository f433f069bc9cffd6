--------------------------- MODULE DirectoryProofs ---------------------------
(***************************************************************************)
(* For every directory image, every NAME_LEN and every word: lookups find  *)
(* exactly the entry of the name, and listings deliver exactly the names.  *)
(***************************************************************************)
EXTENDS Directory, SequenceTheorems, WellFoundedInduction, TLAPS

NameOf(i) == Entry[i].name

\* A nonempty set of descriptors has a first one.
LEMMA LeastElement ==
  ASSUME NEW T, T \subseteq Nat, T # {}
  PROVE  \E x \in T : \A y \in T : x <= y
<1>1. IsWellFoundedOn(OpToRel(<, Nat), Nat)
  BY NatLessThanWellFounded
<1>2. PICK x \in T : \A y \in T : ~(<<y, x>> \in OpToRel(<, Nat))
  BY <1>1, WFMin
<1>3. \A p, q \in Nat : p < q => <<p, q>> \in OpToRel(<, Nat)
  BY DEF OpToRel
<1>4. \A y \in T : ~(y < x)
  BY <1>2, <1>3, Zenon
<1> QED BY <1>4

\* What the image assumption says of one entry.
LEMMA EntryFacts ==
  ASSUME NEW i \in 1..n_dir_entries
  PROVE  /\ n_dir_entries \in Nat
         /\ NameOf(i) \in Name
         /\ Len(NameOf(i)) \in 1..NAME_LEN
         /\ \A k \in 1..Len(NameOf(i)) : NameOf(i)[k] \in 1..255
         /\ Entry[i].filetype \in {RTC_FILE, DIR_FILE, REG_FILE}
         /\ Entry[i].inode_num \in Nat
<1>1. i \in 1..Len(Entry) /\ Entry \in Seq(Dentry)
  BY ImageAssumption DEF n_dir_entries
<1>2. Entry[i] \in Dentry
  BY <1>1, ElementOfSeq
<1>3. n_dir_entries \in Nat /\ Len(Entry[i].name) \in 1..NAME_LEN
  BY <1>1, LenProperties, ImageAssumption DEF n_dir_entries
<1>4. NameOf(i) \in Name
  BY <1>2 DEF NameOf, Dentry
<1>5. \A k \in 1..Len(NameOf(i)) : NameOf(i)[k] \in 1..255
  BY <1>4, ElementOfSeq DEF Name
<1> QED BY <1>2, <1>3, <1>4, <1>5 DEF NameOf, Dentry

\* strlen finds the first zero.
LEMMA StrlenIs ==
  ASSUME NEW s, NEW n \in Nat, NEW m \in Nat, Len(s) = m, n < m,
         s[n + 1] = 0, \A k \in 1..n : s[k] # 0
  PROVE  strlen(s) = n
<1> DEFINE P(p) == s[p + 1] = 0 /\ \A k \in 1..p : s[k] # 0
<1>1. n \in 0..(Len(s) - 1) /\ P(n)
  OBVIOUS
<1>2. ASSUME NEW p \in 0..(Len(s) - 1), P(p) PROVE p = n
  <2>1. ~(p < n)
    <3> SUFFICES ASSUME p < n PROVE FALSE
      OBVIOUS
    <3>1. p + 1 \in 1..n
      OBVIOUS
    <3> QED BY <3>1, <1>2
  <2>2. ~(n < p)
    <3> SUFFICES ASSUME n < p PROVE FALSE
      OBVIOUS
    <3>1. n + 1 \in 1..p
      OBVIOUS
    <3> QED BY <3>1, <1>2
  <2> QED BY <2>1, <2>2
<1> HIDE DEF P
<1>3. (CHOOSE p \in 0..(Len(s) - 1) : P(p)) = n
  BY <1>1, <1>2
<1> QED BY <1>3 DEF strlen, P

\* A padded name is NAME_LEN bytes.
LEMMA PaddedIs ==
  ASSUME NEW s \in Name
  PROVE  /\ Padded(s) \in [1..NAME_LEN -> 0..255]
         /\ Padded(s) \in Seq(0..255) /\ Len(Padded(s)) = NAME_LEN
         /\ \A k \in 1..NAME_LEN : Padded(s)[k] = IF k <= Len(s) THEN s[k] ELSE 0
<1>1. \A k \in 1..Len(s) : s[k] \in 1..255
  BY ElementOfSeq DEF Name
<1>2. Len(s) \in Nat /\ NAME_LEN \in Nat
  BY LenProperties, ImageAssumption DEF Name
<1>3. \A k \in 1..NAME_LEN : (IF k <= Len(s) THEN s[k] ELSE 0) \in 0..255
  BY <1>1, <1>2
<1>4. Padded(s) \in [1..NAME_LEN -> 0..255]
  BY <1>3 DEF Padded
<1>5. Padded(s) \in Seq(0..255) /\ Len(Padded(s)) = NAME_LEN
  BY <1>2, <1>4
<1> QED BY <1>4, <1>5 DEF Padded

\* The bytes of an entry as the disk holds them.
LEMMA DiskBytes ==
  ASSUME NEW i \in 1..n_dir_entries
  PROVE  /\ Len(OnDisk(i)) = NAME_LEN + 2
         /\ \A k \in 1..NAME_LEN : OnDisk(i)[k] = Padded(NameOf(i))[k]
         /\ OnDisk(i)[NAME_LEN + 1] = Entry[i].filetype
         /\ OnDisk(i)[NAME_LEN + 2] = 0
         /\ OnDisk(i) \in Seq(0..255)
<1> DEFINE A == Padded(NameOf(i))
           B == <<Entry[i].filetype, 0>>
<1>2. A \in Seq(0..255) /\ Len(A) = NAME_LEN
  BY EntryFacts, PaddedIs
<1>3. B \in Seq(0..255) /\ Len(B) = 2 /\ B[1] = Entry[i].filetype /\ B[2] = 0
  BY EntryFacts DEF RTC_FILE, DIR_FILE, REG_FILE
<1>4. OnDisk(i) = A \o B
  BY DEF OnDisk, NameOf
<1> HIDE DEF A, B
<1>5. NAME_LEN \in Nat
  BY ImageAssumption
<1>6. /\ A \o B \in Seq(0..255)
      /\ Len(A \o B) = Len(A) + Len(B)
      /\ \A k \in 1..(Len(A) + Len(B)) :
           (A \o B)[k] = IF k <= Len(A) THEN A[k] ELSE B[k - Len(A)]
  BY <1>2, <1>3, ConcatProperties
<1>7. /\ (A \o B)[NAME_LEN + 1] = B[NAME_LEN + 1 - Len(A)]
      /\ (A \o B)[NAME_LEN + 2] = B[NAME_LEN + 2 - Len(A)]
  BY <1>2, <1>3, <1>5, <1>6
<1>8. (A \o B)[NAME_LEN + 1] = Entry[i].filetype /\ (A \o B)[NAME_LEN + 2] = 0
  BY <1>2, <1>3, <1>5, <1>7
<1>9. Len(A \o B) = NAME_LEN + 2
  BY <1>2, <1>3, <1>6
<1>10. \A k \in 1..NAME_LEN : (A \o B)[k] = A[k]
  BY <1>2, <1>3, <1>5, <1>6
<1> QED BY <1>4, <1>6, <1>8, <1>9, <1>10 DEF A

\* strlen of an entry is the length of its name, or one more for a name of
\* full length whose type is not zero.
LEMMA DiskLength ==
  ASSUME NEW i \in 1..n_dir_entries
  PROVE  /\ strlen(OnDisk(i)) \in Nat
         /\ Len(NameOf(i)) < NAME_LEN => strlen(OnDisk(i)) = Len(NameOf(i))
         /\ Len(NameOf(i)) = NAME_LEN => strlen(OnDisk(i)) \in {NAME_LEN, NAME_LEN + 1}
<1> DEFINE L == Len(NameOf(i))
<1>1. /\ L \in 1..NAME_LEN /\ NAME_LEN \in Nat
      /\ \A k \in 1..L : NameOf(i)[k] \in 1..255
  BY EntryFacts, ImageAssumption
<1>2. \A k \in 1..NAME_LEN : OnDisk(i)[k] = IF k <= L THEN NameOf(i)[k] ELSE 0
  BY DiskBytes DEF Padded
<1> HIDE DEF L
<1>3. \A k \in 1..L : OnDisk(i)[k] # 0
  BY <1>1, <1>2
<1>4. CASE L < NAME_LEN
  <2>1. OnDisk(i)[L + 1] = 0
    BY <1>1, <1>2, <1>4
  <2>2. strlen(OnDisk(i)) = L
    BY <1>1, <1>3, <1>4, <2>1, DiskBytes, StrlenIs
  <2> QED BY <1>1, <1>4, <2>2 DEF L
<1>5. CASE L = NAME_LEN /\ Entry[i].filetype = 0
  <2>1. OnDisk(i)[L + 1] = 0
    BY <1>5, DiskBytes
  <2>2. strlen(OnDisk(i)) = L
    BY <1>1, <1>3, <1>5, <2>1, DiskBytes, StrlenIs
  <2> QED BY <1>1, <1>5, <2>2 DEF L
<1>6. CASE L = NAME_LEN /\ Entry[i].filetype # 0
  <2>1. \A k \in 1..(NAME_LEN + 1) : OnDisk(i)[k] # 0
    BY <1>1, <1>3, <1>6, DiskBytes
  <2>2. OnDisk(i)[NAME_LEN + 1 + 1] = 0
    BY <1>1, DiskBytes
  <2>3. strlen(OnDisk(i)) = NAME_LEN + 1
    BY <1>1, <2>1, <2>2, DiskBytes, StrlenIs
  <2> QED BY <1>1, <1>6, <2>3 DEF L
<1> QED BY <1>1, <1>4, <1>5, <1>6

\* The buffer holds the name of an entry when it begins with it and a
\* terminator follows where there is room.
Holds(buf, name) ==
  /\ \A k \in 1..Len(name) : buf[k] = name[k]
  /\ Len(name) < NAME_LEN => buf[Len(name) + 1] = 0

\* An iteration leaves the name of its entry in the buffer.
LEMMA CopyHolds ==
  ASSUME dir_it \in 1..n_dir_entries, CopyName
  PROVE  Holds(filename_buf', NameOf(dir_it))
<1> DEFINE n == strlen(OnDisk(dir_it))
           L == Len(NameOf(dir_it))
<1>1. L \in 1..NAME_LEN /\ NAME_LEN \in Nat
  BY EntryFacts, ImageAssumption
<1>2. n \in Nat /\ (L < NAME_LEN => n = L) /\ (L = NAME_LEN => n >= L)
  BY <1>1, DiskLength
<1>3. \A k \in 1..NAME_LEN : OnDisk(dir_it)[k] = IF k <= L THEN NameOf(dir_it)[k] ELSE 0
  BY DiskBytes, EntryFacts, PaddedIs
<1>4. filename_buf' = [i \in 1..NAME_LEN |->
                         IF i <= n THEN OnDisk(dir_it)[i]
                         ELSE IF i = n + 1 THEN 0 ELSE filename_buf[i]]
  BY DEF CopyName
<1> HIDE DEF n, L
<1>5. \A k \in 1..L : filename_buf'[k] = NameOf(dir_it)[k]
  BY <1>1, <1>2, <1>3, <1>4
<1>6. L < NAME_LEN => filename_buf'[L + 1] = 0
  BY <1>1, <1>2, <1>4
<1> QED BY <1>5, <1>6 DEF Holds, L

\* strncmp of the name searched for with a buffer that holds a name decides
\* whether they are equal.
LEMMA MatchExact ==
  ASSUME NEW name \in Name, NEW buf, Holds(buf, name), Len(name) <= NAME_LEN,
         fname \in Name, Len(fname) <= NAME_LEN
  PROVE  Matches(buf) <=> fname = name
<1> DEFINE s == fname \o <<0>>
           F == Len(fname)
           L == Len(name)
<1>1. F \in Nat /\ L \in Nat /\ NAME_LEN \in Nat
  BY LenProperties, ImageAssumption DEF Name
<1>2. (\A k \in 1..F : fname[k] # 0) /\ \A k \in 1..L : name[k] # 0
  <2>1. \A k \in 1..F : fname[k] \in 1..255
    BY ElementOfSeq DEF Name
  <2>2. \A k \in 1..L : name[k] \in 1..255
    BY ElementOfSeq DEF Name
  <2>3. \A b \in 1..255 : b # 0
    OBVIOUS
  <2> QED BY <2>1, <2>2, <2>3, Zenon
<1>3. fname \in Seq(0..255) /\ <<0>> \in Seq(0..255) /\ Len(<<0>>) = 1 /\ <<0>>[1] = 0
  <2>1. fname \in Seq(0..255)
    BY SeqMonotonic DEF Name
  <2> QED BY <2>1
<1>4. \A k \in 1..(Len(fname) + Len(<<0>>)) :
        (fname \o <<0>>)[k] = IF k <= Len(fname) THEN fname[k] ELSE <<0>>[k - Len(fname)]
  BY <1>3, ConcatProperties
<1>5. (\A k \in 1..F : s[k] = fname[k]) /\ s[F + 1] = 0
  BY <1>1, <1>3, <1>4
<1>6. Matches(buf) <=> \A i \in 1..NAME_LEN : (\A k \in 1..(i - 1) : s[k] # 0) => s[i] = buf[i]
  BY DEF Matches, SameString
<1>7. (\A k \in 1..L : buf[k] = name[k]) /\ (L < NAME_LEN => buf[L + 1] = 0)
  BY DEF Holds
<1>8. F <= NAME_LEN /\ L <= NAME_LEN
  OBVIOUS
<1> HIDE DEF s, F, L
<1>9. ASSUME Matches(buf) PROVE fname = name
  <2>1. \A i \in 1..F : fname[i] = buf[i]
    <3> SUFFICES ASSUME NEW i \in 1..F PROVE fname[i] = buf[i]
      OBVIOUS
    <3>1. \A k \in 1..(i - 1) : k \in 1..F
      BY <1>1
    <3>2. i \in 1..NAME_LEN
      BY <1>1, <1>8
    <3>3. \A k \in 1..(i - 1) : s[k] # 0
      BY <3>1, <1>2, <1>5, Zenon
    <3> QED BY <3>2, <3>3, <1>5, <1>6, <1>9
  <2>2. F < NAME_LEN => buf[F + 1] = 0
    <3> SUFFICES ASSUME F < NAME_LEN, NEW i, i = F + 1 PROVE buf[i] = 0
      OBVIOUS
    <3>1. i \in 1..NAME_LEN /\ \A k \in 1..(i - 1) : k \in 1..F
      BY <1>1
    <3>2. \A k \in 1..(i - 1) : s[k] # 0
      BY <3>1, <1>2, <1>5, Zenon
    <3> QED BY <3>1, <3>2, <1>5, <1>6, <1>9
  <2>3. ~(F < L)
    <3> SUFFICES ASSUME F < L PROVE FALSE
      OBVIOUS
    <3>1. F + 1 \in 1..L
      BY <1>1
    <3>2. buf[F + 1] = name[F + 1] /\ name[F + 1] # 0
      BY <3>1, <1>2, <1>7, Zenon
    <3> QED BY <3>2, <2>2, <1>1, <1>8
  <2>4. ~(L < F)
    <3> SUFFICES ASSUME L < F PROVE FALSE
      OBVIOUS
    <3>1. L + 1 \in 1..F /\ L < NAME_LEN
      BY <1>1, <1>8
    <3>2. buf[L + 1] = fname[L + 1] /\ fname[L + 1] # 0
      BY <3>1, <1>2, <2>1, Zenon
    <3> QED BY <3>1, <3>2, <1>7
  <2>5. F = L
    BY <2>3, <2>4, <1>1
  <2>6. \A i \in 1..F : fname[i] = name[i]
    BY <2>1, <2>5, <1>7
  <2>7. Len(fname) = Len(name) /\ \A i \in 1..Len(fname) : fname[i] = name[i]
    BY <2>5, <2>6 DEF F, L
  <2>8. fname \in Seq(1..255) /\ name \in Seq(1..255)
    BY DEF Name
  <2> QED BY <2>7, <2>8, SeqEqual
<1>10. ASSUME fname = name PROVE Matches(buf)
  <2>1. F = L
    BY <1>10 DEF F, L
  <2> SUFFICES ASSUME NEW i \in 1..NAME_LEN, \A k \in 1..(i - 1) : s[k] # 0
               PROVE  s[i] = buf[i]
    BY <1>6
  <2>2. ~(i > F + 1)
    <3> SUFFICES ASSUME i > F + 1 PROVE FALSE
      OBVIOUS
    <3>1. F + 1 \in 1..(i - 1)
      BY <1>1
    <3> QED BY <3>1, <1>5
  <2>3. CASE i <= F
    <3>1. i \in 1..F /\ i \in 1..L
      BY <2>1, <2>3
    <3> QED BY <3>1, <1>5, <1>7, <1>10
  <2>4. CASE i = F + 1
    <3>1. L < NAME_LEN
      BY <2>1, <2>4, <1>1
    <3> QED BY <3>1, <2>1, <2>4, <1>5, <1>7
  <2> QED BY <2>2, <2>3, <2>4, <1>1
<1> QED BY <1>9, <1>10

-----------------------------------------------------------------------------
\* read_dentry_by_index delivers the padded name of its entry.
LEMMA NameByIndexIs ==
  ASSUME NEW index \in Nat, index < n_dir_entries
  PROVE  NameByIndex(index) = Padded(NameOf(index + 1))
<1> DEFINE i == index + 1
           n == strlen(OnDisk(i))
           L == Len(NameOf(i))
           t == SubSeq(OnDisk(i), 1, n)
<1>1. i \in 1..n_dir_entries
  BY LenProperties, ImageAssumption DEF n_dir_entries
<1>2. L \in 1..NAME_LEN /\ NAME_LEN \in Nat /\ NameOf(i) \in Name
  BY <1>1, EntryFacts, ImageAssumption
<1>3. n \in Nat /\ n <= NAME_LEN + 1 /\ (L < NAME_LEN => n = L) /\ (L = NAME_LEN => n >= L)
  BY <1>1, <1>2, DiskLength
<1>4. OnDisk(i) \in Seq(0..255) /\ Len(OnDisk(i)) = NAME_LEN + 2
  BY <1>1, DiskBytes
<1>5. \A k \in 1..NAME_LEN : OnDisk(i)[k] = IF k <= L THEN NameOf(i)[k] ELSE 0
  BY <1>1, <1>2, DiskBytes, PaddedIs
<1>6. NameByIndex(index) = [k \in 1..NAME_LEN |-> IF k <= Len(t) THEN t[k] ELSE 0]
  BY DEF NameByIndex, Padded
<1>7. Padded(NameOf(index + 1)) = [k \in 1..NAME_LEN |-> IF k <= L THEN NameOf(i)[k] ELSE 0]
  BY DEF Padded
<1> HIDE DEF i, n, L
<1>8. Len(t) = n /\ \A k \in 1..n : t[k] = OnDisk(i)[k]
  <2>0. \A k \in 1..Len(OnDisk(i)) : OnDisk(i)[k] \in 0..255
    BY <1>4, ElementOfSeq
  <2>1. \A k \in 1..n : OnDisk(i)[k] \in 0..255
    BY <1>2, <1>3, <1>4, <2>0
  <2>2. /\ Len(SubSeq(OnDisk(i), 1, n)) = IF 1 <= n THEN n - 1 + 1 ELSE 0
        /\ \A k \in 1..(n - 1 + 1) : SubSeq(OnDisk(i), 1, n)[k] = OnDisk(i)[1 + k - 1]
    BY <1>3, <2>1, SubSeqProperties
  <2>3. Len(t) = n
    BY <2>2, <1>3
  <2>4. \A k \in 1..n : k \in 1..(n - 1 + 1) /\ 1 + k - 1 = k
    BY <1>3
  <2>5. \A k \in 1..n : t[k] = OnDisk(i)[k]
    BY <2>2, <2>4
  <2> QED BY <2>3, <2>5
<1> HIDE DEF t
<1>9. \A k \in 1..NAME_LEN : (IF k <= Len(t) THEN t[k] ELSE 0)
                              = IF k <= L THEN NameOf(i)[k] ELSE 0
  BY <1>2, <1>3, <1>5, <1>8
<1> QED BY <1>6, <1>7, <1>9

\* dir_read stores the name up to nbytes, then a terminator where the name is
\* whole.
LEMMA StoredExact ==
  ASSUME NEW name \in Name, Len(name) \in 1..NAME_LEN, NEW nbytes \in Nat
  PROVE  LET m == Least(nbytes, Len(name))
             stored == Stored(Padded(name), nbytes)
         IN /\ strlen(Padded(name) \o <<0>>) = Len(name)
            /\ SubSeq(stored, 1, m) = SubSeq(name, 1, m)
            /\ Len(stored) <= nbytes + 1
            /\ Len(stored) > m => stored[m + 1] = 0
<1> DEFINE L == Len(name)
           P == Padded(name)
           m == Least(nbytes, L)
           u == SubSeq(P, 1, m)
           v == IF nbytes >= L THEN <<0>> ELSE <<>>
<1>1. L \in 1..NAME_LEN /\ NAME_LEN \in Nat
  BY ImageAssumption
<1>2. P \in Seq(0..255) /\ Len(P) = NAME_LEN
  BY PaddedIs
<1>3. \A k \in 1..NAME_LEN : P[k] = IF k <= L THEN name[k] ELSE 0
  BY PaddedIs
<1>4. \A k \in 1..L : name[k] \in 1..255
  BY ElementOfSeq DEF Name
<1>5. <<0>> \in Seq(0..255) /\ Len(<<0>>) = 1 /\ <<0>>[1] = 0
  OBVIOUS
<1>6. Stored(P, nbytes) = LET len == strlen(P \o <<0>>)
                          IN SubSeq(P, 1, Least(nbytes, len))
                               \o (IF nbytes >= len THEN <<0>> ELSE <<>>)
  BY DEF Stored
<1> HIDE DEF L, P
<1>7. strlen(P \o <<0>>) = L
  <2> DEFINE q == P \o <<0>>
  <2>1. /\ Len(q) = Len(P) + Len(<<0>>)
        /\ \A k \in 1..(Len(P) + Len(<<0>>)) :
             q[k] = IF k <= Len(P) THEN P[k] ELSE <<0>>[k - Len(P)]
    BY <1>2, <1>5, ConcatProperties
  <2> HIDE DEF q
  <2>2. Len(q) = NAME_LEN + 1
    BY <2>1, <1>2, <1>5
  <2>3. \A k \in 1..L : q[k] # 0
    <3>1. \A k \in 1..L : q[k] = name[k]
      BY <2>1, <1>1, <1>2, <1>3, <1>5
    <3>2. \A b \in 1..255 : b # 0
      OBVIOUS
    <3> QED BY <3>1, <3>2, <1>4, Zenon
  <2>4. q[L + 1] = 0
    BY <2>1, <1>1, <1>2, <1>3, <1>5
  <2>5. strlen(q) = L
    BY <2>2, <2>3, <2>4, <1>1, StrlenIs
  <2> QED BY <2>5 DEF q
<1>8. Stored(P, nbytes) = u \o v
  BY <1>6, <1>7
<1>9. m \in 0..L /\ m <= nbytes /\ (nbytes >= L => m = L)
  BY <1>1 DEF Least
<1> HIDE DEF m
<1>10. u \in Seq(0..255) /\ Len(u) = m /\ \A k \in 1..m : u[k] = name[k]
  <2>0. \A k \in 1..Len(P) : P[k] \in 0..255
    BY <1>2, ElementOfSeq
  <2>1. \A k \in 1..m : P[k] \in 0..255
    BY <1>1, <1>2, <1>9, <2>0
  <2>2. /\ SubSeq(P, 1, m) \in Seq(0..255)
        /\ Len(SubSeq(P, 1, m)) = IF 1 <= m THEN m - 1 + 1 ELSE 0
        /\ \A k \in 1..(m - 1 + 1) : SubSeq(P, 1, m)[k] = P[1 + k - 1]
    BY <1>9, <1>1, <2>1, SubSeqProperties
  <2>3. Len(u) = m
    BY <2>2, <1>9, <1>1
  <2>4. \A k \in 1..m : k \in 1..(m - 1 + 1) /\ 1 + k - 1 = k
    BY <1>9, <1>1
  <2>5. \A k \in 1..m : P[k] = name[k]
    BY <1>1, <1>3, <1>9
  <2> QED BY <2>2, <2>3, <2>4, <2>5
<1>11. v \in Seq(0..255) /\ Len(v) = (IF nbytes >= L THEN 1 ELSE 0)
       /\ (nbytes >= L => v[1] = 0)
  BY <1>5, EmptySeq
<1> HIDE DEF u, v
<1> DEFINE w == u \o v
<1>12. /\ w \in Seq(0..255)
       /\ Len(w) = Len(u) + Len(v)
       /\ \A k \in 1..(Len(u) + Len(v)) : w[k] = IF k <= Len(u) THEN u[k] ELSE v[k - Len(u)]
  <2>1. u \in Seq(0..255) /\ v \in Seq(0..255)
    BY <1>10, <1>11
  <2> QED BY <2>1, ConcatProperties
<1> HIDE DEF w
<1>13. Len(w) <= nbytes + 1
  BY <1>1, <1>9, <1>10, <1>11, <1>12
<1>14. Len(w) > m => w[m + 1] = 0
  <2> SUFFICES ASSUME Len(w) > m PROVE w[m + 1] = 0
    OBVIOUS
  <2>1. nbytes >= L /\ Len(v) = 1
    BY <1>1, <1>9, <1>10, <1>11, <1>12
  <2>2. w[m + 1] = v[m + 1 - Len(u)] /\ m + 1 - Len(u) = 1
    BY <2>1, <1>1, <1>9, <1>10, <1>12
  <2> QED BY <2>1, <2>2, <1>11
<1>15. SubSeq(w, 1, m) = SubSeq(name, 1, m)
  <2>1. \A k \in 1..m : w[k] = name[k] /\ name[k] \in 0..255
    BY <1>1, <1>4, <1>9, <1>10, <1>11, <1>12
  <2> QED BY <2>1, <1>1, <1>9
<1> QED BY <1>7, <1>8, <1>13, <1>14, <1>15 DEF w, P, L, m

-----------------------------------------------------------------------------
\* The word of a command, and the name that sys_execute_c takes from it: a
\* word that is too long stays too long.
LEMMA WordIs ==
  ASSUME NEW c \in Name
  PROVE  LET word == SubSeq(c, 1, WordLen(c))
         IN /\ word \in Name /\ FileName(c) \in Name
            /\ Len(word) \in Nat
            /\ Len(FileName(c)) > NAME_LEN => Len(word) > NAME_LEN
            /\ ~(Len(FileName(c)) > NAME_LEN) => FileName(c) = word
<1> DEFINE P(n) == /\ \A k \in 1..n : c[k] \notin Separator
                   /\ n < Len(c) => c[n + 1] \in Separator
           T == {k \in 1..Len(c) : c[k] \in Separator}
           W == WordLen(c)
<1>1. Len(c) \in Nat /\ \A k \in 1..Len(c) : c[k] \in 1..255
  BY LenProperties, ElementOfSeq DEF Name
<1>2. \E n \in 0..Len(c) : P(n)
  <2>1. CASE T = {}
    <3>1. Len(c) \in 0..Len(c) /\ P(Len(c))
      BY <1>1, <2>1
    <3> QED BY <3>1
  <2>2. CASE T # {}
    <3>1. T \subseteq Nat
      BY <1>1
    <3>2. PICK x \in T : \A y \in T : x <= y
      BY <2>2, <3>1, LeastElement
    <3>3. \A k \in 1..(x - 1) : c[k] \notin Separator
      BY <1>1, <3>2
    <3>4. x - 1 \in 0..Len(c) /\ c[x - 1 + 1] \in Separator
      BY <1>1
    <3> QED BY <3>3, <3>4
  <2> QED BY <2>1, <2>2
<1>3. W \in 0..Len(c)
  <2>1. WordLen(c) = CHOOSE n \in 0..Len(c) : P(n)
    BY DEF WordLen
  <2> HIDE DEF P
  <2> QED BY <1>2, <2>1
<1>4. FileName(c) = SubSeq(c, 1, IF W > NAME_LEN + 1 THEN NAME_LEN + 1 ELSE W)
  BY DEF FileName
<1> HIDE DEF W
<1>5. NAME_LEN \in Nat
  BY ImageAssumption
<1>6. ASSUME NEW n \in 0..W
      PROVE  SubSeq(c, 1, n) \in Seq(1..255) /\ Len(SubSeq(c, 1, n)) = n
  <2>1. \A k \in 1..n : c[k] \in 1..255
    BY <1>1, <1>3
  <2>2. /\ SubSeq(c, 1, n) \in Seq(1..255)
        /\ Len(SubSeq(c, 1, n)) = IF 1 <= n THEN n - 1 + 1 ELSE 0
    BY <1>1, <1>3, <2>1, SubSeqProperties
  <2> QED BY <1>1, <1>3, <2>2
<1>7. SubSeq(c, 1, W) \in Seq(1..255) /\ Len(SubSeq(c, 1, W)) = W
  BY <1>1, <1>3, <1>6
<1>8. CASE W > NAME_LEN + 1
  <2>1. FileName(c) \in Seq(1..255) /\ Len(FileName(c)) = NAME_LEN + 1
    BY <1>1, <1>3, <1>4, <1>5, <1>6, <1>8
  <2> QED BY <1>1, <1>3, <1>5, <1>7, <1>8, <2>1 DEF Name, W
<1>9. CASE ~(W > NAME_LEN + 1)
  <2>1. FileName(c) = SubSeq(c, 1, W)
    BY <1>4, <1>9
  <2> QED BY <1>1, <1>3, <1>5, <1>7, <2>1 DEF Name, W
<1> QED BY <1>8, <1>9

\* A name too long for the directory is not in it.
LEMMA TooLong ==
  ASSUME NEW word, Len(word) \in Nat, Len(word) > NAME_LEN
  PROVE  word \notin Names
<1>1. \A i \in 1..n_dir_entries : Len(Entry[i].name) <= NAME_LEN
  BY ImageAssumption
<1>2. NAME_LEN \in Nat
  BY ImageAssumption
<1> QED BY <1>1, <1>2 DEF Names

\* Names are unique, so the type of a name is that of its entry.
LEMMA TypeIs ==
  ASSUME NEW i \in 1..n_dir_entries
  PROVE  NameOf(i) \in Names /\ TypeOfName(NameOf(i)) = Entry[i].filetype
<1> DEFINE P(t) == \E j \in 1..n_dir_entries : Entry[j].name = NameOf(i) /\ Entry[j].filetype = t
<1>1. Entry[i].filetype \in 0..2
  BY EntryFacts DEF RTC_FILE, DIR_FILE, REG_FILE
<1>2. P(Entry[i].filetype)
  BY DEF NameOf
<1>3. \A t : P(t) => t = Entry[i].filetype
  BY ImageAssumption DEF NameOf
<1>4. TypeOfName(NameOf(i)) = CHOOSE t \in 0..2 : P(t)
  BY DEF TypeOfName
<1> HIDE DEF P
<1>5. TypeOfName(NameOf(i)) = Entry[i].filetype
  BY <1>1, <1>2, <1>3, <1>4
<1>6. NameOf(i) \in Names
  BY DEF Names, NameOf
<1> QED BY <1>5, <1>6

-----------------------------------------------------------------------------
(***************************************************************************)
(* The inductive invariant.  A search has passed no entry of the name it   *)
(* looks for; once it hits, the buffer holds that name; and the driver's   *)
(* search looks for a name the first one found, with a descriptor free.    *)
(***************************************************************************)
Delivered(i) == [filetype |-> Entry[i].filetype, inode_num |-> InodeOf(i)]
Position == 0..n_dir_entries
Desc == [kind : {"free", "rtc", "dir", "file"}, inode : Nat, file_pos : Position]

Types ==
  /\ stage \in {"idle", "open", "driver", "execute"}
  /\ hit \in BOOLEAN
  /\ dir_it \in 1..(n_dir_entries + 1)
  /\ desc \in [Fd -> Desc]

SearchState ==
  /\ hit => stage # "idle"
  /\ stage # "idle" =>
       /\ fname \in Name /\ Len(fname) <= NAME_LEN /\ asked = fname
       /\ \A j \in 1..(dir_it - 1) : NameOf(j) # fname
  /\ hit => /\ dir_it \in 1..n_dir_entries
            /\ NameOf(dir_it) = fname
            /\ Holds(filename_buf, fname)

DriverState ==
  stage = "driver" =>
    /\ \E i \in 1..n_dir_entries : NameOf(i) = fname /\ dentry = Delivered(i)
    /\ dentry.filetype # RTC_FILE
    /\ \E i \in Fd : FirstFree(i)

IInv == Types /\ SearchState /\ DriverState /\ LookupExact

-----------------------------------------------------------------------------
\* Only open and execute say something of their result.
LEMMA OtherResult ==
  ASSUME result' = [NoResult EXCEPT !.op = "close"] \/ result' = NoResult
  PROVE  LookupExact'
<1>1. result'.op \in {"close", "none"}
  BY DEF NoResult
<1> QED BY <1>1 DEF LookupExact

\* sys_open_c and sys_execute_c, up to the start of the search.
LEMMA StartKeeps ==
  ASSUME IInv, NEW who \in {"open", "execute"}, NEW word \in Name, NEW name \in Name,
         stage = "idle", Len(word) \in Nat,
         Len(name) > NAME_LEN => Len(word) > NAME_LEN,
         ~(Len(name) > NAME_LEN) => name = word,
         StartSearch(who, word, name),
         UNCHANGED <<hit, filename_buf, screen_x, open_dentry, desc>>
  PROVE  IInv'
<1>1. n_dir_entries \in Nat /\ NAME_LEN \in Nat
  BY LenProperties, ImageAssumption DEF n_dir_entries
<1>2. dir_it' = 1 /\ asked' = word /\ ~hit' /\ desc' = desc
  BY DEF StartSearch, IInv, SearchState
<1>3. stage' \in {"idle", "open", "execute"}
  BY DEF StartSearch
<1>4. Types'
  BY <1>1, <1>2, <1>3 DEF IInv, Types
<1>5. CASE Len(name) > NAME_LEN
  <2>1. stage' = "idle" /\ result' = [NoResult EXCEPT !.op = who, !.value = -1]
    BY <1>5 DEF StartSearch
  <2>2. result'.op = who /\ result'.value = -1
    BY <2>1 DEF NoResult
  <2>3. asked' \notin Names
    BY <1>2, <1>5, TooLong
  <2>4. LookupExact'
    BY <2>2, <2>3 DEF LookupExact
  <2>5. SearchState' /\ DriverState'
    BY <1>2, <2>1 DEF SearchState, DriverState
  <2> QED BY <1>4, <2>4, <2>5 DEF IInv
<1>6. CASE ~(Len(name) > NAME_LEN)
  <2>1. stage' = who /\ fname' = name /\ result' = NoResult
    BY <1>6 DEF StartSearch
  <2>2. LookupExact'
    BY <2>1, OtherResult
  <2>3. Len(name) \in Nat
    BY <1>6
  <2>4. \A j \in 1..(dir_it' - 1) : FALSE
    BY <1>2
  <2>5. SearchState' /\ DriverState'
    BY <1>1, <1>2, <1>6, <2>1, <2>3, <2>4 DEF SearchState, DriverState
  <2> QED BY <1>4, <2>2, <2>5 DEF IInv
<1> QED BY <1>5, <1>6

\* One iteration of the loop.
LEMMA ScanKeeps ==
  ASSUME IInv, Scan
  PROVE  IInv'
<1>1. n_dir_entries \in Nat
  BY LenProperties, ImageAssumption DEF n_dir_entries
<1>2. /\ stage # "idle" /\ ~hit /\ CopyName
      /\ UNCHANGED <<stage, fname, asked, dentry, open_dentry, desc, result>>
  BY DEF Scan
<1>3. dir_it \in 1..n_dir_entries
  BY <1>1 DEF Scan, IInv, Types
<1>4. fname \in Name /\ Len(fname) <= NAME_LEN /\ asked = fname
      /\ \A j \in 1..(dir_it - 1) : NameOf(j) # fname
  BY <1>2 DEF IInv, SearchState
<1>5. Holds(filename_buf', NameOf(dir_it))
  BY <1>2, <1>3, CopyHolds
<1>6. NameOf(dir_it) \in Name /\ Len(NameOf(dir_it)) <= NAME_LEN
  BY <1>3, EntryFacts, ImageAssumption
<1>7. Matches(filename_buf') <=> fname = NameOf(dir_it)
  BY <1>4, <1>5, <1>6, MatchExact
<1>8. LookupExact' /\ DriverState'
  BY <1>2 DEF IInv, LookupExact, DriverState, FirstFree
<1>9. CASE Matches(filename_buf')
  <2>1. hit' /\ dir_it' = dir_it
    BY <1>9 DEF Scan
  <2>2. Types'
    BY <1>2, <2>1 DEF IInv, Types
  <2>3. fname = NameOf(dir_it)
    BY <1>7, <1>9
  <2>4. NameOf(dir_it') = NameOf(dir_it)
    BY <2>1 DEF NameOf
  <2>5. SearchState'
    BY <1>2, <1>3, <1>4, <1>5, <2>1, <2>3, <2>4 DEF SearchState
  <2> QED BY <1>8, <2>2, <2>5 DEF IInv
<1>10. CASE ~Matches(filename_buf')
  <2>1. ~hit' /\ dir_it' = dir_it + 1
    BY <1>2, <1>10 DEF Scan
  <2>2. dir_it' \in 1..(n_dir_entries + 1)
    BY <1>1, <1>3, <2>1
  <2>3. hit' = hit
    BY <1>10 DEF Scan
  <2>4. Types'
    BY <1>2, <2>2, <2>3 DEF IInv, Types
  <2>5. \A j \in 1..(dir_it' - 1) : NameOf(j) # fname
    BY <1>3, <1>4, <1>7, <1>10, <2>1
  <2>6. SearchState'
    BY <1>2, <1>4, <2>1, <2>5 DEF SearchState
  <2> QED BY <1>8, <2>4, <2>6 DEF IInv
<1> QED BY <1>9, <1>10

\* If no descriptor is the first free one, none is free.
LEMMA NoneFree ==
  ASSUME \A i \in Fd : ~FirstFree(i)
  PROVE  \A fd \in Fd : desc[fd].kind # "free"
<1> DEFINE T == {i \in Fd : desc[i].kind = "free"}
<1> SUFFICES ASSUME T # {} PROVE FALSE
  OBVIOUS
<1>1. T \subseteq Nat
  BY ArgumentAssumption
<1>2. PICK x \in T : \A y \in T : x <= y
  BY <1>1, LeastElement
<1>3. \A k \in Fd : k < x => desc[k].kind # "free"
  BY <1>1, <1>2, ArgumentAssumption
<1>4. FirstFree(x)
  BY <1>2, <1>3 DEF FirstFree
<1> QED BY <1>4

\* What is known when a search has hit.
LEMMA AtHit ==
  ASSUME IInv, hit
  PROVE  /\ dir_it \in 1..n_dir_entries
         /\ asked = NameOf(dir_it) /\ fname = NameOf(dir_it)
         /\ Entry[dir_it].filetype \in {RTC_FILE, DIR_FILE, REG_FILE}
         /\ InodeOf(dir_it) \in Nat
         /\ asked \in Names
         /\ TypeOfName(asked) = Entry[dir_it].filetype
         /\ \A d : d.filetype = Entry[dir_it].filetype /\ d.inode_num = InodeOf(dir_it)
                     => IsEntry(asked, d)
<1>1. /\ dir_it \in 1..n_dir_entries
      /\ asked = NameOf(dir_it) /\ fname = NameOf(dir_it)
  BY DEF IInv, SearchState
<1>2. Entry[dir_it].filetype \in {RTC_FILE, DIR_FILE, REG_FILE} /\ InodeOf(dir_it) \in Nat
  BY <1>1, EntryFacts DEF InodeOf
<1>3. asked \in Names /\ TypeOfName(asked) = Entry[dir_it].filetype
  BY <1>1, TypeIs
<1>4. \A d : d.filetype = Entry[dir_it].filetype /\ d.inode_num = InodeOf(dir_it)
                     => IsEntry(asked, d)
  BY <1>1 DEF IsEntry, NameOf
<1> QED BY <1>1, <1>2, <1>3, <1>4

\* sys_open_c after its search.
LEMMA OpenFoundKeeps ==
  ASSUME IInv, OpenFound
  PROVE  IInv'
<1>1. /\ stage = "open" /\ hit /\ dentry' = Delivered(dir_it)
      /\ UNCHANGED <<fname, asked, filename_buf, screen_x>>
  BY DEF OpenFound, Delivered
<1>2. /\ dir_it \in 1..n_dir_entries
      /\ asked = NameOf(dir_it) /\ fname = NameOf(dir_it)
      /\ \A d : d.filetype = Entry[dir_it].filetype /\ d.inode_num = InodeOf(dir_it)
                  => IsEntry(asked, d)
  BY <1>1, AtHit
<1>3. dentry'.filetype = Entry[dir_it].filetype /\ dentry'.inode_num = InodeOf(dir_it)
  BY <1>1 DEF Delivered
<1>4. n_dir_entries \in Nat /\ 0 \in Position
  BY LenProperties, ImageAssumption DEF n_dir_entries, Position
<1>5. desc \in [Fd -> Desc] /\ dir_it \in 1..(n_dir_entries + 1)
  BY DEF IInv, Types
<1>6. CASE /\ \A i \in Fd : ~FirstFree(i)
           /\ Finish("open", -1, dentry')
           /\ UNCHANGED <<dir_it, desc>>
  <2>1. stage' = "idle" /\ hit' = FALSE /\ result'.op = "open" /\ result'.value = -1
    BY <1>6 DEF Finish, NoResult
  <2>2. \A fd \in Fd : desc'[fd].kind # "free"
    BY <1>6, NoneFree
  <2>3. LookupExact'
    BY <2>1, <2>2 DEF LookupExact
  <2>4. Types' /\ SearchState' /\ DriverState'
    BY <1>5, <1>6, <2>1 DEF Types, SearchState, DriverState
  <2> QED BY <2>3, <2>4 DEF IInv
<1>7. CASE /\ dentry'.filetype = RTC_FILE
           /\ \E i \in Fd : /\ FirstFree(i)
                            /\ desc' = [desc EXCEPT ![i] = [Free EXCEPT !.kind = "rtc"]]
                            /\ Finish("open", i, dentry')
           /\ UNCHANGED dir_it
  <2>1. PICK i \in Fd : /\ desc' = [desc EXCEPT ![i] = [Free EXCEPT !.kind = "rtc"]]
                         /\ Finish("open", i, dentry')
    BY <1>7
  <2>2. stage' = "idle" /\ hit' = FALSE /\ result'.op = "open" /\ result'.value = i
    BY <2>1 DEF Finish, NoResult
  <2>3. result'.filetype = dentry'.filetype /\ result'.inode_num = dentry'.inode_num
    BY <2>1 DEF Finish, NoResult
  <2>4. IsEntry(asked', result')
    <3>1. IsEntry(asked, result')
      BY <1>2, <1>3, <2>3
    <3> QED BY <1>1, <3>1 DEF IsEntry
  <2>5. dentry'.inode_num = 0
    BY <1>3, <1>7 DEF InodeOf, RTC_FILE, REG_FILE
  <2>6. desc'[i] = [kind |-> "rtc", inode |-> 0, file_pos |-> 0]
    BY <1>5, <2>1 DEF Free
  <2>7. [kind |-> "rtc", inode |-> 0, file_pos |-> 0] \in Desc
    BY <1>4 DEF Desc
  <2>8. desc' \in [Fd -> Desc]
    BY <1>5, <2>1, <2>7 DEF Free
  <2>9. i # -1
    BY ArgumentAssumption
  <2>10. LookupExact'
    BY <1>7, <2>2, <2>4, <2>5, <2>6, <2>9 DEF LookupExact
  <2>11. Types' /\ SearchState' /\ DriverState'
    BY <1>5, <1>7, <2>2, <2>8 DEF Types, SearchState, DriverState
  <2> QED BY <2>10, <2>11 DEF IInv
<1>8. CASE /\ dentry'.filetype # RTC_FILE
           /\ \E i \in Fd : FirstFree(i)
           /\ stage' = "driver" /\ hit' = FALSE /\ dir_it' = 1
           /\ UNCHANGED <<desc, result>>
  <2>1. \E i \in Fd : FirstFree(i)'
    BY <1>8 DEF FirstFree
  <2>2. NameOf(dir_it) = fname' /\ dentry' = Delivered(dir_it)
    BY <1>1, <1>2
  <2>3. DriverState'
    <3>1. \E j \in 1..n_dir_entries : NameOf(j) = fname' /\ dentry' = Delivered(j)
      BY <1>2, <2>2
    <3> QED BY <1>8, <2>1, <3>1 DEF DriverState
  <2>4. \A j \in 1..(dir_it' - 1) : FALSE
    BY <1>8
  <2>5. fname \in Name /\ Len(fname) <= NAME_LEN
    BY <1>1 DEF IInv, SearchState
  <2>6. SearchState'
    BY <1>1, <1>2, <1>8, <2>4, <2>5 DEF SearchState
  <2>7. Types'
    <3>1. dir_it' \in 1..(n_dir_entries + 1)
      BY <1>4, <1>8
    <3> QED BY <1>5, <1>8, <3>1 DEF Types
  <2>8. LookupExact'
    BY <1>8 DEF IInv, LookupExact
  <2> QED BY <2>3, <2>6, <2>7, <2>8 DEF IInv
<1> QED BY <1>6, <1>7, <1>8 DEF OpenFound

\* dir_open and file_open after their search: it found the same entry.
LEMMA DriverFoundKeeps ==
  ASSUME IInv, DriverFound
  PROVE  IInv'
<1> DEFINE e == Entry[dir_it]
<1>1. /\ stage = "driver" /\ hit /\ open_dentry' = Filled
      /\ UNCHANGED <<fname, asked, dir_it, dentry, filename_buf, screen_x>>
  BY DEF DriverFound
<1>2. /\ dir_it \in 1..n_dir_entries
      /\ asked = NameOf(dir_it) /\ fname = NameOf(dir_it)
      /\ e.filetype \in {RTC_FILE, DIR_FILE, REG_FILE} /\ InodeOf(dir_it) \in Nat
      /\ \A d : d.filetype = e.filetype /\ d.inode_num = InodeOf(dir_it) => IsEntry(asked, d)
  BY <1>1, AtHit
<1>3. dentry = Delivered(dir_it) /\ dentry.filetype # RTC_FILE
  <2>1. PICK i \in 1..n_dir_entries : NameOf(i) = fname /\ dentry = Delivered(i)
    BY <1>1 DEF IInv, DriverState
  <2>2. i = dir_it
    BY <1>2, <2>1, ImageAssumption DEF NameOf
  <2>3. dentry.filetype # RTC_FILE
    BY <1>1 DEF IInv, DriverState
  <2> QED BY <2>1, <2>2, <2>3
<1>4. dentry.filetype = e.filetype /\ dentry.inode_num = InodeOf(dir_it)
  BY <1>3 DEF Delivered
<1>5. open_dentry'.filetype = e.filetype /\ open_dentry'.inode_num = InodeOf(dir_it)
  BY <1>1 DEF Filled
<1>6. open_dentry'.filename = Padded(asked)
  <2> DEFINE n == strlen(OnDisk(dir_it))
             L == Len(asked)
  <2>1. open_dentry'.filename =
          [i \in 1..NAME_LEN |-> IF i <= n THEN CopiedName(n)[i] ELSE 0]
    BY <1>1 DEF Filled
  <2>2. Padded(asked) = [i \in 1..NAME_LEN |-> IF i <= L THEN asked[i] ELSE 0]
    BY DEF Padded
  <2>3. L \in 1..NAME_LEN /\ NAME_LEN \in Nat
    BY <1>2, EntryFacts, ImageAssumption
  <2>4. n \in Nat /\ (L < NAME_LEN => n = L) /\ (L = NAME_LEN => n >= L)
    BY <1>2, <2>3, DiskLength
  <2>5. \A k \in 1..L : filename_buf[k] = asked[k]
    BY <1>1, <1>2 DEF IInv, SearchState, Holds
  <2>6. \A i \in 1..NAME_LEN : i <= n => CopiedName(n)[i] = filename_buf[i]
    BY DEF CopiedName
  <2> HIDE DEF n, L
  <2>7. \A i \in 1..NAME_LEN : (IF i <= n THEN CopiedName(n)[i] ELSE 0)
                               = IF i <= L THEN asked[i] ELSE 0
    BY <2>3, <2>4, <2>5, <2>6
  <2> QED BY <2>1, <2>2, <2>7
<1>7. PICK i \in Fd : /\ desc' = [desc EXCEPT ![i] = [kind |-> KindOf(dentry.filetype),
                                                      inode |-> open_dentry'.inode_num,
                                                      file_pos |-> 0]]
                      /\ Finish("open", i, open_dentry')
  BY <1>4, <1>5 DEF DriverFound
<1>8. stage' = "idle" /\ hit' = FALSE /\ result'.op = "open" /\ result'.value = i
  BY <1>7 DEF Finish, NoResult
<1>9. result'.filetype = e.filetype /\ result'.inode_num = InodeOf(dir_it)
  BY <1>5, <1>7 DEF Finish, NoResult
<1>10. IsEntry(asked', result') /\ IsEntry(asked', open_dentry')
  <2>1. IsEntry(asked, result') /\ IsEntry(asked, open_dentry')
    BY <1>2, <1>5, <1>9
  <2> QED BY <1>1, <2>1 DEF IsEntry
<1>11. desc \in [Fd -> Desc] /\ 0 \in Position
  BY LenProperties, ImageAssumption DEF IInv, Types, n_dir_entries, Position
<1>12. desc'[i] = [kind |-> KindOf(dentry'.filetype), inode |-> dentry'.inode_num, file_pos |-> 0]
  BY <1>1, <1>4, <1>5, <1>7, <1>11
<1>13. [kind |-> KindOf(dentry.filetype), inode |-> open_dentry'.inode_num,
        file_pos |-> 0] \in Desc
  BY <1>2, <1>5, <1>11 DEF Desc, KindOf
<1>14. desc' \in [Fd -> Desc]
  BY <1>7, <1>11, <1>13
<1>15. i # -1
  BY ArgumentAssumption
<1>16. dentry'.filetype # RTC_FILE /\ open_dentry'.filename = Padded(asked)'
  BY <1>1, <1>3, <1>6 DEF Padded
<1>17. LookupExact'
  BY <1>8, <1>10, <1>12, <1>15, <1>16 DEF LookupExact
<1>18. Types' /\ SearchState' /\ DriverState'
  BY <1>1, <1>8, <1>14 DEF IInv, Types, SearchState, DriverState
<1> QED BY <1>17, <1>18 DEF IInv

\* sys_execute_c after its search.
LEMMA ExecuteFoundKeeps ==
  ASSUME IInv, ExecuteFound
  PROVE  IInv'
<1>1. /\ stage = "execute" /\ hit /\ dentry' = Delivered(dir_it)
      /\ UNCHANGED <<fname, asked, dir_it, filename_buf, screen_x, desc>>
      /\ Finish("execute", IF dentry'.filetype = REG_FILE THEN 0 ELSE -1, dentry')
  BY DEF ExecuteFound, Delivered
<1>2. /\ asked \in Names /\ TypeOfName(asked) = Entry[dir_it].filetype
      /\ \A d : d.filetype = Entry[dir_it].filetype /\ d.inode_num = InodeOf(dir_it)
                  => IsEntry(asked, d)
  BY <1>1, AtHit
<1>3. dentry'.filetype = Entry[dir_it].filetype /\ dentry'.inode_num = InodeOf(dir_it)
  BY <1>1 DEF Delivered
<1>4. /\ stage' = "idle" /\ hit' = FALSE /\ result'.op = "execute"
      /\ result'.value = IF dentry'.filetype = REG_FILE THEN 0 ELSE -1
  BY <1>1 DEF Finish, NoResult
<1>5. result'.filetype = dentry'.filetype /\ result'.inode_num = dentry'.inode_num
  BY <1>1 DEF Finish, NoResult
<1>6. IsEntry(asked', result')
  <2>1. IsEntry(asked, result')
    BY <1>2, <1>3, <1>5
  <2> QED BY <1>1, <2>1 DEF IsEntry
<1>7. asked' \in Names /\ TypeOfName(asked') = dentry'.filetype
  BY <1>1, <1>2, <1>3
<1>8. LookupExact'
  <2>1. result'.value = -1 => TypeOfName(asked') # REG_FILE
    BY <1>4, <1>7
  <2>2. result'.value # -1 => TypeOfName(asked') = REG_FILE
    BY <1>4, <1>7
  <2> QED BY <1>4, <1>6, <1>7, <2>1, <2>2 DEF LookupExact
<1>9. Types' /\ SearchState' /\ DriverState'
  BY <1>1, <1>4 DEF IInv, Types, SearchState, DriverState
<1> QED BY <1>8, <1>9 DEF IInv

\* A search that ran past the last entry: the name is not in the directory,
\* so the search was not the driver's.
LEMMA NotFoundKeeps ==
  ASSUME IInv, NotFound
  PROVE  IInv'
<1>1. /\ stage # "idle" /\ ~hit /\ stage' = "idle"
      /\ UNCHANGED <<fname, asked, dir_it, hit, dentry, filename_buf, screen_x,
                     open_dentry, desc>>
  BY DEF NotFound
<1>2. n_dir_entries \in Nat
  BY LenProperties, ImageAssumption DEF n_dir_entries
<1>3. dir_it = n_dir_entries + 1
  BY <1>2 DEF NotFound, IInv, Types
<1>4. asked = fname /\ \A j \in 1..(dir_it - 1) : NameOf(j) # fname
  BY <1>1 DEF IInv, SearchState
<1>5. dir_it - 1 = n_dir_entries
  BY <1>2, <1>3
<1>6. \A j \in 1..n_dir_entries : NameOf(j) # asked
  BY <1>4, <1>5
<1>7. asked' \notin Names
  BY <1>1, <1>6 DEF Names, NameOf
<1>8. stage # "driver"
  BY <1>4, <1>6 DEF IInv, DriverState
<1>9. result' = [NoResult EXCEPT !.op = stage, !.value = -1]
  BY <1>8 DEF NotFound
<1>10. result'.op = stage /\ result'.value = -1 /\ stage # "read"
  BY <1>9 DEF NoResult, IInv, Types
<1>11. LookupExact'
  BY <1>7, <1>10 DEF LookupExact
<1>12. Types' /\ SearchState' /\ DriverState'
  BY <1>1 DEF IInv, Types, SearchState, DriverState
<1> QED BY <1>11, <1>12 DEF IInv

\* dir_read.
LEMMA ReadKeeps ==
  ASSUME IInv, NEW fd \in Fd, NEW nbytes \in NBytes, dir_read(fd, nbytes)
  PROVE  IInv'
<1> DEFINE pos == desc[fd].file_pos
<1>1. stage = "idle" /\ stage' = stage /\ hit' = hit /\ dir_it' = 1 /\ result'.op = "read"
  BY DEF dir_read, LocalsGone, NoResult
<1>2. n_dir_entries \in Nat /\ 1 \in 1..(n_dir_entries + 1)
  BY LenProperties, ImageAssumption DEF n_dir_entries
<1>3. desc \in [Fd -> Desc] /\ pos \in Position
  BY DEF IInv, Types, Desc
<1>4. SearchState' /\ DriverState' /\ LookupExact'
  BY <1>1 DEF IInv, SearchState, DriverState, LookupExact
<1>5. desc' \in [Fd -> Desc]
  <2>1. CASE desc' = desc
    BY <1>3, <2>1
  <2>2. CASE pos < n_dir_entries /\ desc' = [desc EXCEPT ![fd].file_pos = NextPos(@)]
    <3>1. pos + 1 \in Position
      BY <1>2, <1>3, <2>2 DEF Position
    <3> QED BY <1>3, <2>2, <3>1 DEF Desc, NextPos
  <2> QED BY <2>1, <2>2 DEF dir_read
<1>6. Types'
  BY <1>1, <1>2, <1>5 DEF IInv, Types
<1> QED BY <1>4, <1>6 DEF IInv

\* Closing a descriptor.
LEMMA CloseKeeps ==
  ASSUME IInv, NEW fd \in Fd, Close(fd)
  PROVE  IInv'
<1>1. /\ stage = "idle" /\ stage' = stage /\ hit' = hit /\ dir_it' = 1
      /\ result' = [NoResult EXCEPT !.op = "close"]
      /\ desc' = [desc EXCEPT ![fd].kind = "free"]
  BY DEF Close, LocalsGone
<1>2. 1 \in 1..(n_dir_entries + 1)
  BY LenProperties, ImageAssumption DEF n_dir_entries
<1>3. desc' \in [Fd -> Desc]
  BY <1>1 DEF IInv, Types, Desc
<1>4. Types' /\ SearchState' /\ DriverState'
  BY <1>1, <1>2, <1>3 DEF IInv, Types, SearchState, DriverState
<1>5. LookupExact'
  BY <1>1, OtherResult
<1> QED BY <1>4, <1>5 DEF IInv

-----------------------------------------------------------------------------
\* The searches and their results keep the invariant.
LEMMA Invariance == Spec => []IInv
<1>1. Init => IInv
  <2> SUFFICES ASSUME Init PROVE IInv
    OBVIOUS
  <2>1. 0 \in Position /\ 1 \in 1..(n_dir_entries + 1)
    BY LenProperties, ImageAssumption DEF n_dir_entries, Position
  <2>2. Free \in Desc
    BY <2>1 DEF Free, Desc
  <2>3. Types /\ SearchState /\ DriverState
    BY <2>1, <2>2 DEF Init, Types, SearchState, DriverState
  <2>4. LookupExact
    BY DEF Init, LookupExact, NoResult
  <2> QED BY <2>3, <2>4 DEF IInv
<1>2. IInv /\ [Next]_vars => IInv'
  <2> SUFFICES ASSUME IInv, [Next]_vars PROVE IInv'
    OBVIOUS
  <2>1. ASSUME NEW w \in Word, sys_open(w) PROVE IInv'
    <3>1. w \in Name /\ Len(w) \in Nat
      BY ArgumentAssumption, LenProperties DEF Name
    <3>2. stage = "idle" /\ StartSearch("open", w, w)
          /\ UNCHANGED <<hit, filename_buf, screen_x, open_dentry, desc>>
      BY <2>1 DEF sys_open
    <3> QED BY <3>1, <3>2, StartKeeps
  <2>2. ASSUME NEW c \in Command, sys_execute(c) PROVE IInv'
    <3> DEFINE word == SubSeq(c, 1, WordLen(c))
               name == FileName(c)
    <3>1. c \in Name
      BY ArgumentAssumption
    <3>2. /\ word \in Name /\ name \in Name /\ Len(word) \in Nat
          /\ Len(name) > NAME_LEN => Len(word) > NAME_LEN
          /\ ~(Len(name) > NAME_LEN) => name = word
      BY <3>1, WordIs
    <3>3. stage = "idle" /\ StartSearch("execute", word, name)
          /\ UNCHANGED <<hit, filename_buf, screen_x, open_dentry, desc>>
      BY <2>2 DEF sys_execute
    <3> HIDE DEF word, name
    <3> QED BY <3>2, <3>3, StartKeeps
  <2>3. CASE Search
    BY <2>3, ScanKeeps, OpenFoundKeeps, DriverFoundKeeps, ExecuteFoundKeeps,
       NotFoundKeeps DEF Search
  <2>4. ASSUME NEW fd \in Fd, Close(fd) \/ \E n \in NBytes : dir_read(fd, n)
        PROVE  IInv'
    BY <2>4, CloseKeeps, ReadKeeps
  <2>5. CASE Echo \/ UNCHANGED vars
    <3>1. UNCHANGED <<stage, fname, asked, dir_it, hit, dentry, filename_buf,
                      open_dentry, desc, result>>
      BY <2>5 DEF Echo, vars
    <3>2. Types' /\ SearchState' /\ DriverState'
      BY <3>1 DEF IInv, Types, SearchState, DriverState, FirstFree
    <3>3. LookupExact'
      BY <3>1 DEF IInv, LookupExact, IsEntry
    <3> QED BY <3>2, <3>3 DEF IInv
  <2> QED BY <2>1, <2>2, <2>3, <2>4, <2>5 DEF Next
<1> QED BY <1>1, <1>2, PTL DEF Spec

\* open and execute accept exactly the names of the directory and go by the
\* entry of that name; a descriptor that open returns is set up, for the type
\* that chose its jump table, although sys_open_c ignores what the driver
\* returns.
THEOREM LookupCorrect == Spec => []LookupExact
<1>1. IInv => LookupExact
  BY DEF IInv
<1> QED BY <1>1, Invariance, PTL

-----------------------------------------------------------------------------
(***************************************************************************)
(* The listing.  file_pos of a directory that is open is the number of the *)
(* reads since its open, whatever was left there by an earlier user of the *)
(* descriptor and whatever happens to the other descriptors.               *)
(***************************************************************************)
Positions ==
  /\ reads \in [Fd -> Position]
  /\ \A fd \in Fd : desc[fd].kind = "dir" => desc[fd].file_pos = reads[fd]

ListInv == Positions /\ ListExact

\* dir_read: the name it delivers is the one that is due, and it moves on.
LEMMA ReadLists ==
  ASSUME IInv, ListInv, NEW fd \in Fd, NEW nbytes \in NBytes, dir_read(fd, nbytes)
  PROVE  ListInv'
<1> DEFINE pos == desc[fd].file_pos
           name == NameByIndex(pos)
<1>1. n_dir_entries \in Nat /\ nbytes \in Nat
  BY LenProperties, ImageAssumption, ArgumentAssumption DEF n_dir_entries
<1>2. desc \in [Fd -> Desc] /\ pos \in Position /\ reads \in [Fd -> Position]
  BY DEF IInv, Types, Desc, ListInv, Positions
<1>3. /\ pos = reads[fd]
      /\ reads' = [reads EXCEPT ![fd] = Least(@ + 1, n_dir_entries)]
  BY DEF dir_read, ListInv, Positions
<1>4. reads' \in [Fd -> Position] /\ reads'[fd] = Least(pos + 1, n_dir_entries)
  <2>1. Least(pos + 1, n_dir_entries) \in Position
    BY <1>1, <1>2 DEF Least, Position
  <2> QED BY <1>2, <1>3, <2>1
<1>5. CASE /\ pos >= n_dir_entries
           /\ result' = [NoResult EXCEPT !.op = "read", !.at = reads[fd], !.nbytes = nbytes]
           /\ UNCHANGED desc
  <2>1. /\ result'.value = 0 /\ result'.at = pos
        /\ result'.nbytes = nbytes /\ result'.stored = <<>>
    BY <1>3, <1>5 DEF NoResult
  <2>2. pos = n_dir_entries /\ Least(pos + 1, n_dir_entries) = pos
    BY <1>1, <1>2, <1>5 DEF Position, Least
  <2>3. Len(<<>>) = 0
    BY EmptySeq
  <2>4. reads' = reads
    BY <1>2, <1>3, <2>2
  <2>5. Positions'
    BY <1>5, <2>4 DEF ListInv, Positions
  <2> HIDE DEF pos
  <2>6. ListExact'
    BY <1>1, <2>1, <2>2, <2>3 DEF ListExact
  <2> QED BY <2>5, <2>6 DEF ListInv
<1>6. CASE /\ pos < n_dir_entries
           /\ desc' = [desc EXCEPT ![fd].file_pos = NextPos(@)]
           /\ result' = [NoResult EXCEPT !.op = "read",
                                         !.value = Least(nbytes, strlen(name \o <<0>>)),
                                         !.stored = Stored(name, nbytes),
                                         !.at = reads[fd], !.nbytes = nbytes]
  <2> DEFINE own == NameOf(pos + 1)
             m == Least(nbytes, Len(own))
  <2>1. pos \in Nat /\ pos + 1 \in 1..n_dir_entries /\ pos # n_dir_entries
    BY <1>1, <1>2, <1>6 DEF Position
  <2>2. Positions'
    <3>1. Least(pos + 1, n_dir_entries) = pos + 1
      BY <1>1, <2>1 DEF Least
    <3>2. ASSUME NEW d \in Fd, desc'[d].kind = "dir" PROVE desc'[d].file_pos = reads'[d]
      <4>1. CASE d = fd
        BY <1>2, <1>4, <1>6, <3>1, <4>1 DEF NextPos, Desc
      <4>2. CASE d # fd
        BY <1>2, <1>3, <1>6, <3>2, <4>2 DEF ListInv, Positions
      <4> QED BY <4>1, <4>2
    <3> QED BY <1>4, <3>2 DEF Positions
  <2>3. name = Padded(own)
    BY <1>6, <2>1, NameByIndexIs
  <2>4. own \in Name /\ Len(own) \in 1..NAME_LEN
    BY <2>1, EntryFacts
  <2>5. /\ strlen(name \o <<0>>) = Len(own)
        /\ SubSeq(Stored(name, nbytes), 1, m) = SubSeq(own, 1, m)
        /\ Len(Stored(name, nbytes)) <= nbytes + 1
        /\ Len(Stored(name, nbytes)) > m => Stored(name, nbytes)[m + 1] = 0
    BY <1>1, <2>3, <2>4, StoredExact
  <2>6. /\ result'.value = m /\ result'.at = pos
        /\ result'.nbytes = nbytes /\ result'.stored = Stored(name, nbytes)
    BY <1>3, <1>6, <2>5 DEF NoResult
  <2>7. own = Entry[result'.at + 1].name
    BY <2>6 DEF NameOf
  <2> HIDE DEF own, name, pos
  <2>8. ListExact'
    BY <2>1, <2>5, <2>6, <2>7 DEF ListExact
  <2> QED BY <2>2, <2>8 DEF ListInv
<1> QED BY <1>5, <1>6 DEF dir_read

\* The steps that open a descriptor.
LEMMA OpenLists ==
  ASSUME IInv, ListInv, OpenFound \/ DriverFound
  PROVE  ListInv'
<1>1. desc \in [Fd -> Desc] /\ reads \in [Fd -> Position] /\ 0 \in Position
  BY LenProperties, ImageAssumption
  DEF IInv, Types, ListInv, Positions, n_dir_entries, Position
<1>2. ListExact'
  <2>1. UNCHANGED result \/ \E v, d : Finish("open", v, d)
    BY DEF OpenFound, DriverFound
  <2>2. ASSUME NEW v, NEW d, Finish("open", v, d) PROVE result'.op = "open"
    BY <2>2 DEF Finish, NoResult
  <2>3. CASE UNCHANGED result
    BY <2>3 DEF ListInv, ListExact
  <2>4. CASE \E v, d : Finish("open", v, d)
    BY <2>2, <2>4 DEF ListExact
  <2> QED BY <2>1, <2>3, <2>4
<1>3. CASE OpenFound
  <2>1. reads' = reads
    BY <1>3 DEF OpenFound
  <2>2. \/ desc' = desc
        \/ \E i \in Fd : desc' = [desc EXCEPT ![i] = [Free EXCEPT !.kind = "rtc"]]
    BY <1>3 DEF OpenFound
  <2>3. \A d \in Fd : desc'[d] = desc[d] \/ desc'[d].kind # "dir"
    BY <1>1, <2>2 DEF Free
  <2>4. Positions'
    BY <2>1, <2>3 DEF ListInv, Positions
  <2> QED BY <1>2, <2>4 DEF ListInv
<1>4. CASE DriverFound
  <2>1. PICK i \in Fd :
          /\ FirstFree(i) /\ reads' = [reads EXCEPT ![i] = 0]
          /\ desc' = IF open_dentry'.filetype # dentry.filetype THEN desc
                     ELSE [desc EXCEPT ![i] = [kind |-> KindOf(dentry.filetype),
                                               inode |-> open_dentry'.inode_num,
                                               file_pos |-> 0]]
    BY <1>4 DEF DriverFound
  <2>2. reads' \in [Fd -> Position] /\ reads'[i] = 0
    BY <1>1, <2>1
  <2>3. desc'[i].kind = "dir" => desc'[i].file_pos = 0
    BY <1>1, <2>1 DEF FirstFree
  <2>4. \A d \in Fd : d # i => desc'[d] = desc[d] /\ reads'[d] = reads[d]
    BY <1>1, <2>1
  <2>5. Positions'
    BY <2>2, <2>3, <2>4 DEF ListInv, Positions
  <2> QED BY <1>2, <2>5 DEF ListInv
<1> QED BY <1>3, <1>4

\* The other steps neither read nor open: what is listed stays.
LEMMA OthersList ==
  ASSUME IInv, ListInv, reads' = reads,
         \/ desc' = desc
         \/ \E fd \in Fd : desc' = [desc EXCEPT ![fd].kind = "free"],
         result' = result \/ result'.op # "read"
  PROVE  ListInv'
<1>1. desc \in [Fd -> Desc]
  BY DEF IInv, Types
<1>2. \A d \in Fd : desc'[d] = desc[d] \/ desc'[d].kind # "dir"
  <2>1. CASE \E fd \in Fd : desc' = [desc EXCEPT ![fd].kind = "free"]
    BY <1>1, <2>1 DEF Desc
  <2> QED BY <2>1
<1>3. Positions'
  BY <1>2 DEF ListInv, Positions
<1>4. ListExact'
  BY DEF ListInv, ListExact
<1> QED BY <1>3, <1>4 DEF ListInv

\* The reads of a descriptor, counted from its open, deliver the names of the
\* directory one by one in their order, each up to nbytes, then nothing, and
\* store at most one byte more, whatever else is opened, read and closed.
THEOREM ListCorrect == Spec => []ListExact
<1>1. Init => ListInv
  <2>1. 0 \in Position
    BY LenProperties, ImageAssumption DEF n_dir_entries, Position
  <2> QED BY <2>1 DEF Init, ListInv, Positions, ListExact, NoResult, Free
<1>2. IInv /\ ListInv /\ [Next]_vars => ListInv'
  <2> SUFFICES ASSUME IInv, ListInv, [Next]_vars PROVE ListInv'
    OBVIOUS
  <2>1. ASSUME NEW who \in {"open", "execute"}, NEW word, NEW name,
               StartSearch(who, word, name), UNCHANGED <<desc, reads>>
        PROVE  ListInv'
    <3>1. result'.op # "read"
      <4>1. result' = NoResult \/ result' = [NoResult EXCEPT !.op = who, !.value = -1]
        BY <2>1 DEF StartSearch
      <4>2. who # "read"
        BY <2>1
      <4>3. CASE result' = NoResult
        BY <4>3 DEF NoResult
      <4>4. CASE result' = [NoResult EXCEPT !.op = who, !.value = -1]
        <5>1. result'.op = who
          BY <4>4 DEF NoResult
        <5> QED BY <4>2, <5>1
      <4> QED BY <4>1, <4>3, <4>4
    <3> QED BY <2>1, <3>1, OthersList
  <2>2. ASSUME NEW w \in Word, sys_open(w) PROVE ListInv'
    BY <2>1, <2>2 DEF sys_open
  <2>3. ASSUME NEW c \in Command, sys_execute(c) PROVE ListInv'
    BY <2>1, <2>3 DEF sys_execute
  <2>4. CASE Scan \/ Echo \/ UNCHANGED vars
    <3>1. UNCHANGED <<desc, reads, result>>
      BY <2>4 DEF Scan, Echo, vars
    <3> QED BY <3>1, OthersList
  <2>5. CASE ExecuteFound
    <3>1. UNCHANGED <<desc, reads>> /\ result'.op # "read"
      BY <2>5 DEF ExecuteFound, Finish, NoResult
    <3> QED BY <3>1, OthersList
  <2>6. CASE NotFound
    <3>1. UNCHANGED <<desc, reads>> /\ result'.op # "read"
      BY <2>6 DEF NotFound, NoResult, IInv, Types
    <3> QED BY <3>1, OthersList
  <2>7. ASSUME NEW fd \in Fd, Close(fd) PROVE ListInv'
    <3>1. /\ reads' = reads /\ desc' = [desc EXCEPT ![fd].kind = "free"]
          /\ result'.op # "read"
      BY <2>7 DEF Close, NoResult
    <3> QED BY <3>1, OthersList
  <2> QED
    BY <2>2, <2>3, <2>4, <2>5, <2>6, <2>7, OpenLists, ReadLists DEF Next, Search
<1>3. ListInv => ListExact
  BY DEF ListInv
<1> QED BY <1>1, <1>2, <1>3, Invariance, PTL DEF Spec
=============================================================================
