---------------------------- MODULE SidecarProofs ----------------------------
(* The sidecar reads what the game server laid out, its answers are of their *)
(* query, and its info series is there.                                     *)
EXTENDS MetricsSidecar, SequenceTheorems, TLAPS

-----------------------------------------------------------------------------
(* The byteReader on data that carries a string.                            *)

\* d is w, cut behind some byte.
Prefix(d, w) == Len(d) <= Len(w) /\ \A i \in 1 .. Len(d) : d[i] = w[i]

\* At position pos, w has s and the NUL behind it.
Carries(w, pos, s) == /\ pos + Len(s) < Len(w)
                      /\ \A i \in 1 .. Len(s) : w[pos + i] = s[i]
                      /\ w[pos + Len(s) + 1] = 0

LEMMA Concat ==
  ASSUME NEW a \in Data, NEW b \in Data
  PROVE  /\ a \o b \in Data /\ Len(a \o b) = Len(a) + Len(b)
         /\ \A i \in 1 .. Len(a) : (a \o b)[i] = a[i]
         /\ \A i \in 1 .. Len(b) : (a \o b)[Len(a) + i] = b[i]
BY DEF Data

LEMMA TextIsData ==
  ASSUME NEW s \in Text
  PROVE  s \in Data /\ Len(s) \in Nat /\ \A i \in 1 .. Len(s) : s[i] # 0
<1>1. Byte \ {0} \subseteq Byte
  OBVIOUS
<1>2. s \in Data
  BY <1>1, SeqMonotonic DEF Text, Data
<1>3. Len(s) \in Nat
  BY DEF Text
<1>4. \A i \in 1 .. Len(s) : s[i] # 0
  BY ElementOfSeq DEF Text
<1> QED
  BY <1>2, <1>3, <1>4

LEMMA PrefixOfConcat ==
  ASSUME NEW a \in Data, NEW b \in Data
  PROVE  Prefix(a, a \o b)
BY Concat DEF Prefix, Data

LEMMA PrefixTransitive ==
  ASSUME NEW a \in Data, NEW b \in Data, NEW c \in Data, Prefix(a, b), Prefix(b, c)
  PROVE  Prefix(a, c)
BY DEF Prefix, Data

LEMMA CarriesLast ==
  ASSUME NEW a \in Data, NEW s \in Text
  PROVE  Carries(a \o s \o <<0>>, Len(a), s)
<1>1. <<0>> \in Data /\ Len(<<0>>) = 1 /\ <<0>>[1] = 0 /\ Len(a) \in Nat
  BY DEF Data, Byte
<1>2. s \in Data /\ Len(s) \in Nat
  BY TextIsData
<1>3. a \o s \in Data /\ Len(a \o s) = Len(a) + Len(s)
      /\ \A i \in 1 .. Len(s) : (a \o s)[Len(a) + i] = s[i]
  BY <1>2, Concat
<1>4. /\ Len(a \o s \o <<0>>) = Len(a) + Len(s) + 1
      /\ \A i \in 1 .. Len(a \o s) : (a \o s \o <<0>>)[i] = (a \o s)[i]
      /\ (a \o s \o <<0>>)[Len(a) + Len(s) + 1] = 0
  BY <1>1, <1>3, Concat
<1> QED
  BY <1>1, <1>2, <1>3, <1>4 DEF Carries

LEMMA CarriesOn ==
  ASSUME NEW a \in Data, NEW w \in Data, NEW s \in Text, NEW pos \in Nat,
         Prefix(a, w), Carries(a, pos, s)
  PROVE  Carries(w, pos, s)
<1>1. Len(s) \in Nat /\ Len(a) \in Nat /\ Len(w) \in Nat
  BY TextIsData DEF Data
<1>2. pos + Len(s) < Len(w)
  BY <1>1 DEF Carries, Prefix
<1>3. \A i \in 1 .. Len(s) : pos + i \in 1 .. Len(a)
  BY <1>1 DEF Carries
<1>4. pos + Len(s) + 1 \in 1 .. Len(a)
  BY <1>1 DEF Carries
<1> QED
  BY <1>2, <1>3, <1>4 DEF Carries, Prefix

LEMMA MinIs ==
  ASSUME NEW S \in SUBSET Int, NEW m \in S, \A j \in S : m <= j
  PROVE  Min(S) = m
<1>1. Min(S) \in S /\ \A j \in S : Min(S) <= j
  BY Zenon DEF Min
<1>2. Min(S) \in Int /\ m \in Int
  BY <1>1
<1>3. Min(S) <= m /\ m <= Min(S)
  BY <1>1
<1> QED
  BY <1>2, <1>3

LEMMA Slice ==
  ASSUME NEW d \in Data, NEW m \in Nat, NEW n \in Nat, m + n <= Len(d)
  PROVE  /\ SubSeq(d, m + 1, m + n) \in Data /\ Len(SubSeq(d, m + 1, m + n)) = n
         /\ \A i \in 1 .. n : SubSeq(d, m + 1, m + n)[i] = d[m + i]
BY DEF Data

LEMMA SubSeqIs ==
  ASSUME NEW d \in Data, NEW pos \in Nat, NEW s \in Text, Carries(d, pos, s)
  PROVE  SubSeq(d, pos + 1, pos + Len(s)) = s
<1>1. s \in Data /\ Len(s) \in Nat
  BY TextIsData
<1>2. SubSeq(d, pos + 1, pos + Len(s)) \in Data
      /\ Len(SubSeq(d, pos + 1, pos + Len(s))) = Len(s)
      /\ \A i \in 1 .. Len(s) : SubSeq(d, pos + 1, pos + Len(s))[i] = d[pos + i]
  BY <1>1 DEF Carries, Data
<1> QED
  BY <1>1, <1>2 DEF Carries, Data

\* readString finds what is there ...
LEMMA ReadCarried ==
  ASSUME NEW d \in Data, NEW pos \in Nat, NEW s \in Text, Carries(d, pos, s)
  PROVE  /\ readString(d, pos).err = FALSE /\ readString(d, pos).val = s
         /\ readString(d, pos).pos = pos + Len(s) + 1
<1>1. Len(s) \in Nat /\ Len(d) \in Nat /\ \A i \in 1 .. Len(s) : s[i] # 0
  BY TextIsData DEF Data
<1>2. pos + Len(s) \in Nuls(d, pos)
  BY <1>1 DEF Carries, Nuls
<1>3. ASSUME NEW j \in Nuls(d, pos), j < pos + Len(s) PROVE FALSE
  <2>1. j \in Int /\ j >= pos /\ d[j + 1] = 0
    BY <1>1 DEF Nuls
  <2>2. j - pos + 1 \in 1 .. Len(s) /\ pos + (j - pos + 1) = j + 1
    BY <2>1, <1>3, <1>1
  <2>3. d[pos + (j - pos + 1)] = s[j - pos + 1]
    BY <2>2 DEF Carries
  <2> QED
    BY <2>1, <2>2, <2>3, <1>1
<1>4. Nuls(d, pos) \in SUBSET Int
  BY <1>1 DEF Nuls
<1>5. Min(Nuls(d, pos)) = pos + Len(s)
  BY <1>1, <1>2, <1>3, <1>4, MinIs
<1>6. readString(d, pos) = [err |-> FALSE, val |-> s, pos |-> pos + Len(s) + 1]
  BY <1>2, <1>5, SubSeqIs DEF readString
<1> QED
  BY <1>6

\* ... and nothing of a string that is cut.
LEMMA ReadCut ==
  ASSUME NEW d \in Data, NEW w \in Data, NEW pos \in Nat, NEW s \in Text,
         Prefix(d, w), Carries(w, pos, s), ~(pos + Len(s) < Len(d))
  PROVE  readString(d, pos).err /\ readString(d, pos).val = <<>>
<1>1. Len(s) \in Nat /\ Len(d) \in Nat /\ \A i \in 1 .. Len(s) : s[i] # 0
  BY TextIsData DEF Data
<1>2. ASSUME NEW j \in Nuls(d, pos) PROVE FALSE
  <2>1. j \in pos .. Len(d) - 1 /\ d[j + 1] = 0
    BY DEF Nuls
  <2>2. j - pos + 1 \in 1 .. Len(s) /\ pos + (j - pos + 1) = j + 1 /\ j + 1 \in 1 .. Len(d)
    BY <2>1, <1>1
  <2>3. w[pos + (j - pos + 1)] = s[j - pos + 1]
    BY <2>2 DEF Carries
  <2>4. d[j + 1] = w[j + 1]
    BY <2>2 DEF Prefix
  <2> QED
    BY <2>1, <2>2, <2>3, <2>4, <1>1
<1>3. Nuls(d, pos) = {}
  BY <1>2
<1> QED
  BY <1>3 DEF readString

LEMMA CarriedInPrefix ==
  ASSUME NEW d \in Data, NEW w \in Data, NEW pos \in Nat, NEW s \in Text,
         Prefix(d, w), Carries(w, pos, s), pos + Len(s) < Len(d)
  PROVE  Carries(d, pos, s)
<1>1. Len(s) \in Nat /\ Len(d) \in Nat
  BY TextIsData DEF Data
<1>2. /\ \A i \in 1 .. Len(s) : pos + i \in 1 .. Len(d)
      /\ pos + Len(s) + 1 \in 1 .. Len(d)
  BY <1>1
<1> QED
  BY <1>2 DEF Carries, Prefix

\* The two together: a field is read in full or not at all.
LEMMA ReadField ==
  ASSUME NEW d \in Data, NEW w \in Data, NEW pos \in Nat, NEW s \in Text,
         Prefix(d, w), Carries(w, pos, s)
  PROVE  \/ readString(d, pos).val = s /\ readString(d, pos).pos = pos + Len(s) + 1
         \/ readString(d, pos).err /\ readString(d, pos).val = <<>>
<1>1. CASE pos + Len(s) < Len(d)
  <2>1. Carries(d, pos, s)
    BY <1>1, CarriedInPrefix
  <2> QED
    BY <2>1, ReadCarried
<1>2. CASE ~(pos + Len(s) < Len(d))
  BY <1>2, ReadCut
<1> QED
  BY <1>1, <1>2

LEMMA ReadOneByte ==
  ASSUME NEW d \in Data, NEW pos \in Nat
  PROVE  /\ pos < Len(d) => /\ readByte(d, pos).val = d[pos + 1]
                            /\ readByte(d, pos).pos = pos + 1
         /\ ~(pos < Len(d)) => readByte(d, pos).val = 0 /\ readByte(d, pos).pos = pos
<1>1. Len(d) \in Nat
  BY DEF Data
<1>2. CASE pos < Len(d)
  <2>1. readByte(d, pos) = [err |-> FALSE, val |-> d[pos + 1], pos |-> pos + 1]
    BY <1>1, <1>2 DEF readByte
  <2> QED
    BY <1>2, <2>1
<1>3. CASE ~(pos < Len(d))
  <2>1. readByte(d, pos) = [err |-> TRUE, val |-> 0, pos |-> pos]
    BY <1>1, <1>3 DEF readByte
  <2> QED
    BY <1>3, <2>1
<1> QED
  BY <1>2, <1>3

\* What parseA2SInfo returns, field by field.
LEMMA ParsedFields ==
  ASSUME NEW d,
         ~(\/ Len(d) < 6 \/ ~HasType(d, 73)
           \/ readName(d).err \/ readMapName(d).err \/ readFolder(d).err \/ readGame(d).err)
  PROVE  /\ parseA2SInfo(d).ok = TRUE
         /\ parseA2SInfo(d).name = readName(d).val /\ parseA2SInfo(d).mapName = readMapName(d).val
         /\ parseA2SInfo(d).players = readPlayers(d).val
         /\ parseA2SInfo(d).maxPlayers = readMaxPlayers(d).val
         /\ parseA2SInfo(d).version = readVersion(d).val
<1>1. parseA2SInfo(d) = [ok |-> TRUE, name |-> readName(d).val, mapName |-> readMapName(d).val,
                         players |-> readPlayers(d).val, maxPlayers |-> readMaxPlayers(d).val,
                         version |-> readVersion(d).val]
  BY Zenon DEF parseA2SInfo
<1> QED
  BY <1>1

-----------------------------------------------------------------------------
(* The layout of an answer.                                                 *)

\* An answer up to and including each of its parts.
Start(f)     == a2sHeader \o <<73, f.protocol>>
UpToName(f)  == Start(f) \o f.name \o <<0>>
UpToMap(f)   == UpToName(f) \o f.mapName \o <<0>>
UpToDir(f)   == UpToMap(f) \o f.folder \o <<0>>
UpToGame(f)  == UpToDir(f) \o f.game \o <<0>>
UpToID(f)    == UpToGame(f) \o f.appID
UpToMax(f)   == UpToID(f) \o <<f.players, f.maxPlayers>>
UpToFlags(f) == UpToMax(f) \o f.flags
UpToVersion(f) == UpToFlags(f) \o f.version \o <<0>>

LEMMA AnswerParts ==
  ASSUME NEW f
  PROVE  Answer(f) = UpToVersion(f) \o f.extra
BY DEF Answer, UpToVersion, UpToFlags, UpToMax, UpToID, UpToGame, UpToDir, UpToMap, UpToName, Start

\* A string and its NUL behind a.
LEMMA StringPart ==
  ASSUME NEW a \in Data, NEW s \in Text
  PROVE  /\ a \o s \o <<0>> \in Data /\ Len(a \o s \o <<0>>) = Len(a) + Len(s) + 1
         /\ Prefix(a, a \o s \o <<0>>)
         /\ Carries(a \o s \o <<0>>, Len(a), s)
<1>1. <<0>> \in Data /\ Len(<<0>>) = 1 /\ Len(a) \in Nat
  BY DEF Data, Byte
<1>2. s \in Data /\ Len(s) \in Nat
  BY TextIsData
<1>3. a \o s \in Data /\ Len(a \o s) = Len(a) + Len(s) /\ Prefix(a, a \o s)
  BY <1>2, Concat, PrefixOfConcat
<1>4. a \o s \o <<0>> \in Data /\ Len(a \o s \o <<0>>) = Len(a) + Len(s) + 1
      /\ Prefix(a \o s, a \o s \o <<0>>)
  BY <1>1, <1>3, Concat, PrefixOfConcat
<1>5. Prefix(a, a \o s \o <<0>>)
  BY <1>3, <1>4, PrefixTransitive
<1> QED
  BY <1>4, <1>5, CarriesLast

LEMMA FieldTypes ==
  ASSUME NEW f \in Fields
  PROVE  /\ f.protocol \in Byte /\ f.players \in Byte /\ f.maxPlayers \in Byte
         /\ f.name \in Text /\ f.mapName \in Text /\ f.folder \in Text /\ f.game \in Text
         /\ f.version \in Text /\ f.extra \in Data
         /\ f.appID \in Data /\ Len(f.appID) = 2
         /\ f.flags \in Data /\ Len(f.flags) = 5
BY DEF Fields, Bytes

LEMMA StartPart ==
  ASSUME NEW f \in Fields
  PROVE  /\ Start(f) \in Data /\ Len(Start(f)) = 6
         /\ \A i \in 1 .. 4 : Start(f)[i] = 255
         /\ Start(f)[5] = 73
<1> DEFINE t == <<73, f.protocol>>
<1>1. a2sHeader \in Data /\ Len(a2sHeader) = 4 /\ \A i \in 1 .. 4 : a2sHeader[i] = 255
  BY DEF a2sHeader, Data, Byte
<1>2. t \in Data /\ Len(t) = 2 /\ t[1] = 73
  <2>1. f.protocol \in Byte
    BY FieldTypes
  <2>2. 73 \in Byte
    BY DEF Byte
  <2> QED
    BY <2>1, <2>2 DEF Data
<1>3. Start(f) = a2sHeader \o t
  BY DEF Start
<1> HIDE DEF t
<1>4. /\ a2sHeader \o t \in Data /\ Len(a2sHeader \o t) = Len(a2sHeader) + Len(t)
      /\ \A i \in 1 .. Len(a2sHeader) : (a2sHeader \o t)[i] = a2sHeader[i]
      /\ \A i \in 1 .. Len(t) : (a2sHeader \o t)[Len(a2sHeader) + i] = t[i]
  <2>1. a2sHeader \in Data
    BY <1>1
  <2>2. t \in Data
    BY <1>2
  <2> QED
    BY <2>1, <2>2, Concat
<1>5. 1 \in 1 .. Len(t) /\ Len(a2sHeader) + 1 = 5
  BY <1>1, <1>2
<1>6. (a2sHeader \o t)[5] = 73
  BY <1>2, <1>4, <1>5
<1>7. Len(Start(f)) = 6 /\ \A i \in 1 .. 4 : Start(f)[i] = 255
  <2>1. Len(a2sHeader) = 4 /\ Len(t) = 2 /\ Len(Start(f)) = Len(a2sHeader) + Len(t)
    BY <1>1, <1>2, <1>3, <1>4
  <2>2. \A i \in 1 .. 4 : Start(f)[i] = a2sHeader[i]
    BY <1>3, <1>4, <2>1
  <2> QED
    BY <1>1, <2>1, <2>2
<1> QED
  BY <1>3, <1>4, <1>6, <1>7

LEMMA PartOf ==
  ASSUME NEW a \in Data, NEW b \in Data
  PROVE  a \o b \in Data /\ Len(a \o b) = Len(a) + Len(b) /\ Prefix(a, a \o b)
BY Concat, PrefixOfConcat

LEMMA Strings ==
  ASSUME NEW f \in Fields
  PROVE  /\ UpToName(f) \in Data /\ Len(UpToName(f)) = 6 + Len(f.name) + 1
         /\ Prefix(Start(f), UpToName(f)) /\ Carries(UpToName(f), 6, f.name)
         /\ UpToMap(f) \in Data /\ Len(UpToMap(f)) = Len(UpToName(f)) + Len(f.mapName) + 1
         /\ Prefix(UpToName(f), UpToMap(f)) /\ Carries(UpToMap(f), Len(UpToName(f)), f.mapName)
         /\ UpToDir(f) \in Data /\ Len(UpToDir(f)) = Len(UpToMap(f)) + Len(f.folder) + 1
         /\ Prefix(UpToMap(f), UpToDir(f)) /\ Carries(UpToDir(f), Len(UpToMap(f)), f.folder)
         /\ UpToGame(f) \in Data /\ Len(UpToGame(f)) = Len(UpToDir(f)) + Len(f.game) + 1
         /\ Prefix(UpToDir(f), UpToGame(f)) /\ Carries(UpToGame(f), Len(UpToDir(f)), f.game)
<1>0. f.name \in Text /\ f.mapName \in Text /\ f.folder \in Text /\ f.game \in Text
  BY FieldTypes
<1>1. /\ UpToName(f) \in Data /\ Len(UpToName(f)) = Len(Start(f)) + Len(f.name) + 1
      /\ Prefix(Start(f), UpToName(f)) /\ Carries(UpToName(f), Len(Start(f)), f.name)
  <2>1. Start(f) \in Data
    BY StartPart
  <2> QED
    BY <1>0, <2>1, StringPart DEF UpToName
<1>2. /\ UpToMap(f) \in Data /\ Len(UpToMap(f)) = Len(UpToName(f)) + Len(f.mapName) + 1
      /\ Prefix(UpToName(f), UpToMap(f)) /\ Carries(UpToMap(f), Len(UpToName(f)), f.mapName)
  BY <1>0, <1>1, StringPart DEF UpToMap
<1>3. /\ UpToDir(f) \in Data /\ Len(UpToDir(f)) = Len(UpToMap(f)) + Len(f.folder) + 1
      /\ Prefix(UpToMap(f), UpToDir(f)) /\ Carries(UpToDir(f), Len(UpToMap(f)), f.folder)
  BY <1>0, <1>2, StringPart DEF UpToDir
<1>4. /\ UpToGame(f) \in Data /\ Len(UpToGame(f)) = Len(UpToDir(f)) + Len(f.game) + 1
      /\ Prefix(UpToDir(f), UpToGame(f)) /\ Carries(UpToGame(f), Len(UpToDir(f)), f.game)
  BY <1>0, <1>3, StringPart DEF UpToGame
<1>5. Len(Start(f)) = 6
  BY StartPart
<1> QED
  BY <1>1, <1>2, <1>3, <1>4, <1>5

LEMMA Counts ==
  ASSUME NEW f \in Fields
  PROVE  /\ UpToFlags(f) \in Data /\ Len(UpToFlags(f)) = Len(UpToGame(f)) + 9
         /\ Prefix(UpToGame(f), UpToFlags(f))
         /\ UpToFlags(f)[Len(UpToGame(f)) + 3] = f.players
         /\ UpToFlags(f)[Len(UpToGame(f)) + 4] = f.maxPlayers
<1> DEFINE n == Len(UpToGame(f))
           c == <<f.players, f.maxPlayers>>
<1>1. UpToGame(f) \in Data
  BY Strings
<1>2. n \in Nat
  BY <1>1 DEF Data
<1>3. f.appID \in Data /\ Len(f.appID) = 2 /\ f.flags \in Data /\ Len(f.flags) = 5
  BY FieldTypes
<1>4. c \in Data /\ Len(c) = 2 /\ c[1] = f.players /\ c[2] = f.maxPlayers
  BY FieldTypes DEF Data
<1>5. UpToMax(f) = UpToID(f) \o c
  BY DEF UpToMax
<1> HIDE DEF c
<1>6. UpToID(f) \in Data /\ Len(UpToID(f)) = n + Len(f.appID) /\ Prefix(UpToGame(f), UpToID(f))
  BY <1>1, <1>3, PartOf DEF UpToID
<1>7. /\ UpToMax(f) \in Data /\ Len(UpToMax(f)) = Len(UpToID(f)) + Len(c)
      /\ Prefix(UpToID(f), UpToMax(f))
      /\ \A i \in 1 .. Len(c) : UpToMax(f)[Len(UpToID(f)) + i] = c[i]
  <2>1. UpToID(f) \in Data
    BY <1>6
  <2>2. c \in Data
    BY <1>4
  <2>3. /\ UpToMax(f) \in Data /\ Len(UpToMax(f)) = Len(UpToID(f)) + Len(c)
        /\ Prefix(UpToID(f), UpToMax(f))
    BY <1>5, <2>1, <2>2, PartOf
  <2>4. \A i \in 1 .. Len(c) : UpToMax(f)[Len(UpToID(f)) + i] = c[i]
    BY <1>5, <2>1, <2>2, Concat
  <2> QED
    BY <2>3, <2>4
<1>8. /\ UpToFlags(f) \in Data /\ Len(UpToFlags(f)) = Len(UpToMax(f)) + Len(f.flags)
      /\ Prefix(UpToMax(f), UpToFlags(f))
  BY <1>3, <1>7, PartOf DEF UpToFlags
<1>9. Prefix(UpToGame(f), UpToFlags(f))
  <2>1. Prefix(UpToGame(f), UpToMax(f))
    BY <1>1, <1>6, <1>7, PrefixTransitive
  <2> QED
    BY <1>1, <1>7, <1>8, <2>1, PrefixTransitive
<1>10. Len(UpToMax(f)) = n + 4 /\ Len(UpToID(f)) = n + 2
  BY <1>2, <1>3, <1>4, <1>6, <1>7
<1>11. UpToMax(f)[n + 3] = f.players /\ UpToMax(f)[n + 4] = f.maxPlayers
  <2>1. UpToMax(f)[n + 2 + 1] = c[1] /\ UpToMax(f)[n + 2 + 2] = c[2]
    <3>1. 1 \in 1 .. Len(c) /\ 2 \in 1 .. Len(c)
      BY <1>4
    <3>2. \A i \in 1 .. Len(c) : UpToMax(f)[n + 2 + i] = c[i]
      BY <1>7, <1>10
    <3> QED
      BY <3>1, <3>2
  <2> QED
    BY <1>2, <1>4, <2>1
<1>12. n + 3 \in 1 .. Len(UpToMax(f)) /\ n + 4 \in 1 .. Len(UpToMax(f))
  BY <1>2, <1>10
<1>13. UpToFlags(f)[n + 3] = f.players /\ UpToFlags(f)[n + 4] = f.maxPlayers
  BY <1>8, <1>11, <1>12 DEF Prefix
<1>14. Len(UpToFlags(f)) = n + 9
  BY <1>2, <1>3, <1>8, <1>10
<1> QED
  BY <1>8, <1>9, <1>13, <1>14


\* Where the fields of an answer are.
LEMMA Layout ==
  ASSUME NEW f \in Fields
  PROVE  LET w == Answer(f) IN
         /\ w \in Data /\ Prefix(Start(f), w)
         /\ Carries(w, 6, f.name)
         /\ Carries(w, Len(UpToName(f)), f.mapName)
         /\ Carries(w, Len(UpToMap(f)), f.folder)
         /\ Carries(w, Len(UpToDir(f)), f.game)
         /\ w[Len(UpToGame(f)) + 3] = f.players
         /\ w[Len(UpToGame(f)) + 4] = f.maxPlayers
         /\ Carries(w, Len(UpToGame(f)) + 9, f.version)
<1> DEFINE w == Answer(f)
<1>1. /\ Start(f) \in Data /\ UpToName(f) \in Data /\ UpToMap(f) \in Data /\ UpToDir(f) \in Data
      /\ UpToGame(f) \in Data /\ UpToFlags(f) \in Data
  <2>1. Start(f) \in Data
    BY StartPart
  <2>2. UpToName(f) \in Data /\ UpToMap(f) \in Data /\ UpToDir(f) \in Data /\ UpToGame(f) \in Data
    BY Strings
  <2>3. UpToFlags(f) \in Data
    BY Counts
  <2> QED
    BY <2>1, <2>2, <2>3
<1>2. /\ f.name \in Text /\ f.mapName \in Text /\ f.folder \in Text /\ f.game \in Text
      /\ f.version \in Text /\ f.extra \in Data
  BY FieldTypes
<1>3. /\ UpToVersion(f) \in Data /\ Prefix(UpToFlags(f), UpToVersion(f))
      /\ Carries(UpToVersion(f), Len(UpToFlags(f)), f.version)
  BY <1>1, <1>2, StringPart DEF UpToVersion
<1>4. w \in Data /\ Prefix(UpToVersion(f), w)
  <2>1. w = UpToVersion(f) \o f.extra
    BY AnswerParts
  <2> QED
    BY <1>2, <1>3, <2>1, PartOf
<1> HIDE DEF w
<1>5. Prefix(UpToFlags(f), w)
  BY <1>1, <1>3, <1>4, PrefixTransitive
<1>6. Prefix(UpToGame(f), w)
  <2>1. Prefix(UpToGame(f), UpToFlags(f))
    BY Counts
  <2> QED
    BY <1>1, <1>4, <1>5, <2>1, PrefixTransitive
<1>7. Prefix(UpToDir(f), w)
  <2>1. Prefix(UpToDir(f), UpToGame(f))
    BY Strings
  <2> QED
    BY <1>1, <1>4, <1>6, <2>1, PrefixTransitive
<1>8. Prefix(UpToMap(f), w)
  <2>1. Prefix(UpToMap(f), UpToDir(f))
    BY Strings
  <2> QED
    BY <1>1, <1>4, <1>7, <2>1, PrefixTransitive
<1>9. Prefix(UpToName(f), w)
  <2>1. Prefix(UpToName(f), UpToMap(f))
    BY Strings
  <2> QED
    BY <1>1, <1>4, <1>8, <2>1, PrefixTransitive
<1>10. Prefix(Start(f), w)
  <2>1. Prefix(Start(f), UpToName(f))
    BY Strings
  <2> QED
    BY <1>1, <1>4, <1>9, <2>1, PrefixTransitive
<1>11. /\ Len(UpToName(f)) \in Nat /\ Len(UpToMap(f)) \in Nat /\ Len(UpToDir(f)) \in Nat
       /\ Len(UpToGame(f)) \in Nat /\ Len(UpToFlags(f)) \in Nat
  BY <1>1 DEF Data
<1>12. Carries(w, 6, f.name)
  <2>1. Carries(UpToName(f), 6, f.name)
    BY Strings
  <2> QED
    BY <1>1, <1>2, <1>4, <1>9, <2>1, CarriesOn
<1>13. Carries(w, Len(UpToName(f)), f.mapName)
  <2>1. Carries(UpToMap(f), Len(UpToName(f)), f.mapName)
    BY Strings
  <2> QED
    BY <1>1, <1>2, <1>4, <1>8, <1>11, <2>1, CarriesOn
<1>14. Carries(w, Len(UpToMap(f)), f.folder)
  <2>1. Carries(UpToDir(f), Len(UpToMap(f)), f.folder)
    BY Strings
  <2> QED
    BY <1>1, <1>2, <1>4, <1>7, <1>11, <2>1, CarriesOn
<1>15. Carries(w, Len(UpToDir(f)), f.game)
  <2>1. Carries(UpToGame(f), Len(UpToDir(f)), f.game)
    BY Strings
  <2> QED
    BY <1>1, <1>2, <1>4, <1>6, <1>11, <2>1, CarriesOn
<1>16. w[Len(UpToGame(f)) + 3] = f.players /\ w[Len(UpToGame(f)) + 4] = f.maxPlayers
  <2>1. Len(UpToFlags(f)) = Len(UpToGame(f)) + 9
    BY Counts
  <2>2. /\ Len(UpToGame(f)) + 3 \in 1 .. Len(UpToFlags(f))
        /\ Len(UpToGame(f)) + 4 \in 1 .. Len(UpToFlags(f))
    BY <1>11, <2>1
  <2>3. /\ UpToFlags(f)[Len(UpToGame(f)) + 3] = f.players
        /\ UpToFlags(f)[Len(UpToGame(f)) + 4] = f.maxPlayers
    BY Counts
  <2> QED
    BY <1>5, <2>2, <2>3 DEF Prefix
<1>17. Carries(w, Len(UpToGame(f)) + 9, f.version)
  <2>1. Len(UpToFlags(f)) = Len(UpToGame(f)) + 9
    BY Counts
  <2>2. Carries(w, Len(UpToFlags(f)), f.version)
    BY <1>2, <1>3, <1>4, <1>11, CarriesOn
  <2> QED
    BY <2>1, <2>2
<1> QED
  BY <1>4, <1>10, <1>12, <1>13, <1>14, <1>15, <1>16, <1>17 DEF w

\* Four bytes at the front are the header.
LEMMA HeaderIs ==
  ASSUME NEW d \in Data, Len(d) >= 4, \A i \in 1 .. 4 : d[i] = 255
  PROVE  SubSeq(d, 1, 4) = a2sHeader
<1>1. /\ SubSeq(d, 1, 4) \in Data /\ Len(SubSeq(d, 1, 4)) = 4
      /\ \A i \in 1 .. 4 : SubSeq(d, 1, 4)[i] = d[i]
  BY DEF Data
<1>2. a2sHeader \in Data /\ Len(a2sHeader) = 4 /\ \A i \in 1 .. 4 : a2sHeader[i] = 255
  BY DEF a2sHeader, Data, Byte
<1> QED
  BY <1>1, <1>2 DEF Data

\* What is read of a cut answer is right.
LEMMA CutFields ==
  ASSUME NEW f \in Fields, NEW d \in Data, Prefix(d, Answer(f)), parseA2SInfo(d).ok
  PROVE  /\ parseA2SInfo(d).name = f.name /\ parseA2SInfo(d).mapName = f.mapName
         /\ parseA2SInfo(d).players \in {0, f.players}
         /\ parseA2SInfo(d).maxPlayers \in {0, f.maxPlayers}
         /\ parseA2SInfo(d).version \in {<<>>, f.version}
<1> DEFINE w == Answer(f)
           n1 == Len(UpToName(f))
           n2 == Len(UpToMap(f))
           n3 == Len(UpToDir(f))
           n4 == Len(UpToGame(f))
<1>1. w \in Data /\ Prefix(d, w)
  BY Layout
<1>2. /\ f.name \in Text /\ f.mapName \in Text /\ f.folder \in Text /\ f.game \in Text
      /\ f.version \in Text
  BY FieldTypes
<1>3. /\ n1 = 6 + Len(f.name) + 1 /\ n2 = n1 + Len(f.mapName) + 1
      /\ n3 = n2 + Len(f.folder) + 1 /\ n4 = n3 + Len(f.game) + 1
  BY Strings
<1>4. n1 \in Nat /\ n2 \in Nat /\ n3 \in Nat /\ n4 \in Nat
  <2>1. UpToName(f) \in Data /\ UpToMap(f) \in Data /\ UpToDir(f) \in Data /\ UpToGame(f) \in Data
    BY Strings
  <2> QED
    BY <2>1 DEF Data
<1>5. /\ Carries(w, 6, f.name) /\ Carries(w, n1, f.mapName) /\ Carries(w, n2, f.folder)
      /\ Carries(w, n3, f.game) /\ Carries(w, n4 + 9, f.version)
      /\ w[n4 + 3] = f.players /\ w[n4 + 4] = f.maxPlayers
  BY Layout
<1>6. ~(\/ Len(d) < 6 \/ ~HasType(d, 73)
        \/ readName(d).err \/ readMapName(d).err \/ readFolder(d).err \/ readGame(d).err)
  <2>1. NoInfo.ok = FALSE
    BY DEF NoInfo
  <2> QED
    BY <2>1, Zenon DEF parseA2SInfo
<1> HIDE DEF w, n1, n2, n3, n4
<1>8. readName(d).val = f.name /\ readName(d).pos = n1
  <2>1. \/ /\ readString(d, 6).val = f.name
           /\ readString(d, 6).pos = 6 + Len(f.name) + 1
        \/ readString(d, 6).err
    BY <1>1, <1>2, <1>5, ReadField
  <2>2. readName(d) = readString(d, 6)
    BY DEF readName
  <2>3. ~readString(d, 6).err
    BY <1>6, <2>2, Zenon
  <2> QED
    BY <1>3, <2>1, <2>2, <2>3, Zenon
<1>9. readMapName(d).val = f.mapName /\ readMapName(d).pos = n2
  <2>1. \/ /\ readString(d, n1).val = f.mapName
           /\ readString(d, n1).pos = n1 + Len(f.mapName) + 1
        \/ readString(d, n1).err
    BY <1>1, <1>2, <1>4, <1>5, ReadField
  <2>2. readMapName(d) = readString(d, n1)
    BY <1>8 DEF readMapName
  <2>3. ~readString(d, n1).err
    BY <1>6, <2>2, Zenon
  <2> QED
    BY <1>3, <2>1, <2>2, <2>3, Zenon
<1>10. readFolder(d).val = f.folder /\ readFolder(d).pos = n3
  <2>1. \/ /\ readString(d, n2).val = f.folder
           /\ readString(d, n2).pos = n2 + Len(f.folder) + 1
        \/ readString(d, n2).err
    BY <1>1, <1>2, <1>4, <1>5, ReadField
  <2>2. readFolder(d) = readString(d, n2)
    BY <1>9 DEF readFolder
  <2>3. ~readString(d, n2).err
    BY <1>6, <2>2, Zenon
  <2> QED
    BY <1>3, <2>1, <2>2, <2>3, Zenon
<1>11. readGame(d).val = f.game /\ readGame(d).pos = n4
  <2>1. \/ /\ readString(d, n3).val = f.game
           /\ readString(d, n3).pos = n3 + Len(f.game) + 1
        \/ readString(d, n3).err
    BY <1>1, <1>2, <1>4, <1>5, ReadField
  <2>2. readGame(d) = readString(d, n3)
    BY <1>10 DEF readGame
  <2>3. ~readString(d, n3).err
    BY <1>6, <2>2, Zenon
  <2> QED
    BY <1>3, <2>1, <2>2, <2>3, Zenon
<1>12. Len(d) \in Nat
  BY DEF Data
<1>13. readPlayers(d) = readByte(d, n4 + 2) /\ n4 + 2 \in Nat
  <2>1. n4 + 2 \in Nat
    BY <1>4
  <2>2. readPlayers(d) = readByte(d, n4 + 2)
    BY <1>11 DEF readPlayers
  <2> QED
    BY <2>1, <2>2
<1>14. ASSUME ~(n4 + 2 < Len(d))
       PROVE  readPlayers(d).val = 0 /\ readMaxPlayers(d).val = 0 /\ readMaxPlayers(d).pos = n4 + 2
  <2>1. readPlayers(d).val = 0 /\ readPlayers(d).pos = n4 + 2
    BY <1>13, <1>14, ReadOneByte
  <2>2. readMaxPlayers(d) = readByte(d, n4 + 2)
    BY <2>1 DEF readMaxPlayers
  <2> QED
    BY <1>13, <1>14, <2>1, <2>2, ReadOneByte
<1>15. ASSUME n4 + 2 < Len(d)
       PROVE  readPlayers(d).val = f.players /\ readMaxPlayers(d) = readByte(d, n4 + 3)
  <2>1. n4 + 3 \in 1 .. Len(d) /\ n4 + 2 + 1 = n4 + 3
    BY <1>4, <1>12, <1>15
  <2>2. d[n4 + 3] = f.players
    BY <1>1, <1>5, <2>1 DEF Prefix
  <2>3. readPlayers(d).val = d[n4 + 3] /\ readPlayers(d).pos = n4 + 3
    <3>1. PICK m \in Nat : m = n4 + 2 /\ m + 1 = n4 + 3
      BY <1>13, <2>1
    <3>2. readByte(d, m).val = d[m + 1] /\ readByte(d, m).pos = m + 1
      BY <1>15, <3>1, ReadOneByte
    <3> QED
      BY <1>13, <3>1, <3>2
  <2> QED
    BY <2>2, <2>3 DEF readMaxPlayers
<1>16. n4 + 3 \in Nat
  BY <1>4
<1>17. ASSUME n4 + 2 < Len(d), ~(n4 + 3 < Len(d))
       PROVE  readMaxPlayers(d).val = 0 /\ readMaxPlayers(d).pos = n4 + 3
  <2>1. readMaxPlayers(d) = readByte(d, n4 + 3)
    BY <1>15, <1>17
  <2>2. PICK m \in Nat : m = n4 + 3
    BY <1>16
  <2>3. readByte(d, m).val = 0 /\ readByte(d, m).pos = m
    BY <1>17, <2>2, ReadOneByte
  <2> QED
    BY <2>1, <2>2, <2>3
<1>18. ASSUME n4 + 3 < Len(d)
       PROVE  readMaxPlayers(d).val = f.maxPlayers /\ readMaxPlayers(d).pos = n4 + 4
  <2>1. n4 + 2 < Len(d) /\ n4 + 4 \in 1 .. Len(d) /\ n4 + 3 + 1 = n4 + 4
    BY <1>4, <1>12, <1>18
  <2>2. d[n4 + 4] = f.maxPlayers
    BY <1>1, <1>5, <2>1 DEF Prefix
  <2>3. readMaxPlayers(d) = readByte(d, n4 + 3)
    BY <1>15, <2>1
  <2>4. readByte(d, n4 + 3).val = d[n4 + 3 + 1] /\ readByte(d, n4 + 3).pos = n4 + 3 + 1
    BY <1>16, <1>18, ReadOneByte, Zenon
  <2> QED
    BY <2>1, <2>2, <2>3, <2>4, Zenon
<1>19. ASSUME ~(n4 + 3 < Len(d))
       PROVE  readVersion(d).val = <<>>
  <2>1. readMaxPlayers(d).pos \in {n4 + 2, n4 + 3}
    BY <1>14, <1>17, <1>19
  <2>2. Nuls(d, readMaxPlayers(d).pos + 5) = {}
    BY <1>4, <1>12, <1>19, <2>1 DEF Nuls
  <2> QED
    BY <2>2 DEF readVersion, readString
<1>20. ASSUME n4 + 3 < Len(d)
       PROVE  readVersion(d).val \in {<<>>, f.version}
  <2>1. readMaxPlayers(d).pos = n4 + 4
    BY <1>18, <1>20
  <2>2. n4 + 4 + 5 = n4 + 9 /\ n4 + 9 \in Nat
    BY <1>4
  <2>3. PICK m \in Nat : m = n4 + 9
    BY <2>2
  <2>4. Carries(w, m, f.version)
    BY <1>5, <2>3
  <2>5. readString(d, m).val = f.version \/ readString(d, m).val = <<>>
    BY <1>1, <1>2, <2>4, ReadField
  <2>6. readVersion(d) = readString(d, m)
    BY <2>1, <2>2, <2>3 DEF readVersion
  <2> QED
    BY <2>5, <2>6
<1>21. readPlayers(d).val \in {0, f.players}
  BY <1>14, <1>15
<1>22. readMaxPlayers(d).val \in {0, f.maxPlayers}
  BY <1>14, <1>17, <1>18
<1>23. readVersion(d).val \in {<<>>, f.version}
  BY <1>19, <1>20
<1>24. /\ parseA2SInfo(d).name = readName(d).val /\ parseA2SInfo(d).mapName = readMapName(d).val
       /\ parseA2SInfo(d).players = readPlayers(d).val
       /\ parseA2SInfo(d).maxPlayers = readMaxPlayers(d).val
       /\ parseA2SInfo(d).version = readVersion(d).val
  BY <1>6, ParsedFields
<1> QED
  BY <1>8, <1>9, <1>21, <1>22, <1>23, <1>24

\* parseA2SInfo reads out of an answer what the game server put into it, whatever the
\* lengths of its strings and whatever newer servers append.
THEOREM ParsesAnswers ==
  ASSUME NEW f \in Fields
  PROVE  LET info == parseA2SInfo(Answer(f)) IN
         /\ info.ok = TRUE /\ info.name = f.name /\ info.mapName = f.mapName
         /\ info.players = f.players /\ info.maxPlayers = f.maxPlayers /\ info.version = f.version
<1> DEFINE w == Answer(f)
           n1 == Len(UpToName(f))
           n2 == Len(UpToMap(f))
           n3 == Len(UpToDir(f))
           n4 == Len(UpToGame(f))
<1>1. w \in Data /\ Prefix(Start(f), w)
  BY Layout
<1>2. /\ f.name \in Text /\ f.mapName \in Text /\ f.folder \in Text /\ f.game \in Text
      /\ f.version \in Text
  BY FieldTypes
<1>3. /\ n1 = 6 + Len(f.name) + 1 /\ n2 = n1 + Len(f.mapName) + 1
      /\ n3 = n2 + Len(f.folder) + 1 /\ n4 = n3 + Len(f.game) + 1
  BY Strings
<1>4. n1 \in Nat /\ n2 \in Nat /\ n3 \in Nat /\ n4 \in Nat
  <2>1. UpToName(f) \in Data /\ UpToMap(f) \in Data /\ UpToDir(f) \in Data /\ UpToGame(f) \in Data
    BY Strings
  <2> QED
    BY <2>1 DEF Data
<1>5. /\ Carries(w, 6, f.name) /\ Carries(w, n1, f.mapName) /\ Carries(w, n2, f.folder)
      /\ Carries(w, n3, f.game) /\ Carries(w, n4 + 9, f.version)
      /\ w[n4 + 3] = f.players /\ w[n4 + 4] = f.maxPlayers
  BY Layout
<1>6. /\ Len(Start(f)) = 6 /\ \A i \in 1 .. 4 : Start(f)[i] = 255
      /\ Start(f)[5] = 73
  BY StartPart
<1> HIDE DEF w, n1, n2, n3, n4
<1>7. Len(w) \in Nat /\ Len(w) >= 6 /\ HasType(w, 73)
  <2>1. Len(w) \in Nat /\ Len(w) >= 6
    BY <1>1, <1>6 DEF Prefix, Data
  <2>2. w[5] = 73 /\ \A i \in 1 .. 4 : w[i] = 255
    BY <1>1, <1>6 DEF Prefix
  <2> QED
    BY <1>1, <2>1, <2>2, HeaderIs DEF HasType
<1>8. readName(w).err = FALSE /\ readName(w).val = f.name /\ readName(w).pos = n1
  <2>1. /\ readString(w, 6).err = FALSE /\ readString(w, 6).val = f.name
        /\ readString(w, 6).pos = 6 + Len(f.name) + 1
    <3>1. w \in Data
      BY <1>1
    <3>2. f.name \in Text
      BY <1>2
    <3>3. 6 \in Nat
      OBVIOUS
    <3>4. Carries(w, 6, f.name)
      BY <1>5
    <3> QED
      BY <3>1, <3>2, <3>3, <3>4, ReadCarried
  <2>2. readName(w) = readString(w, 6)
    BY DEF readName
  <2> QED
    BY <1>3, <2>1, <2>2, Zenon
<1>9. readMapName(w).err = FALSE /\ readMapName(w).val = f.mapName /\ readMapName(w).pos = n2
  <2>1. /\ readString(w, n1).err = FALSE /\ readString(w, n1).val = f.mapName
        /\ readString(w, n1).pos = n1 + Len(f.mapName) + 1
    <3>1. w \in Data
      BY <1>1
    <3>2. f.mapName \in Text
      BY <1>2
    <3>3. n1 \in Nat
      BY <1>4
    <3>4. Carries(w, n1, f.mapName)
      BY <1>5
    <3> QED
      BY <3>1, <3>2, <3>3, <3>4, ReadCarried
  <2>2. readMapName(w) = readString(w, n1)
    BY <1>8 DEF readMapName
  <2> QED
    BY <1>3, <2>1, <2>2, Zenon
<1>10. readFolder(w).err = FALSE /\ readFolder(w).val = f.folder /\ readFolder(w).pos = n3
  <2>1. /\ readString(w, n2).err = FALSE /\ readString(w, n2).val = f.folder
        /\ readString(w, n2).pos = n2 + Len(f.folder) + 1
    <3>1. w \in Data
      BY <1>1
    <3>2. f.folder \in Text
      BY <1>2
    <3>3. n2 \in Nat
      BY <1>4
    <3>4. Carries(w, n2, f.folder)
      BY <1>5
    <3> QED
      BY <3>1, <3>2, <3>3, <3>4, ReadCarried
  <2>2. readFolder(w) = readString(w, n2)
    BY <1>9 DEF readFolder
  <2> QED
    BY <1>3, <2>1, <2>2, Zenon
<1>11. readGame(w).err = FALSE /\ readGame(w).val = f.game /\ readGame(w).pos = n4
  <2>1. /\ readString(w, n3).err = FALSE /\ readString(w, n3).val = f.game
        /\ readString(w, n3).pos = n3 + Len(f.game) + 1
    <3>1. w \in Data
      BY <1>1
    <3>2. f.game \in Text
      BY <1>2
    <3>3. n3 \in Nat
      BY <1>4
    <3>4. Carries(w, n3, f.game)
      BY <1>5
    <3> QED
      BY <3>1, <3>2, <3>3, <3>4, ReadCarried
  <2>2. readGame(w) = readString(w, n3)
    BY <1>10 DEF readGame
  <2> QED
    BY <1>3, <2>1, <2>2, Zenon
<1>12. n4 + 2 < Len(w) /\ n4 + 3 < Len(w)
  <2>1. Len(f.version) \in Nat
    BY <1>2, TextIsData
  <2>2. n4 + 9 + Len(f.version) < Len(w)
    BY <1>5 DEF Carries
  <2>3. Len(w) \in Nat /\ n4 \in Nat
    BY <1>4, <1>7
  <2>4. \A a, b, c \in Nat : a + 9 + b < c => a + 2 < c /\ a + 3 < c
    OBVIOUS
  <2> QED
    BY <2>1, <2>2, <2>3, <2>4, Zenon
<1>13. readPlayers(w).val = f.players /\ readPlayers(w).pos = n4 + 3
  <2>1. PICK m \in Nat : m = n4 + 2 /\ m + 1 = n4 + 3 /\ m < Len(w)
    BY <1>4, <1>12
  <2>2. readPlayers(w) = readByte(w, m)
    BY <1>11, <2>1 DEF readPlayers
  <2>3. w \in Data
    BY <1>1
  <2>4. readByte(w, m).val = w[m + 1] /\ readByte(w, m).pos = m + 1
    BY <2>1, <2>3, ReadOneByte
  <2> QED
    BY <1>5, <2>1, <2>2, <2>4
<1>14. readMaxPlayers(w).val = f.maxPlayers /\ readMaxPlayers(w).pos = n4 + 4
  <2>1. PICK m \in Nat : m = n4 + 3 /\ m + 1 = n4 + 4 /\ m < Len(w)
    BY <1>4, <1>12
  <2>2. readMaxPlayers(w) = readByte(w, m)
    BY <1>13, <2>1 DEF readMaxPlayers
  <2>3. w \in Data
    BY <1>1
  <2>4. readByte(w, m).val = w[m + 1] /\ readByte(w, m).pos = m + 1
    BY <2>1, <2>3, ReadOneByte
  <2> QED
    BY <1>5, <2>1, <2>2, <2>4
<1>15. readVersion(w).val = f.version
  <2>1. n4 + 4 + 5 = n4 + 9 /\ n4 + 9 \in Nat
    BY <1>4
  <2>2. PICK m \in Nat : m = n4 + 9
    BY <2>1
  <2>3. Carries(w, m, f.version)
    BY <1>5, <2>2
  <2>4. readString(w, m).val = f.version
    BY <1>1, <1>2, <2>3, ReadCarried
  <2>5. readVersion(w) = readString(w, m)
    BY <1>14, <2>1, <2>2 DEF readVersion
  <2> QED
    BY <2>4, <2>5
<1>16. ~(\/ Len(w) < 6 \/ ~HasType(w, 73)
         \/ readName(w).err \/ readMapName(w).err \/ readFolder(w).err \/ readGame(w).err)
  <2>1. ~(Len(w) < 6) /\ HasType(w, 73)
    BY <1>7
  <2> QED
    BY <1>8, <1>9, <1>10, <1>11, <2>1, Zenon
<1>17. /\ parseA2SInfo(w).ok = TRUE
       /\ parseA2SInfo(w).name = readName(w).val /\ parseA2SInfo(w).mapName = readMapName(w).val
       /\ parseA2SInfo(w).players = readPlayers(w).val
       /\ parseA2SInfo(w).maxPlayers = readMaxPlayers(w).val
       /\ parseA2SInfo(w).version = readVersion(w).val
  BY <1>16, ParsedFields
<1>18. /\ parseA2SInfo(w).ok = TRUE /\ parseA2SInfo(w).name = f.name
       /\ parseA2SInfo(w).mapName = f.mapName /\ parseA2SInfo(w).players = f.players
       /\ parseA2SInfo(w).maxPlayers = f.maxPlayers /\ parseA2SInfo(w).version = f.version
  BY <1>8, <1>9, <1>13, <1>14, <1>15, <1>17, Zenon
<1> QED
  BY <1>18 DEF w

\* An answer is no challenge.
LEMMA AnswerType ==
  ASSUME NEW f \in Fields
  PROVE  Answer(f) \in Data /\ ~IsChallenge(Answer(f))
<1>1. Answer(f) \in Data /\ Prefix(Start(f), Answer(f))
  BY Layout
<1>2. Len(Start(f)) = 6 /\ Start(f)[5] = 73
  BY StartPart
<1>3. Answer(f)[5] = 73
  BY <1>1, <1>2 DEF Prefix
<1> QED
  BY <1>1, <1>3 DEF IsChallenge, HasType

\* A challenge packet is one, gives back its four bytes, and is no answer.
LEMMA ChallengeType ==
  ASSUME NEW token \in Bytes(4)
  PROVE  LET w == ChallengePacket(token) IN
         /\ w \in Data /\ Len(w) = 9
         /\ IsChallenge(w) /\ ChallengeIn(w) = token /\ ~parseA2SInfo(w).ok
<1> DEFINE w == ChallengePacket(token)
<1>1. token \in Data /\ Len(token) = 4
  BY DEF Bytes
<1>2. /\ a2sHeader \in Data /\ Len(a2sHeader) = 4 /\ \A i \in 1 .. 4 : a2sHeader[i] = 255
      /\ <<65>> \in Data /\ Len(<<65>>) = 1 /\ <<65>>[1] = 65
  BY DEF a2sHeader, Data, Byte
<1> DEFINE h == a2sHeader \o <<65>>
<1>3. h \in Data /\ Len(h) = 5 /\ h[5] = 65 /\ \A i \in 1 .. 4 : h[i] = 255
  BY DEF a2sHeader, Data, Byte
<1>4. w = h \o token
  BY DEF ChallengePacket
<1> HIDE DEF h, w
<1>5. /\ w \in Data /\ Len(w) = Len(h) + Len(token) /\ \A i \in 1 .. Len(h) : w[i] = h[i]
      /\ \A i \in 1 .. Len(token) : w[Len(h) + i] = token[i]
  <2>1. h \in Data
    BY <1>3
  <2>2. token \in Data
    BY <1>1
  <2> QED
    BY <1>4, <2>1, <2>2, Concat
<1>6. Len(w) = 9 /\ w[5] = 65 /\ \A i \in 1 .. 4 : w[i] = 255
  <2>1. Len(w) = 9
    BY <1>1, <1>3, <1>5
  <2>2. \A i \in 1 .. 5 : w[i] = h[i]
    BY <1>3, <1>5
  <2> QED
    BY <1>3, <2>1, <2>2
<1>7. SubSeq(w, 1, 4) = a2sHeader
  <2>1. w \in Data
    BY <1>5
  <2>2. Len(w) >= 4
    BY <1>6
  <2>3. \A i \in 1 .. 4 : w[i] = 255
    BY <1>6
  <2> QED
    BY <2>1, <2>2, <2>3, HeaderIs
<1>8. IsChallenge(w) /\ ~HasType(w, 73)
  BY <1>6, <1>7 DEF IsChallenge, HasType
<1>9. ~parseA2SInfo(w).ok
  BY <1>8 DEF parseA2SInfo, NoInfo
<1>10. ChallengeIn(w) = token
  <2>1. /\ SubSeq(w, 6, 9) \in Data /\ Len(SubSeq(w, 6, 9)) = 4
        /\ \A i \in 1 .. 4 : SubSeq(w, 6, 9)[i] = w[5 + i]
    <3>1. PICK m \in Nat, n \in Nat : m = 5 /\ n = 4
      OBVIOUS
    <3>2. w \in Data
      BY <1>5
    <3>3. m + n <= Len(w)
      BY <1>6, <3>1
    <3>4. /\ SubSeq(w, m + 1, m + n) \in Data /\ Len(SubSeq(w, m + 1, m + n)) = n
          /\ \A i \in 1 .. n : SubSeq(w, m + 1, m + n)[i] = w[m + i]
      BY <3>2, <3>3, Slice
    <3>5. m + 1 = 6 /\ m + n = 9
      BY <3>1
    <3> QED
      BY <3>1, <3>4, <3>5
  <2>2. \A i \in 1 .. 4 : w[5 + i] = token[i]
    BY <1>1, <1>3, <1>5
  <2>3. \A i \in 1 .. 4 : SubSeq(w, 6, 9)[i] = token[i]
    BY <2>1, <2>2
  <2>4. SubSeq(w, 6, 9) = token
    BY <1>1, <2>1, <2>3 DEF Data
  <2> QED
    BY <2>4 DEF ChallengeIn
<1> QED
  BY <1>5, <1>6, <1>8, <1>9, <1>10 DEF w

\* What fits into the buffer is received as it is.
LEMMA ReceivedInFull ==
  ASSUME NEW d \in Data, Len(d) <= BufferSize
  PROVE  ReadFrom(d) = d
<1>1. Len(d) \in Nat /\ BufferSize \in Nat
  BY DEF Data, BufferSize
<1>2. ReadFrom(d) = SubSeq(d, 1, Len(d))
  BY <1>1 DEF ReadFrom
<1>3. SubSeq(d, 1, Len(d)) = d
  BY DEF Data
<1> QED
  BY <1>2, <1>3

\* What does not is received as far as it fits.
LEMMA ReceivedPrefix ==
  ASSUME NEW d \in Data
  PROVE  ReadFrom(d) \in Data /\ Prefix(ReadFrom(d), d)
<1>1. Len(d) \in Nat /\ BufferSize \in Nat
  BY DEF Data, BufferSize
<1>2. PICK n \in Nat : n <= Len(d) /\ ReadFrom(d) = SubSeq(d, 1, n)
  BY <1>1 DEF ReadFrom
<1>3. /\ SubSeq(d, 1, n) \in Data /\ Len(SubSeq(d, 1, n)) = n
      /\ \A i \in 1 .. n : SubSeq(d, 1, n)[i] = d[i]
  BY <1>1, <1>2 DEF Data
<1> QED
  BY <1>2, <1>3 DEF Prefix

\* An answer that does not fit into the buffer of queryA2SInfo is refused or read as far as
\* it goes: no field gets another one's bytes.  Counts that are cut off read as zero,
\* because parseA2SInfo drops the errors of readByte.
THEOREM CutAnswers ==
  ASSUME NEW f \in Fields, parseA2SInfo(ReadFrom(Answer(f))).ok
  PROVE  LET info == parseA2SInfo(ReadFrom(Answer(f))) IN
         /\ info.name = f.name /\ info.mapName = f.mapName
         /\ info.players \in {0, f.players} /\ info.maxPlayers \in {0, f.maxPlayers}
         /\ info.version \in {<<>>, f.version}
<1> DEFINE d == ReadFrom(Answer(f))
<1>1. Answer(f) \in Data
  BY AnswerType
<1>2. d \in Data /\ Prefix(d, Answer(f))
  BY <1>1, ReceivedPrefix
<1>3. parseA2SInfo(d).ok
  OBVIOUS
<1> HIDE DEF d
<1>4. /\ parseA2SInfo(d).name = f.name /\ parseA2SInfo(d).mapName = f.mapName
      /\ parseA2SInfo(d).players \in {0, f.players}
      /\ parseA2SInfo(d).maxPlayers \in {0, f.maxPlayers}
      /\ parseA2SInfo(d).version \in {<<>>, f.version}
  BY <1>2, <1>3, CutFields
<1> QED
  BY <1>4 DEF d

-----------------------------------------------------------------------------
(* Datagrams.                                                               *)

LEMMA Kinds ==
  /\ \A c : Request(c).kind = "request" /\ Request(c).challenge = c
  /\ \A t : Challenge(t).kind = "challenge" /\ Challenge(t).token = t
  /\ \A r : Info(r).kind = "info" /\ Info(r).report = r
BY DEF Request, Challenge, Info

LEMMA PacketShape ==
  ASSUME NEW p \in Packet
  PROVE  /\ p.kind \in {"request", "challenge", "info"}
         /\ p.kind = "challenge" => p \in ServerPacket /\ p.token \in BOOLEAN
         /\ p.kind = "info" => p \in ServerPacket /\ p.report \in Report
<1>1. \/ \E c : p = Request(c)
      \/ \E t \in BOOLEAN : p = Challenge(t)
      \/ \E r \in Report : p = Info(r)
  BY DEF Packet, ServerPacket
<1>2. CASE \E c : p = Request(c)
  BY <1>2, Kinds
<1>3. CASE \E t \in BOOLEAN : p = Challenge(t)
  <2>1. PICK t \in BOOLEAN : p = Challenge(t)
    BY <1>3
  <2>2. p.kind = "challenge" /\ p.token = t
    BY <2>1 DEF Challenge
  <2>3. p \in ServerPacket
    BY <2>1 DEF ServerPacket
  <2> QED
    BY <2>2, <2>3
<1>4. CASE \E r \in Report : p = Info(r)
  <2>1. PICK r \in Report : p = Info(r)
    BY <1>4
  <2>2. p.kind = "info" /\ p.report = r
    BY <2>1 DEF Info
  <2>3. p \in ServerPacket
    BY <2>1 DEF ServerPacket
  <2> QED
    BY <2>2, <2>3
<1> QED
  BY <1>1, <1>2, <1>3, <1>4

LEMMA Made ==
  /\ Request(NoChallenge) \in Packet
  /\ \A t \in BOOLEAN : Request(TokenBytes(t)) \in Packet
  /\ \A t \in BOOLEAN : Challenge(t) \in Packet
  /\ \A r \in Report : Info(r) \in Packet
BY DEF Packet, ServerPacket

LEMMA PlayersBound == MaxPlayers \in Nat
BY SidecarBounds DEF Byte

LEMMA PlayersAreBytes == 0 .. MaxPlayers \subseteq Byte
<1>1. MaxPlayers \in 0 .. 255
  BY SidecarBounds DEF Byte
<1> QED
  BY <1>1 DEF Byte

LEMMA TokenType ==
  ASSUME NEW t \in BOOLEAN
  PROVE  TokenBytes(t) \in Bytes(4)
<1>1. PICK b \in Byte : b = IF t THEN 1 ELSE 0
  BY DEF Byte
<1>2. TokenBytes(t) = <<b, 0, 0, 0>>
  BY <1>1 DEF TokenBytes
<1>3. <<b, 0, 0, 0>> \in Data /\ Len(<<b, 0, 0, 0>>) = 4
  <2>1. 0 \in Byte
    BY DEF Byte
  <2> QED
    BY <2>1 DEF Data
<1> QED
  BY <1>2, <1>3 DEF Bytes

\* The sidecar sees a challenge for what it is ...
LEMMA DecodesChallenge ==
  ASSUME NEW p \in ServerPacket, p.kind = "challenge", p.token \in BOOLEAN
  PROVE  /\ IsChallenge(Received[p]) /\ ChallengeIn(Received[p]) = TokenBytes(p.token)
         /\ ~Parsed[p].ok
<1> DEFINE w == ChallengePacket(TokenBytes(p.token))
<1>1. TokenBytes(p.token) \in Bytes(4)
  BY TokenType
<1>2. /\ w \in Data /\ Len(w) = 9
      /\ IsChallenge(w) /\ ChallengeIn(w) = TokenBytes(p.token) /\ ~parseA2SInfo(w).ok
  BY <1>1, ChallengeType
<1>3. Wire(p) = w
  BY DEF Wire
<1> HIDE DEF w
<1>4. ReadFrom(w) = w
  <2>1. Len(w) <= BufferSize
    BY <1>2 DEF BufferSize
  <2> QED
    BY <1>2, <2>1, ReceivedInFull
<1>5. Received[p] = w
  BY <1>3, <1>4 DEF Received
<1>6. Parsed[p] = parseA2SInfo(w)
  BY <1>5 DEF Parsed
<1> QED
  BY <1>2, <1>5, <1>6

\* ... and reads an answer as the report it was made from.
LEMMA DecodesInfo ==
  ASSUME NEW p \in ServerPacket, p.kind = "info", p.report \in Report, p.report.version \in Version
  PROVE  /\ ~IsChallenge(Received[p]) /\ Parsed[p].ok
         /\ [players |-> Parsed[p].players, version |-> Parsed[p].version] = p.report
<1> DEFINE n == p.report.players
           v == p.report.version
           f == [Banner EXCEPT !.players = n, !.version = v]
<1>1. n \in 0 .. MaxPlayers /\ v \in Version
  BY DEF Report
<1>2. n \in Byte /\ v \in Text
  <2>1. v \in Text
    BY <1>1, SidecarVersions
  <2>2. n \in Byte
    <3>1. 0 .. MaxPlayers \subseteq Byte
      BY PlayersAreBytes
    <3> QED
      BY <1>1, <3>1
  <2> QED
    BY <2>1, <2>2
<1>3. p.report = [players |-> n, version |-> v]
  BY DEF Report
<1>4. f \in Fields /\ f.players = n /\ f.version = v
  BY <1>2, AnswersFit DEF Fields
<1>5. Len(Answer(f)) <= BufferSize
  BY <1>1, AnswersFit
<1>6. Wire(p) = Answer(f)
  BY DEF Wire
<1> HIDE DEF n, v, f
<1>7. Answer(f) \in Data /\ ~IsChallenge(Answer(f))
  BY <1>4, AnswerType
<1>8. ReadFrom(Answer(f)) = Answer(f)
  BY <1>5, <1>7, ReceivedInFull
<1>9. Received[p] = Answer(f)
  BY <1>6, <1>8 DEF Received
<1>10. Parsed[p] = parseA2SInfo(Answer(f))
  BY <1>9 DEF Parsed
<1>11. /\ parseA2SInfo(Answer(f)).ok = TRUE /\ parseA2SInfo(Answer(f)).players = f.players
       /\ parseA2SInfo(Answer(f)).version = f.version
  BY <1>4, ParsesAnswers
<1>12. Parsed[p].ok /\ Parsed[p].players = n /\ Parsed[p].version = v
  BY <1>4, <1>10, <1>11, Zenon
<1> QED
  BY <1>3, <1>7, <1>9, <1>12

\* So what it does with a packet depends on the packet's kind.
LEMMA Decoding ==
  ASSUME TypeOK, AnswersAreVersioned, NEW p \in FromServer
  PROVE  /\ p \in net /\ p.kind \in {"challenge", "info"}
         /\ p.kind = "challenge" => /\ IsChallenge(Received[p]) /\ ~Parsed[p].ok
                                    /\ p.token \in BOOLEAN
                                    /\ ChallengeIn(Received[p]) = TokenBytes(p.token)
         /\ p.kind = "info" =>
              /\ ~IsChallenge(Received[p]) /\ Parsed[p].ok /\ p.report \in Report
              /\ [players |-> Parsed[p].players, version |-> Parsed[p].version] = p.report
<1>1. p \in net /\ p \in Packet /\ p.kind # "request"
  BY DEF FromServer, TypeOK
<1>2. p.kind = "info" => p.report.version \in Version
  BY <1>1 DEF AnswersAreVersioned
<1> QED
  BY <1>1, <1>2, PacketShape, DecodesChallenge, DecodesInfo

LEMMA SentShape ==
  ASSUME NEW c
  PROVE  /\ \A p, q \in Sent(c) : p = q
         /\ \A p \in Sent(c) : p = Request(c) /\ game.up
BY DEF Sent

LEMMA SentKind ==
  ASSUME NEW c
  PROVE  \A p \in Sent(c) : p.kind = "request" /\ p.kind # "info" /\ game.up
<1>1. Request(c).kind = "request"
  BY DEF Request
<1> QED
  BY <1>1, SentShape

LEMMA NowReport ==
  ASSUME NEW g \in Game
  PROVE  Now(g) \in Report /\ Now(g).players = g.players /\ Now(g).version = g.version
BY DEF Game, Report, Now

LEMMA NoReportIsReport == NoReport \in Report /\ NoReport.players = 0
BY PlayersBound DEF Report, NoReport

LEMMA ReportFields ==
  ASSUME NEW r \in Report
  PROVE  r.players \in 0 .. MaxPlayers /\ r.version \in Version \cup {None}
BY DEF Report

-----------------------------------------------------------------------------
(* The kinds of steps.                                                      *)

\* The scrape, when the query is over, and the users of the API server.
Calls == Get \/ Patch \/ CallFails \/ SidecarRestarts \/ CRReplaced

Answered == ReceiveInfo
Failed   == ReceiveUnexpected \/ Timeout
Played   == GameStops \/ Join \/ Leave \/ \E v \in Version : GameStarts(v)

LEMMA Steps ==
  Next <=> Calls \/ Answered \/ Failed \/ Played \/ Tick \/ ReceiveChallenge \/ GameAnswers
BY DEF Next, Sidecar, Calls, Answered, Failed, Played

\* What the steps do to the query.
LEMMA CallsEffect ==
  ASSUME Calls
  PROVE  /\ game' = game
         /\ net' = net \/ (net' = {} /\ pc' = "wait")
         /\ \/ pc' = "wait" /\ pc \in {"get", "patch"} /\ net' = net
            \/ pc' = "wait" /\ net' = {}
            \/ pc = "get" /\ pc' = "patch" /\ UNCHANGED <<net, answer, since, ready>>
            \/ UNCHANGED <<pc, net, answer, since, ready>>
         /\ \/ UNCHANGED <<ready, previous, series>>
            \/ ready' = FALSE /\ previous' = None /\ series' = {}
BY DEF Calls, Get, Patch, CallFails, SidecarRestarts, CRReplaced, Done, metrics

LEMMA FailedEffect ==
  ASSUME Failed
  PROVE  /\ UNCHANGED <<game, series, since, got, status>> /\ net' = {} /\ pc' = "get"
         /\ ready' = FALSE /\ previous' = None /\ answer' = NoReport /\ active' = 0
BY DEF Failed, ReceiveUnexpected, Timeout, Fail

LEMMA PlayedEffect ==
  ASSUME TypeOK, Played
  PROVE  /\ game' \in Game
         /\ game'.up => game'.version \in Version \/ (game.up /\ game'.version = game.version)
         /\ since' = IF pc \in {"first", "second"} THEN since \cup {Now(game)'} ELSE since
         /\ net' = net \/ (net' = {p \in net : p.kind # "request"})
         /\ game.up => game'.up \/ net' = {p \in net : p.kind # "request"}
         /\ UNCHANGED <<pc, answer, got, status, metrics>>
<1>1. CASE GameStops
  <2>1. game' = [game EXCEPT !.up = FALSE, !.players = 0, !.version = None]
    BY <1>1 DEF GameStops, GameBecomes
  <2>2. game' \in Game /\ ~game'.up
    <3>1. 0 \in 0 .. MaxPlayers /\ None \in Version \cup {None}
      BY PlayersBound
    <3>2. game' \in Game
      BY <2>1, <3>1 DEF TypeOK, Game
    <3>3. game'.up = FALSE
      BY <2>1 DEF TypeOK, Game
    <3> QED
      BY <3>2, <3>3
  <2>3. net' = {p \in net : p.kind # "request"}
    BY <1>1 DEF GameStops
  <2>4. /\ since' = IF pc \in {"first", "second"} THEN since \cup {Now(game)'} ELSE since
        /\ UNCHANGED <<pc, answer, got, status, metrics>>
    BY <1>1 DEF GameStops, GameBecomes, Now
  <2> QED
    BY <2>2, <2>3, <2>4
<1>2. CASE Join
  <2>1. game' = [game EXCEPT !.players = @ + 1] /\ game.players < MaxPlayers
    BY <1>2 DEF Join, GameBecomes
  <2>2. game' \in Game /\ game'.up = game.up /\ game'.version = game.version
    BY <2>1, PlayersBound DEF TypeOK, Game
  <2> QED
    BY <1>2, <2>2 DEF Join, GameBecomes, Now
<1>3. CASE Leave
  <2>1. game' = [game EXCEPT !.players = @ - 1] /\ game.players > 0
    BY <1>3 DEF Leave, GameBecomes
  <2>2. game' \in Game /\ game'.up = game.up /\ game'.version = game.version
    BY <2>1, PlayersBound DEF TypeOK, Game
  <2> QED
    BY <1>3, <2>2 DEF Leave, GameBecomes, Now
<1>4. ASSUME NEW v \in Version, GameStarts(v)
      PROVE  /\ game' \in Game /\ game'.version \in Version /\ ~game.up /\ net' = net
             /\ since' = IF pc \in {"first", "second"} THEN since \cup {Now(game)'} ELSE since
             /\ UNCHANGED <<pc, answer, got, status, metrics>>
  <2>1. game' = [game EXCEPT !.up = TRUE, !.version = v, !.token = ~@]
    BY <1>4 DEF GameStarts, GameBecomes
  <2>2. game' \in Game /\ game'.version = v
    BY <2>1 DEF TypeOK, Game
  <2> QED
    BY <1>4, <2>2 DEF GameStarts, GameBecomes, Now
<1> QED
  BY <1>1, <1>2, <1>3, <1>4 DEF Played

\* The datagram that answers a request: a challenge or the server's report.
LEMMA AnswersEffect ==
  ASSUME TypeOK, OneDatagram, GameAnswers
  PROVE  /\ UNCHANGED <<game, pc, answer, got, status, metrics, since, spent>>
         /\ net' = {Challenge(game.token)} \/ net' = {Info(Now(game))}
         /\ \E p \in net :
              /\ p.kind = "request"
              /\ net' = {IF game.asks /\ p.challenge # TokenBytes(game.token)
                         THEN Challenge(game.token) ELSE Info(Now(game))}
<1>1. PICK p \in net :
        /\ p.kind = "request"
        /\ net' = (net \ {p}) \cup
                  {IF game.asks /\ p.challenge # TokenBytes(game.token) THEN Challenge(game.token)
                   ELSE Info(Now(game))}
  BY DEF GameAnswers
<1>2. net \ {p} = {}
  BY DEF OneDatagram
<1> QED
  BY <1>1, <1>2 DEF GameAnswers

LEMMA AnswerSays ==
  ASSUME TypeOK, OneDatagram, GameAnswers
  PROVE  \A p \in net' : p.kind = "info" => p.report = Now(game)
<1>1. Challenge(game.token).kind = "challenge" /\ Info(Now(game)).report = Now(game)
  BY DEF Challenge, Info
<1>2. net' = {Challenge(game.token)} \/ net' = {Info(Now(game))}
  BY AnswersEffect
<1> QED
  BY <1>1, <1>2

LEMMA ChallengeEffect ==
  ASSUME TypeOK, AnswersAreVersioned, OneDatagram, ReceiveChallenge
  PROVE  /\ UNCHANGED <<game, answer, got, status, metrics, since, spent>>
         /\ pc = "first" /\ pc' = "second"
         /\ \E t \in BOOLEAN : net' = Sent(TokenBytes(t))
         /\ \E p \in net : p.kind = "challenge" /\ net' = Sent(TokenBytes(p.token))
<1>1. PICK p \in FromServer :
        IsChallenge(Received[p]) /\ net' = (net \ {p}) \cup Sent(ChallengeIn(Received[p]))
  BY DEF ReceiveChallenge
<1>2. /\ p \in net /\ p.kind = "challenge" /\ p.token \in BOOLEAN
      /\ ChallengeIn(Received[p]) = TokenBytes(p.token)
  BY <1>1, Decoding
<1>3. net \ {p} = {}
  BY <1>2 DEF OneDatagram
<1>4. net' = Sent(TokenBytes(p.token))
  BY <1>1, <1>2, <1>3
<1> QED
  BY <1>2, <1>4 DEF ReceiveChallenge

LEMMA TickEffect ==
  ASSUME OneDatagram, Tick
  PROVE  /\ UNCHANGED <<game, answer, got, status, metrics, spent>>
         /\ pc = "wait" /\ pc' = "first" /\ net' = Sent(NoChallenge) /\ since' = {Now(game)}
BY DEF OneDatagram, Tick

LEMMA AnsweredEffect ==
  ASSUME TypeOK, AnswersUnderWay, AnswersAreVersioned, Answered
  PROVE  /\ UNCHANGED <<game, got, status, since, spent>>
         /\ pc \in {"first", "second"} /\ pc' = "get" /\ net' = {}
         /\ ready' = TRUE /\ active' = answer'.players
         /\ answer' \in Report /\ answer' \in since
         /\ answer'.version \in Version /\ previous' = answer'.version
         /\ series' = IF previous = answer'.version THEN series
                      ELSE (series \ {previous}) \cup {answer'.version}
         /\ \E p \in net : p.kind = "info" /\ answer' = p.report
<1>1. PICK p \in FromServer :
        /\ IsAnswer(p) /\ Parsed[p].ok
        /\ Succeed([players |-> Parsed[p].players, version |-> Parsed[p].version])
  BY DEF Answered, ReceiveInfo
<1>2. p \in net /\ p.kind = "info" /\ p.report \in Report /\ Succeed(p.report)
  BY <1>1, Decoding
<1>3. p.report \in since /\ p.report.version \in Version
  BY <1>2 DEF AnswersUnderWay, AnswersAreVersioned
<1>4. pc \in {"first", "second"} /\ UNCHANGED <<game, got, status, since, spent>>
  BY <1>1 DEF IsAnswer, Answered, ReceiveInfo
<1> QED
  BY <1>2, <1>3, <1>4 DEF Succeed, SetInfo

-----------------------------------------------------------------------------
(* Types.                                                                   *)

LEMMA SpendType ==
  ASSUME TypeOK, NEW kind \in EventKind, Spend(kind)
  PROVE  spent' \in [EventKind -> Nat]
<1>1. spent \in [EventKind -> Nat] /\ spent' = [spent EXCEPT ![kind] = @ + 1]
  BY DEF TypeOK, Spend
<1> QED
  BY <1>1

LEMMA SpentType ==
  ASSUME TypeOK, Next
  PROVE  spent' \in [EventKind -> Nat]
<1>1. spent' = spent \/ \E kind \in EventKind : Spend(kind)
  BY DEF Next, Sidecar, Tick, ReceiveChallenge, ReceiveUnexpected, ReceiveInfo, Timeout, Get, Patch,
     CallFails, SidecarRestarts, GameStops, Join, Leave, GameAnswers, CRReplaced, GameStarts,
     EventKind
<1> QED
  BY <1>1, SpendType DEF TypeOK

LEMMA PatchType ==
  ASSUME TypeOK, Patch
  PROVE  status' \in Report
<1>1. /\ status'.players \in {status.players, answer.players}
      /\ status'.version \in {status.version, answer.version}
      /\ status' = [status EXCEPT !.players = status'.players, !.version = status'.version]
  BY DEF TypeOK, Report, Patch
<1> QED
  BY <1>1 DEF TypeOK, Report

LEMMA CallsType ==
  ASSUME TypeOK, Calls, spent' \in [EventKind -> Nat]
  PROVE  TypeOK'
<1>1. status' \in Report
  BY PatchType, NoReportIsReport DEF Calls, Get, CallFails, SidecarRestarts, CRReplaced, TypeOK
<1>2. answer' \in Report /\ got' \in Report /\ since' \subseteq Report
  BY NoReportIsReport DEF Calls, Get, Patch, CallFails, SidecarRestarts, CRReplaced, Done, TypeOK
<1>3. /\ pc' \in {"wait", "first", "second", "get", "patch"} /\ game' \in Game
      /\ net' \subseteq Packet
  BY CallsEffect DEF TypeOK
<1>4. /\ ready' \in BOOLEAN /\ previous' \in Version \cup {None} /\ series' \subseteq Version
      /\ active' \in 0 .. MaxPlayers
  <2>1. UNCHANGED metrics
        \/ (ready' = FALSE /\ active' = 0 /\ previous' = None /\ series' = {})
    BY DEF Calls, Get, Patch, CallFails, SidecarRestarts, CRReplaced
  <2>2. CASE UNCHANGED metrics
    BY <2>2 DEF metrics, TypeOK
  <2>3. CASE ready' = FALSE /\ active' = 0 /\ previous' = None /\ series' = {}
    <3>1. 0 \in 0 .. MaxPlayers
      BY PlayersBound
    <3> QED
      BY <2>3, <3>1
  <2> QED
    BY <2>1, <2>2, <2>3
<1> QED
  BY <1>1, <1>2, <1>3, <1>4 DEF TypeOK

LEMMA TypeStep ==
  ASSUME IInv, Next
  PROVE  TypeOK'
<1> USE DEF IInv
<1>0. spent' \in [EventKind -> Nat]
  BY SpentType
<1>1. CASE Calls
  BY <1>0, <1>1, CallsType
<1>2. CASE Failed
  <2>1. /\ answer' \in Report /\ active' = 0 /\ 0 \in 0 .. MaxPlayers
      /\ UNCHANGED <<game, series, since, got, status>> /\ net' = {} /\ pc' = "get"
      /\ ready' = FALSE /\ previous' = None
    <3>1. 0 \in 0 .. MaxPlayers
      BY PlayersBound
    <3> QED
      BY <1>2, <3>1, FailedEffect, NoReportIsReport
  <2> QED
    BY <1>0, <2>1 DEF TypeOK
<1>3. CASE Answered
  <2>1. answer'.players \in 0 .. MaxPlayers
    BY <1>3, AnsweredEffect, ReportFields
  <2> QED
    BY <1>0, <1>3, <2>1, AnsweredEffect DEF TypeOK
<1>4. CASE Played
  <2>1. net' \subseteq net /\ since' \subseteq Report
    BY <1>4, PlayedEffect, NowReport DEF TypeOK
  <2> QED
    BY <1>0, <1>4, <2>1, PlayedEffect DEF TypeOK, metrics
<1>5. CASE Tick
  <2>1. net' \subseteq Packet
    BY <1>5, TickEffect, SentShape, Made
  <2>2. since' \subseteq Report
    <3>1. Now(game) \in Report
      BY NowReport DEF TypeOK
    <3> QED
      BY <1>5, <3>1, TickEffect
  <2> QED
    BY <1>0, <1>5, <2>1, <2>2, TickEffect DEF TypeOK, metrics
<1>6. CASE ReceiveChallenge
  <2>1. net' \subseteq Packet
    <3>1. PICK t \in BOOLEAN : net' = Sent(TokenBytes(t))
      BY <1>6, ChallengeEffect
    <3>2. Request(TokenBytes(t)) \in Packet
      BY Made
    <3>3. \A p \in net' : p = Request(TokenBytes(t))
      BY <3>1, SentShape
    <3> QED
      BY <3>2, <3>3
  <2> QED
    BY <1>0, <1>6, <2>1, ChallengeEffect DEF TypeOK, metrics
<1>7. CASE GameAnswers
  <2>1. game.token \in BOOLEAN /\ Now(game) \in Report
    BY NowReport DEF TypeOK, Game
  <2>2. net' \subseteq Packet
    <3>1. Challenge(game.token) \in Packet /\ Info(Now(game)) \in Packet
      BY <2>1, Made
    <3>2. net' = {Challenge(game.token)} \/ net' = {Info(Now(game))}
      BY <1>7, AnswersEffect
    <3> QED
      BY <3>1, <3>2
  <2> QED
    BY <1>0, <1>7, <2>2, AnswersEffect DEF TypeOK, metrics
<1> QED
  BY <1>1, <1>2, <1>3, <1>4, <1>5, <1>6, <1>7, Steps

-----------------------------------------------------------------------------
(* Datagrams and answers.                                                   *)

LEMMA DatagramStep ==
  ASSUME IInv, Next
  PROVE  OneDatagram'
<1> USE DEF IInv
<1>1. CASE Calls
  BY <1>1, CallsEffect DEF OneDatagram
<1>2. CASE Failed
  BY <1>2, FailedEffect DEF OneDatagram
<1>3. CASE Answered
  BY <1>3, AnsweredEffect DEF OneDatagram
<1>4. CASE Played
  <2>1. net' \subseteq net /\ pc' = pc
    BY <1>4, PlayedEffect
  <2> QED
    BY <2>1 DEF OneDatagram
<1>5. CASE Tick
  BY <1>5, TickEffect, SentShape DEF OneDatagram
<1>6. CASE ReceiveChallenge
  BY <1>6, ChallengeEffect, SentShape DEF OneDatagram
<1>7. CASE GameAnswers
  <2>1. (\A p, q \in net' : p = q) /\ net # {} /\ pc' = pc
    BY <1>7, AnswersEffect
  <2> QED
    BY <2>1 DEF OneDatagram
<1> QED
  BY <1>1, <1>2, <1>3, <1>4, <1>5, <1>6, <1>7, Steps

LEMMA UnderWayStep ==
  ASSUME IInv, Next
  PROVE  AnswersUnderWay'
<1> USE DEF IInv
<1>1. CASE Calls
  <2>1. game' = game
    BY <1>1, CallsEffect
  <2>2. Now(game)' = Now(game)
    BY <2>1
  <2>3. \/ pc' \in {"wait", "patch"} /\ net' = {}
        \/ UNCHANGED <<pc, net, since>>
    BY <1>1, CallsEffect DEF OneDatagram
  <2> QED
    BY <2>2, <2>3 DEF AnswersUnderWay
<1>2. CASE Failed
  BY <1>2, FailedEffect DEF AnswersUnderWay
<1>3. CASE Answered
  BY <1>3, AnsweredEffect DEF AnswersUnderWay
<1>4. CASE Played
  <2>1. net' \subseteq net /\ pc' = pc
    BY <1>4, PlayedEffect
  <2>2. since' = IF pc \in {"first", "second"} THEN since \cup {Now(game)'} ELSE since
    BY <1>4, PlayedEffect
  <2> QED
    BY <2>1, <2>2 DEF AnswersUnderWay
<1>5. CASE Tick
  <2>1. \A p \in net' : p.kind = "request"
    BY <1>5, TickEffect, SentKind
  <2>2. Now(game)' \in since'
    BY <1>5, TickEffect
  <2> QED
    BY <2>1, <2>2 DEF AnswersUnderWay
<1>6. CASE ReceiveChallenge
  <2>1. \A p \in net' : p.kind = "request"
    BY <1>6, ChallengeEffect, SentKind
  <2>2. Now(game)' \in since'
    <3>1. UNCHANGED <<game, since>> /\ pc = "first"
      BY <1>6, ChallengeEffect
    <3>2. Now(game) \in since
      BY <3>1 DEF AnswersUnderWay
    <3> QED
      BY <3>1, <3>2
  <2> QED
    BY <2>1, <2>2 DEF AnswersUnderWay
<1>7. CASE GameAnswers
  <2>1. pc \in {"first", "second"}
    BY <1>7, AnswersEffect DEF OneDatagram, TypeOK
  <2>2. Now(game) \in since
    BY <2>1 DEF AnswersUnderWay
  <2>3. \A p \in net' : p.kind = "info" => p.report = Now(game)
    BY <1>7, AnswerSays
  <2>4. Now(game)' = Now(game) /\ since' = since
    BY <1>7, AnswersEffect
  <2> QED
    BY <2>2, <2>3, <2>4 DEF AnswersUnderWay
<1> QED
  BY <1>1, <1>2, <1>3, <1>4, <1>5, <1>6, <1>7, Steps

LEMMA VersionedStep ==
  ASSUME IInv, Next
  PROVE  AnswersAreVersioned'
<1> USE DEF IInv
<1>1. CASE Calls
  BY <1>1, CallsEffect DEF AnswersAreVersioned
<1>2. CASE Failed
  BY <1>2, FailedEffect DEF AnswersAreVersioned
<1>3. CASE Answered
  BY <1>3, AnsweredEffect DEF AnswersAreVersioned
<1>4. CASE Played
  <2>1. game'.up => game'.version \in Version
    BY <1>4, PlayedEffect DEF AnswersAreVersioned
  <2>2. net' \subseteq net
    BY <1>4, PlayedEffect
  <2>3. \A p \in net' : p.kind = "request" => game'.up
    BY <1>4, <2>2, PlayedEffect DEF AnswersAreVersioned
  <2> QED
    BY <2>1, <2>2, <2>3 DEF AnswersAreVersioned
<1>5. CASE Tick
  BY <1>5, TickEffect, SentKind DEF AnswersAreVersioned
<1>6. CASE ReceiveChallenge
  BY <1>6, ChallengeEffect, SentKind DEF AnswersAreVersioned
<1>7. CASE GameAnswers
  <2>1. game' = game /\ game.up /\ game.version \in Version
    BY <1>7, AnswersEffect DEF AnswersAreVersioned
  <2>2. Now(game).version = game.version
    BY NowReport DEF TypeOK
  <2>3. \A p \in net' : p.kind = "info" => p.report = Now(game)
    BY <1>7, AnswerSays
  <2> QED
    BY <2>1, <2>2, <2>3 DEF AnswersAreVersioned
<1> QED
  BY <1>1, <1>2, <1>3, <1>4, <1>5, <1>6, <1>7, Steps

LEMMA PublishedStep ==
  ASSUME IInv, Next
  PROVE  PreviousIsPublished' /\ AnswersAreTimely'
<1> USE DEF IInv
<1>1. CASE Calls
  <2>1. ASSUME UNCHANGED <<ready, previous, series>> PROVE PreviousIsPublished'
    BY <2>1 DEF PreviousIsPublished
  <2>2. ASSUME ready' = FALSE, previous' = None PROVE PreviousIsPublished'
    BY <2>2 DEF PreviousIsPublished
  <2>3. PreviousIsPublished'
    BY <1>1, <2>1, <2>2, CallsEffect
  <2>4. pc' = "wait" \/ (pc = "get" /\ UNCHANGED <<answer, since, ready>>)
        \/ UNCHANGED <<pc, answer, since, ready>>
    BY <1>1, CallsEffect
  <2>5. ASSUME UNCHANGED <<answer, since, ready>>, pc = "get" \/ pc' = pc
        PROVE  AnswersAreTimely'
    BY <2>5 DEF AnswersAreTimely
  <2>6. ASSUME pc' = "wait" PROVE AnswersAreTimely'
    BY <2>6 DEF AnswersAreTimely
  <2> QED
    BY <2>3, <2>4, <2>5, <2>6
<1>2. CASE Failed
  BY <1>2, FailedEffect DEF PreviousIsPublished, AnswersAreTimely
<1>3. CASE Answered
  <2>1. AnswersAreTimely'
    BY <1>3, AnsweredEffect DEF AnswersAreTimely
  <2>2. ready' = TRUE /\ previous' \in Version
    BY <1>3, AnsweredEffect
  <2>3. series' = IF previous = previous' THEN series ELSE (series \ {previous}) \cup {previous'}
    BY <1>3, AnsweredEffect
  <2>4. CASE previous = previous'
    <3>1. previous # None
      BY <2>2, <2>4, SidecarVersions
    <3>2. previous \in series
      BY <3>1 DEF PreviousIsPublished
    <3> QED
      BY <2>1, <2>2, <2>3, <2>4, <3>2 DEF PreviousIsPublished
  <2>5. CASE previous # previous'
    BY <2>1, <2>2, <2>3, <2>5 DEF PreviousIsPublished
  <2> QED
    BY <2>4, <2>5
<1>4. CASE Played
  <2>1. /\ UNCHANGED <<pc, answer, ready, previous, series>>
        /\ pc \in {"get", "patch"} => since' = since
    BY <1>4, PlayedEffect DEF metrics
  <2>2. PreviousIsPublished'
    BY <2>1 DEF PreviousIsPublished
  <2>3. AnswersAreTimely'
    BY <2>1 DEF AnswersAreTimely
  <2> QED
    BY <2>2, <2>3
<1>5. CASE Tick \/ ReceiveChallenge
  <2>1. pc' \in {"first", "second"} /\ UNCHANGED metrics
    BY <1>5, TickEffect, ChallengeEffect
  <2> QED
    BY <2>1 DEF PreviousIsPublished, AnswersAreTimely, metrics
<1>6. CASE GameAnswers
  <2>1. UNCHANGED <<pc, answer, since, ready, previous, series>>
    BY <1>6, AnswersEffect DEF metrics
  <2>2. PreviousIsPublished'
    BY <2>1 DEF PreviousIsPublished
  <2>3. AnswersAreTimely'
    BY <2>1 DEF AnswersAreTimely
  <2> QED
    BY <2>2, <2>3
<1> QED
  BY <1>1, <1>2, <1>3, <1>4, <1>5, <1>6, Steps

-----------------------------------------------------------------------------
(* Silence: a query without an answer was one of a server that was empty.   *)

Querying == {"first", "second"}

LEMMA PresentIsLately ==
  ASSUME TypeOK, pc \in Querying, Now(game) \in since
  PROVE  game.players \in Lately
<1>1. Now(game).players = game.players
  BY NowReport DEF TypeOK
<1> QED
  BY <1>1 DEF Lately, Querying

\* Counts are added to the query's history and never taken away.
LEMMA LatelyGrows ==
  ASSUME pc \in Querying, pc' \in Querying, since \subseteq since'
  PROVE  Lately \subseteq Lately'
BY DEF Lately, Querying

LEMMA PlayedSilence ==
  ASSUME TypeOK, TypeOK', OneDatagram, AnswersUnderWay, AnswersUnderWay', SilenceIsExplained, Played
  PROVE  SilenceIsExplained'
<1>1. /\ pc' = pc /\ since \subseteq since'
  BY PlayedEffect
<1>2. ASSUME pc \in Querying PROVE Lately \subseteq Lately' /\ game.players \in Lately
                                  /\ game'.players \in Lately'
  <2>1. Now(game) \in since /\ Now(game)' \in since'
    BY <1>1, <1>2 DEF AnswersUnderWay, Querying
  <2>2. game.players \in Lately
    BY <1>2, <2>1, PresentIsLately
  <2>3. Now(game)'.players = game'.players
    BY NowReport DEF TypeOK
  <2>4. game'.players \in Lately'
    BY <1>1, <1>2, <2>1, <2>3 DEF Lately, Querying
  <2> QED
    BY <1>1, <1>2, <2>2, <2>4, LatelyGrows
<1>3. CASE GameStops
  <2>1. game' = [game EXCEPT !.up = FALSE, !.players = 0, !.version = None]
    BY <1>3 DEF GameStops, GameBecomes
  <2>2. game'.players = 0
    BY <2>1 DEF TypeOK, Game
  <2> QED
    BY <1>1, <1>2, <2>2 DEF SilenceIsExplained, Querying
<1>4. ASSUME NEW v \in Version, GameStarts(v) PROVE SilenceIsExplained'
  <2>1. game' = [game EXCEPT !.up = TRUE, !.version = v, !.token = ~@] /\ ~game.up
    BY <1>4 DEF GameStarts, GameBecomes
  <2>2. game'.players = game.players /\ game'.up
    BY <2>1 DEF TypeOK, Game
  <2>3. game'.players = 0
    BY <2>1, <2>2 DEF SilenceIsExplained
  <2> QED
    BY <1>1, <1>2, <2>2, <2>3 DEF SilenceIsExplained, Querying
<1>5. CASE Join \/ Leave
  <2>1. net' = net /\ game'.up = game.up /\ game'.token = game.token
        /\ (game.up \/ game.players > 0)
    BY <1>5 DEF Join, Leave, GameBecomes, TypeOK, Game
  <2>2. game.up
    <3>1. ~game.up => game.players = 0
      BY DEF SilenceIsExplained
    <3> QED
      BY <2>1, <3>1
  <2>3. \A p \in net : Promising(p) => Promising(p)'
    BY <1>1, <2>1 DEF Promising
  <2> QED
    BY <1>1, <1>2, <2>1, <2>2, <2>3 DEF SilenceIsExplained, Querying
<1> QED
  BY <1>3, <1>4, <1>5 DEF Played

\* A server that is up has the request; one that is down has nobody online.
LEMMA SentSilence ==
  ASSUME TypeOK, SilenceIsExplained, pc' \in Querying, game' = game, NEW c,
         net' = Sent(c), Promising(Request(c))', game.players \in Lately'
  PROVE  0 \in Lately' \/ \E p \in net' : Promising(p)'
<1>1. CASE game.up
  <2>1. Request(c) \in net'
    BY <1>1 DEF Sent
  <2> QED
    BY <2>1
<1>2. CASE ~game.up
  BY <1>2 DEF SilenceIsExplained
<1> QED
  BY <1>1, <1>2

LEMMA SilenceStep ==
  ASSUME IInv, Next, TypeOK', AnswersUnderWay'
  PROVE  SilenceIsExplained'
<1> USE DEF IInv
<1>0. ASSUME game' = game, pc' \notin Querying PROVE SilenceIsExplained'
  BY <1>0 DEF SilenceIsExplained, Querying
<1>1. CASE Calls
  <2>1. \/ pc' \in {"wait", "patch"}
        \/ UNCHANGED <<pc, net>> /\ (since' = since \/ pc' = "wait")
    BY <1>1, CallsEffect
  <2>2. game' = game
    BY <1>1, CallsEffect
  <2>3. ASSUME pc' \in Querying PROVE UNCHANGED <<pc, net, since, game>>
    BY <1>1, <2>2, <2>3, CallsEffect DEF Querying
  <2>4. ASSUME UNCHANGED <<pc, net, since, game>> PROVE SilenceIsExplained'
    BY <2>4 DEF SilenceIsExplained, Lately, Promising
  <2> QED
    BY <1>0, <2>2, <2>3, <2>4
<1>2. CASE Failed
  BY <1>0, <1>2, FailedEffect DEF Querying
<1>3. CASE Answered
  BY <1>0, <1>3, AnsweredEffect DEF Querying
<1>4. CASE Played
  BY <1>4, PlayedSilence
<1>5. CASE Tick
  <2>1. game' = game /\ pc' = "first" /\ net' = Sent(NoChallenge) /\ since' = {Now(game)}
    BY <1>5, TickEffect
  <2>2. Now(game).players = game.players
    BY NowReport DEF TypeOK
  <2>3. game.players \in Lately'
    BY <2>1, <2>2 DEF Lately
  <2>4. Promising(Request(NoChallenge))'
    BY <2>1 DEF Promising
  <2>5. 0 \in Lately' \/ \E p \in net' : Promising(p)'
    BY <2>1, <2>3, <2>4, SentSilence DEF Querying
  <2> QED
    BY <2>1, <2>5 DEF SilenceIsExplained
<1>6. CASE ReceiveChallenge
  <2>1. /\ game' = game /\ since' = since /\ pc = "first" /\ pc' = "second"
    BY <1>6, ChallengeEffect
  <2>2. PICK q \in net : q.kind = "challenge" /\ net' = Sent(TokenBytes(q.token))
    BY <1>6, ChallengeEffect
  <2>3. Lately' = Lately
    BY <2>1 DEF Lately
  <2>4. CASE 0 \in Lately
    BY <2>1, <2>3, <2>4 DEF SilenceIsExplained
  <2>5. CASE 0 \notin Lately
    <3>1. PICK p \in net : Promising(p)
      BY <2>1, <2>5 DEF SilenceIsExplained
    <3>2. p = q
      BY DEF OneDatagram
    <3>3. p = Challenge(game.token)
      <4>1. Request(NoChallenge).kind = "request"
        BY Kinds
      <4> QED
        BY <2>1, <2>2, <3>1, <3>2, <4>1 DEF Promising
    <3>4. q.token = game.token
      BY <3>2, <3>3, Kinds
    <3>5. Promising(Request(TokenBytes(game.token)))'
      BY <2>1 DEF Promising
    <3>6. game.players \in Lately'
      BY <2>1, <2>3, PresentIsLately DEF AnswersUnderWay, Querying
    <3>7. 0 \in Lately' \/ \E r \in net' : Promising(r)'
      BY <2>1, <2>2, <3>4, <3>5, <3>6, SentSilence DEF Querying
    <3> QED
      BY <2>1, <3>7 DEF SilenceIsExplained
  <2> QED
    BY <2>4, <2>5
<1>7. CASE GameAnswers
  <2>1. UNCHANGED <<game, pc, since>>
    BY <1>7, AnswersEffect
  <2>2. Lately' = Lately
    BY <2>1 DEF Lately
  <2>3. CASE 0 \in Lately \/ pc \notin Querying
    BY <2>1, <2>2, <2>3 DEF SilenceIsExplained, Querying
  <2>4. CASE 0 \notin Lately /\ pc \in Querying
    <3>1. PICK p \in net : Promising(p)
      BY <2>4 DEF SilenceIsExplained, Querying
    <3>2. PICK q \in net :
            /\ q.kind = "request"
            /\ net' = {IF game.asks /\ q.challenge # TokenBytes(game.token)
                       THEN Challenge(game.token) ELSE Info(Now(game))}
      BY <1>7, AnswersEffect
    <3>3. p = q
      BY DEF OneDatagram
    <3>4. pc = "first" \/ (pc = "second" /\ q.challenge = TokenBytes(game.token))
      <4>1. p.kind = "request"
        BY <3>2, <3>3
      <4>2. pc = "second" => p = Request(TokenBytes(game.token))
        BY <2>4, <3>1, <4>1 DEF Promising
      <4> QED
        BY <2>4, <3>3, <4>2, Kinds DEF Querying
    <3>5. Info(Now(game)).kind = "info"
      BY Kinds
    <3>6. pc = "first" => Promising(Challenge(game.token))'
      BY <2>1 DEF Promising
    <3>7. Promising(Info(Now(game)))'
      BY <2>1, <3>5 DEF Promising
    <3>8. \/ Info(Now(game)) \in net'
          \/ Challenge(game.token) \in net' /\ q.challenge # TokenBytes(game.token)
      BY <3>2
    <3>9. CASE Info(Now(game)) \in net'
      <4>1. UNCHANGED game
        BY <2>1
      <4>2. \E r \in net' : Promising(r)'
        BY <3>7, <3>9, <4>1
      <4> QED
        BY <2>1, <4>2 DEF SilenceIsExplained
    <3>10. CASE Challenge(game.token) \in net' /\ pc = "first"
      <4>1. UNCHANGED game
        BY <2>1
      <4>2. \E r \in net' : Promising(r)'
        BY <3>6, <3>10, <4>1
      <4> QED
        BY <2>1, <4>2 DEF SilenceIsExplained
    <3> QED
      BY <3>4, <3>8, <3>9, <3>10
  <2> QED
    BY <2>3, <2>4
<1> QED
  BY <1>1, <1>2, <1>3, <1>4, <1>5, <1>6, <1>7, Steps

LEMMA IInvInit ==
  ASSUME Init
  PROVE  IInv
<1>1. game \in Game /\ ~game.up /\ game.players = 0
  <2>1. PICK a \in BOOLEAN : game = [up |-> FALSE, players |-> 0, version |-> None,
                                    token |-> FALSE, asks |-> a]
    BY DEF Init
  <2>2. 0 \in 0 .. MaxPlayers
    BY PlayersBound
  <2>3. game \in Game
    BY <2>1, <2>2 DEF Game
  <2>4. game.up = FALSE /\ game.players = 0
    BY <2>1
  <2> QED
    BY <2>3, <2>4
<1>2. /\ net = {} /\ pc = "wait" /\ answer \in Report /\ got \in Report /\ status \in Report
      /\ ready = FALSE /\ active \in 0 .. MaxPlayers /\ previous = None /\ series = {}
      /\ since = {}
  <2>1. /\ net = {} /\ pc = "wait" /\ answer = NoReport /\ got = NoReport
        /\ status = NoReport /\ ready = FALSE /\ active = 0 /\ previous = None
        /\ series = {} /\ since = {}
    BY Zenon DEF Init
  <2>2. 0 \in 0 .. MaxPlayers
    BY PlayersBound
  <2> QED
    BY <2>1, <2>2, NoReportIsReport
<1>3. spent \in [EventKind -> Nat]
  BY DEF Init
<1>4. TypeOK
  BY <1>1, <1>2, <1>3 DEF TypeOK
<1>5. OneDatagram /\ AnswersUnderWay /\ AnswersAreVersioned /\ SilenceIsExplained
  BY <1>1, <1>2 DEF OneDatagram, AnswersUnderWay, AnswersAreVersioned, SilenceIsExplained
<1>6. PreviousIsPublished /\ AnswersAreTimely
  BY <1>2 DEF PreviousIsPublished, AnswersAreTimely
<1> QED
  BY <1>4, <1>5, <1>6 DEF IInv

LEMMA IInvStutters ==
  ASSUME IInv, UNCHANGED vars
  PROVE  IInv'
<1>1. TypeOK' /\ OneDatagram' /\ AnswersUnderWay' /\ AnswersAreVersioned'
  BY DEF IInv, vars, TypeOK, OneDatagram, AnswersUnderWay, AnswersAreVersioned, Now
<1>2. SilenceIsExplained'
  BY DEF IInv, vars, SilenceIsExplained, Lately, Promising
<1>3. PreviousIsPublished' /\ AnswersAreTimely'
  BY DEF IInv, vars, PreviousIsPublished, AnswersAreTimely
<1> QED
  BY <1>1, <1>2, <1>3 DEF IInv

\* The inductive invariant: one datagram at most and none that outlives its query;
\* answers that say what was so since the query began, and one under way unless the
\* server was empty meanwhile.
THEOREM SidecarInvariant == Spec => []IInv
<1>1. Init => IInv
  BY IInvInit
<1>2. IInv /\ Next => IInv'
  BY TypeStep, DatagramStep, UnderWayStep, VersionedStep, SilenceStep, PublishedStep DEF IInv
<1>3. IInv /\ UNCHANGED vars => IInv'
  BY IInvStutters
<1> QED
  BY <1>1, <1>2, <1>3, PTL DEF Spec

\* Packets, gauges, answers and the step of the scrape have their types, with any set of
\* versions, any number of players and any budget of losses, restarts and failed calls.
THEOREM SidecarTypes == Spec => []TypeOK
BY SidecarInvariant, PTL DEF IInv

\* A successful scrape reports what was true of the game server at some moment of
\* that very query (queryA2SInfo opens a socket for each).
THEOREM TimelyAnswers == Spec => []AnswersAreTimely
BY SidecarInvariant, PTL DEF IInv

\* While the server is up, /metrics has a server_info series for the version it last
\* answered with (scrape).
THEOREM InfoSeries == Spec => []InfoSeriesPresent
<1>1. IInv => InfoSeriesPresent
  BY DEF IInv, PreviousIsPublished, InfoSeriesPresent
<1> QED
  BY <1>1, SidecarInvariant, PTL

-----------------------------------------------------------------------------
(* The sidecar's side of PlayerReport.                                      *)

NoAnswer == \A p \in net : p.kind # "info"

LEMMA NothingCounted ==
  ASSUME pc \notin {"get", "patch"}, NoAnswer
  PROVE  Counted = -1
BY DEF Counted, NoAnswer

LEMMA InfoCounted ==
  ASSUME pc \notin {"get", "patch"}, OneDatagram, NEW p \in net, p.kind = "info"
  PROVE  Counted = p.report.players
<1>1. (CHOOSE q \in net : q.kind = "info") = p
  BY DEF OneDatagram
<1> QED
  BY <1>1 DEF Counted

LEMMA AnswerCounted ==
  ASSUME pc \in {"get", "patch"}
  PROVE  Counted = answer.players
BY DEF Counted

LEMMA CountedKept ==
  ASSUME UNCHANGED <<pc, net, answer>>
  PROVE  Counted' = Counted
BY DEF Counted

\* Nothing is under way once the scrape is over.
LEMMA DoneCounted ==
  ASSUME pc' = "wait", OneDatagram'
  PROVE  Counted' = -1
BY DEF OneDatagram, Counted

\* Which CR the status belongs to, and the answers that came too late.
Replaced == spent["replace"]
Late     == spent["late"]

LEMMA SpendCounts ==
  ASSUME TypeOK, NEW kind \in EventKind, Spend(kind)
  PROVE  /\ spent'[kind] = spent[kind] + 1 /\ spent[kind] \in Nat
         /\ \A other \in EventKind : other # kind => spent'[other] = spent[other]
BY DEF Spend, TypeOK

Uncounted == Replaced' = Replaced /\ Late' = Late

LEMMA Accounts ==
  ASSUME TypeOK
  PROVE  /\ CRReplaced => Replaced' # Replaced /\ Late' = Late
         /\ Calls => CRReplaced \/ Uncounted
         /\ Answered \/ Played \/ Tick \/ ReceiveChallenge \/ GameAnswers => Uncounted
         /\ Failed => /\ Replaced' = Replaced
                      /\ \/ Late' = Late + 1
                         \/ Late' = Late /\ (net = {} \/ ReceiveUnexpected)
<1>1. ASSUME NEW kind \in EventKind \ {"replace", "late"}, Spend(kind) PROVE Uncounted
  BY <1>1, SpendCounts DEF Uncounted, Replaced, Late, EventKind
<1>2. ASSUME spent' = spent PROVE Uncounted
  BY <1>2 DEF Uncounted, Replaced, Late
<1>3. ASSUME CRReplaced PROVE Replaced' # Replaced /\ Late' = Late
  <2>1. spent'["replace"] = spent["replace"] + 1 /\ spent["replace"] \in Nat
        /\ spent'["late"] = spent["late"]
    BY <1>3, SpendCounts DEF CRReplaced, EventKind
  <2> QED
    BY <2>1 DEF Replaced, Late
<1>4. ASSUME GameStops \/ Join \/ CallFails \/ SidecarRestarts PROVE Uncounted
  <2>1. \E kind \in EventKind \ {"replace", "late"} : Spend(kind)
    BY <1>4 DEF GameStops, Join, CallFails, SidecarRestarts, EventKind
  <2> QED
    BY <1>1, <2>1
<1>5. ASSUME \/ Tick \/ ReceiveChallenge \/ ReceiveUnexpected \/ ReceiveInfo \/ Get \/ Patch
             \/ Leave \/ GameAnswers \/ \E v \in Version : GameStarts(v)
      PROVE  Uncounted
  <2>1. spent' = spent
    BY <1>5 DEF Tick, ReceiveChallenge, ReceiveUnexpected, ReceiveInfo, Get, Patch, Leave,
                GameAnswers, GameStarts
  <2> QED
    BY <1>2, <2>1
<1>6. ASSUME Timeout
      PROVE  Replaced' = Replaced /\ (Late' = Late + 1 \/ (Late' = Late /\ net = {}))
  <2>1. CASE net = {}
    BY <1>2, <1>6, <2>1 DEF Timeout, Uncounted
  <2>2. CASE net # {}
    <3>1. spent'["late"] = spent["late"] + 1 /\ spent'["replace"] = spent["replace"]
      BY <1>6, <2>2, SpendCounts DEF Timeout, EventKind
    <3> QED
      BY <3>1 DEF Replaced, Late
  <2> QED
    BY <2>1, <2>2
<1>7. Calls => CRReplaced \/ Uncounted
  BY <1>4, <1>5 DEF Calls
<1>8. Answered \/ Played \/ Tick \/ ReceiveChallenge \/ GameAnswers => Uncounted
  BY <1>4, <1>5 DEF Answered, Played
<1>9. ReceiveUnexpected => Uncounted
  BY <1>5
<1> QED
  BY <1>3, <1>6, <1>7, <1>8, <1>9 DEF Failed, Uncounted

\* The counts a query could be told are those of the game server since it began.
LEMMA CountsAge ==
  ASSUME IInv, IInv', Next
  PROVE  Reporting!Ages
<1> USE DEF IInv
<1>1. game'.players \in Lately'
  <2>1. CASE pc' \in Querying
    <3>1. Now(game)' \in since' /\ Now(game)'.players = game'.players
      BY <2>1, NowReport DEF AnswersUnderWay, Querying, TypeOK
    <3> QED
      BY <2>1, <3>1 DEF Lately, Querying
  <2>2. CASE pc' \notin Querying
    BY <2>2 DEF Lately, Querying
  <2> QED
    BY <2>1, <2>2
<1>2. ASSUME pc' \in Querying, pc \in Querying, since' \subseteq since \cup {Now(game)'}
      PROVE  Lately' \subseteq Lately \cup {game'.players}
  <2>1. Now(game)'.players = game'.players
    BY NowReport DEF TypeOK
  <2> QED
    BY <1>2, <2>1 DEF Lately, Querying
<1>3. ASSUME pc' \notin Querying PROVE Lately' \subseteq Lately \cup {game'.players}
  BY <1>3 DEF Lately, Querying
<1>4. CASE Tick
  <2>1. since' = {Now(game)} /\ game' = game /\ Now(game).players = game.players
    BY <1>4, TickEffect, NowReport DEF TypeOK
  <2> QED
    BY <1>1, <1>4, <2>1 DEF Lately, Tick, Reporting!Ages
<1>5. CASE Played \/ ReceiveChallenge \/ GameAnswers
  <2>1. since' \subseteq since \cup {Now(game)'}
    BY <1>5, PlayedEffect, ChallengeEffect, AnswersEffect
  <2>2. pc' \in Querying => pc \in Querying
    BY <1>5, PlayedEffect, ChallengeEffect, AnswersEffect DEF Querying
  <2> QED
    BY <1>1, <1>2, <1>3, <2>1, <2>2 DEF Reporting!Ages
<1>6. CASE Calls \/ Failed \/ Answered
  <2>1. pc' \notin Querying \/ UNCHANGED <<pc, since>>
    BY <1>6, CallsEffect, FailedEffect, AnsweredEffect DEF Querying
  <2> QED
    BY <1>1, <1>2, <1>3, <2>1 DEF Reporting!Ages
<1> QED
  BY <1>4, <1>5, <1>6, Steps

\* Which step of PlayerReport a step is, apart from the ageing.
Reports == Reporting!Act

LEMMA ReportsNothing ==
  ASSUME game'.players = game.players, Counted' = Counted, status'.players = status.players,
         Uncounted
  PROVE  Reports
BY DEF Reports, Uncounted, Reporting!Act, Reporting!Ask, Replaced, Late

LEMMA CallsReport ==
  ASSUME IInv, IInv', Calls
  PROVE  Reports
<1> USE DEF IInv
<1>0. game' = game
  BY CallsEffect
<1>1. CASE CRReplaced
  <2>1. status' = NoReport /\ Counted' = Counted
    BY <1>1, CountedKept DEF CRReplaced
  <2>2. Replaced' # Replaced /\ Late' = Late
    BY <1>1, Accounts
  <2> QED
    BY <1>0, <2>1, <2>2, NoReportIsReport
    DEF Reports, Reporting!Act, Reporting!Replace, Replaced, Late
<1>2. ASSUME pc' = "wait", status'.players = status.players, Uncounted
      PROVE  Reports
  <2>1. Counted' = -1
    BY <1>2, DoneCounted
  <2> QED
    BY <1>0, <1>2, <2>1
    DEF Reports, Uncounted, Replaced, Late, Reporting!Act, Reporting!Drop, Reporting!NoSample
<1>3. CASE Uncounted /\ (CallFails \/ SidecarRestarts)
  BY <1>2, <1>3 DEF CallFails, SidecarRestarts, Done
<1>4. CASE Uncounted /\ Get
  <2>1. CASE status = answer
    BY <1>2, <1>4, <2>1 DEF Get, Done
  <2>2. CASE status # answer
    <3>1. Counted = answer.players /\ Counted' = answer'.players
      BY <1>4, <2>2, AnswerCounted DEF Get, Counted
    <3>2. answer' = answer /\ status' = status
      BY <1>4, <2>2 DEF Get
    <3> QED
      BY <1>0, <1>4, <3>1, <3>2, ReportsNothing
  <2> QED
    BY <2>1, <2>2
<1>5. CASE Uncounted /\ Patch
  <2>1. status'.players = status.players \/ status'.players = answer.players
    BY <1>5 DEF Patch, TypeOK, Report
  <2>2. Counted = answer.players /\ pc' = "wait"
    BY <1>5, AnswerCounted DEF Patch, Done
  <2>3. answer.players # -1
    <3>1. answer \in Report
      BY DEF TypeOK
    <3>2. answer.players \in 0 .. MaxPlayers
      BY <3>1 DEF Report
    <3> QED
      BY <3>2, PlayersBound
  <2>4. Counted' = -1
    BY <2>2, DoneCounted
  <2>5. CASE status'.players = answer.players
    BY <1>0, <1>5, <2>2, <2>3, <2>4, <2>5
    DEF Reports, Uncounted, Replaced, Late, Reporting!Act, Reporting!Patch, Reporting!NoSample
  <2> QED
    BY <1>2, <1>5, <2>1, <2>2, <2>5
<1> QED
  BY <1>1, <1>3, <1>4, <1>5, Accounts DEF Calls

\* A query that fails without a loss was one of a server that was empty meanwhile.
LEMMA FailedQuery ==
  ASSUME IInv, Failed, net = {} \/ ReceiveUnexpected
  PROVE  0 \in Lately
<1> USE DEF IInv
<1>1. pc \in Querying
  BY DEF Failed, ReceiveUnexpected, Timeout, IsAnswer, Querying
<1>2. CASE net = {}
  BY <1>1, <1>2 DEF SilenceIsExplained, Querying
<1>3. CASE ReceiveUnexpected
  <2>1. PICK q \in FromServer : IsAnswer(q) /\ ~Parsed[q].ok
    BY <1>3 DEF ReceiveUnexpected
  <2>2. q \in net /\ q.kind = "challenge" /\ pc = "second"
    BY <2>1, Decoding DEF IsAnswer
  <2>3. \A p \in net : p = q
    BY <2>2 DEF OneDatagram
  <2>4. q # Request(TokenBytes(game.token))
    BY <2>2, Kinds
  <2>5. ~\E p \in net : Promising(p)
    BY <2>2, <2>3, <2>4 DEF Promising
  <2> QED
    BY <1>1, <2>5 DEF SilenceIsExplained, Querying
<1> QED
  BY <1>2, <1>3

\* A query that fails counts zero; one that succeeds counts what was answered.
LEMMA QueryReport ==
  ASSUME IInv, IInv', Failed \/ Answered
  PROVE  Reports
<1> USE DEF IInv
<1>1. CASE Failed
  <2>1. Counted' = 0
    BY <1>1, FailedEffect, NoReportIsReport DEF Counted
  <2>2. Late' = Late + 1 \/ (Late' = Late /\ 0 \in Lately)
    BY <1>1, Accounts, FailedQuery
  <2>3. UNCHANGED <<game, status>> /\ Replaced' = Replaced
    BY <1>1, FailedEffect, Accounts
  <2> QED
    BY <2>1, <2>2, <2>3 DEF Reports, Replaced, Late, Reporting!Act, Reporting!ScrapeFails
<1>2. CASE Answered
  <2>1. PICK p \in net : p.kind = "info" /\ answer' = p.report
    BY <1>2, AnsweredEffect
  <2>2. Counted = p.report.players
    BY <1>2, <2>1, AnsweredEffect, InfoCounted
  <2>3. Counted' = answer'.players
    BY <1>2, AnsweredEffect DEF Counted
  <2>4. UNCHANGED <<game, status>> /\ Uncounted
    BY <1>2, AnsweredEffect, Accounts
  <2> QED
    BY <2>1, <2>2, <2>3, <2>4, ReportsNothing
<1> QED
  BY <1>1, <1>2

LEMMA DatagramReport ==
  ASSUME IInv, IInv', Tick \/ ReceiveChallenge \/ GameAnswers
  PROVE  Reports
<1> USE DEF IInv
<1>0. Uncounted
  BY Accounts
<1>1. CASE Tick
  <2>1. NoAnswer /\ NoAnswer'
    <3>1. pc = "wait" /\ net' = Sent(NoChallenge)
      BY <1>1, TickEffect
    <3>2. net = {}
      BY <3>1 DEF OneDatagram
    <3> QED
      BY <3>1, <3>2, SentKind DEF NoAnswer
  <2>2. Counted = -1 /\ Counted' = -1
    BY <1>1, <2>1, TickEffect DEF Counted, NoAnswer
  <2> QED
    BY <1>0, <1>1, <2>2, TickEffect, ReportsNothing
<1>2. CASE ReceiveChallenge
  <2>1. NoAnswer
    BY <1>2, ChallengeEffect DEF NoAnswer, OneDatagram
  <2>2. NoAnswer'
    <3>1. PICK t \in BOOLEAN : net' = Sent(TokenBytes(t))
      BY <1>2, ChallengeEffect
    <3> QED
      BY <3>1, SentKind DEF NoAnswer
  <2>3. Counted = -1 /\ Counted' = -1
    BY <1>2, <2>1, <2>2, ChallengeEffect DEF Counted, NoAnswer
  <2> QED
    BY <1>0, <1>2, <2>3, ChallengeEffect, ReportsNothing
<1>3. CASE GameAnswers
  <2>1. /\ net' = {Challenge(game.token)} \/ net' = {Info(Now(game))}
        /\ pc \in {"first", "second"} /\ NoAnswer
        /\ UNCHANGED <<pc, game, status>>
    BY <1>3, AnswersEffect DEF OneDatagram, TypeOK, NoAnswer
  <2>2. Counted = -1
    BY <2>1, NothingCounted
  <2>3. CASE net' = {Challenge(game.token)}
    <3>1. NoAnswer'
      BY <2>3, Kinds DEF NoAnswer
    <3>2. Counted' = -1
      BY <2>1, <3>1 DEF Counted, NoAnswer
    <3> QED
      BY <1>0, <2>1, <2>2, <3>2, ReportsNothing
  <2>4. CASE net' = {Info(Now(game))}
    <3> DEFINE p == Info(Now(game))
    <3>1. p \in net' /\ p.kind = "info" /\ p.report = Now(game) /\ \A q \in net' : q = p
      BY <2>4, Kinds
    <3> HIDE DEF p
    <3>2. (CHOOSE q \in net' : q.kind = "info") = p
      BY <3>1
    <3>3. Counted' = p.report.players
      BY <2>1, <3>1, <3>2 DEF Counted
    <3>4. Counted' = game.players
      BY <3>1, <3>3, NowReport DEF TypeOK
    <3> QED
      BY <1>0, <2>1, <2>2, <3>4
      DEF Reports, Uncounted, Replaced, Late, Reporting!Act, Reporting!Scrape, Reporting!NoSample
  <2> QED
    BY <2>1, <2>3, <2>4
<1> QED
  BY <1>1, <1>2, <1>3

LEMMA PlayedReport ==
  ASSUME IInv, IInv', Played
  PROVE  Reports
<1> USE DEF IInv
<1>0. UNCHANGED <<pc, answer, status>> /\ Uncounted
  BY PlayedEffect, Accounts
<1> USE DEF Uncounted, Replaced, Late
<1>1. CASE GameStops
  <2>1. game' = [game EXCEPT !.up = FALSE, !.players = 0, !.version = None]
        /\ net' = {p \in net : p.kind # "request"}
    BY <1>1 DEF GameStops, GameBecomes
  <2>2. game'.players = 0
    BY <2>1 DEF TypeOK, Game
  <2>3. CASE \E p \in net : p.kind = "info"
    <3>1. net' = net
      BY <2>1, <2>3 DEF OneDatagram
    <3> QED
      BY <1>0, <2>2, <3>1, CountedKept DEF Reports, Reporting!Act, Reporting!Stop
  <2>4. CASE ~\E p \in net : p.kind = "info"
    <3>1. ~\E p \in net' : p.kind = "info"
      BY <2>1, <2>4
    <3>2. Counted' = Counted
      BY <1>0, <2>4, <3>1 DEF Counted
    <3> QED
      BY <1>0, <2>2, <3>2 DEF Reports, Reporting!Act, Reporting!Stop
  <2> QED
    BY <2>3, <2>4
<1>2. CASE Join
  <2>1. game' = [game EXCEPT !.players = @ + 1] /\ net' = net
    BY <1>2 DEF Join, GameBecomes
  <2>2. game'.players = game.players + 1
    BY <2>1 DEF TypeOK, Game
  <2> QED
    BY <1>0, <2>1, <2>2, CountedKept DEF Reports, Reporting!Act, Reporting!Join
<1>3. CASE Leave
  <2>1. game' = [game EXCEPT !.players = @ - 1] /\ net' = net /\ game.players > 0
    BY <1>3 DEF Leave, GameBecomes
  <2>2. game'.players = game.players - 1
    BY <2>1 DEF TypeOK, Game
  <2> QED
    BY <1>0, <2>1, <2>2, CountedKept DEF Reports, Reporting!Act, Reporting!Leave
<1>4. ASSUME NEW v \in Version, GameStarts(v) PROVE Reports
  <2>1. game' = [game EXCEPT !.up = TRUE, !.version = v, !.token = ~@] /\ net' = net
    BY <1>4 DEF GameStarts, GameBecomes
  <2>2. game'.players = game.players
    BY <2>1 DEF TypeOK, Game
  <2> QED
    BY <1>0, <2>1, <2>2, CountedKept, ReportsNothing
<1> QED
  BY <1>1, <1>2, <1>3, <1>4 DEF Played

\* The sidecar implements its side of PlayerReport: the count in the CR's status is one
\* the game server had during the query, and zero for a server that had players all the
\* while takes an answer that came too late (scrape, queryA2SInfo, patchServerStatus).
THEOREM SidecarReports == Spec => ReportsPlayers
<1>1. Init => Reporting!Init
  <2> SUFFICES ASSUME Init PROVE Reporting!Init
    OBVIOUS
  <2>1. PICK a \in BOOLEAN : game = [up |-> FALSE, players |-> 0, version |-> None,
                                    token |-> FALSE, asks |-> a]
    BY DEF Init
  <2>2. game.players = 0 /\ status.players = 0
    BY <2>1, NoReportIsReport DEF Init
  <2>3. Counted = -1
    BY DEF Init, Counted
  <2>4. Lately = {0}
    BY <2>2 DEF Init, Lately
  <2>5. spent["late"] = 0
    BY DEF Init, EventKind
  <2> QED
    BY <2>2, <2>3, <2>4, <2>5 DEF Reporting!Init, Reporting!NoSample
<1>2. IInv /\ IInv' /\ [Next]_vars => [Reporting!Next]_(Reporting!vars)
  <2> SUFFICES ASSUME IInv, IInv', [Next]_vars
               PROVE  Reporting!Next \/ UNCHANGED Reporting!vars
    OBVIOUS
  <2>1. CASE Next
    BY <2>1, Steps, CallsReport, QueryReport, DatagramReport, PlayedReport, CountsAge
    DEF Reports, Reporting!Next
  <2>2. CASE UNCHANGED vars
    BY <2>2, CountedKept DEF vars, Lately, Reporting!vars
  <2> QED
    BY <2>1, <2>2
<1> QED
  BY <1>1, <1>2, SidecarInvariant, PTL DEF Spec, ReportsPlayers, Reporting!Spec
=============================================================================
