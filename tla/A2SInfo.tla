------------------------------- MODULE A2SInfo -------------------------------
(***************************************************************************)
(* The A2S_INFO packets the sidecar exchanges with the game server, as     *)
(* bytes: what a server lays out and what queryA2SInfo and parseA2SInfo    *)
(* make of the bytes that arrive.  A position is the byteReader's, counted *)
(* from 0: the byte at position pos is data[pos + 1].                      *)
(***************************************************************************)
EXTENDS Integers, Sequences, FiniteSetsExt

Byte == 0 .. 255
Data == Seq(Byte)
Text == Seq(Byte \ {0}) \* strings go over the wire with a NUL behind them

a2sHeader == <<255, 255, 255, 255>>

HasType(data, type) == SubSeq(data, 1, 4) = a2sHeader /\ data[5] = type

-----------------------------------------------------------------------------
(* The byteReader.                                                          *)

\* One byte, or 0 and an error at the end.
readByte(data, pos) ==
  IF pos >= Len(data) THEN [err |-> TRUE, val |-> 0, pos |-> pos]
  ELSE [err |-> FALSE, val |-> data[pos + 1], pos |-> pos + 1]

\* The positions of NULs the loop of readString has before it.
Nuls(data, pos) == {i \in pos .. Len(data) - 1 : data[i + 1] = 0}

\* The bytes up to the next NUL; without one, the reader is left at the end, or behind
\* it if a skip has already taken it there.
readString(data, pos) ==
  IF Nuls(data, pos) = {}
  THEN [err |-> TRUE, val |-> <<>>, pos |-> IF pos < Len(data) THEN Len(data) ELSE pos]
  ELSE LET end == Min(Nuls(data, pos))
       IN  [err |-> FALSE, val |-> SubSeq(data, pos + 1, end), pos |-> end + 1]

-----------------------------------------------------------------------------
(* The query.                                                               *)

\* conn.ReadFrom(buf): what does not fit is dropped.
BufferSize == 4096

ReadFrom(data) == SubSeq(data, 1, IF Len(data) < BufferSize THEN Len(data) ELSE BufferSize)

\* queryA2SInfo: the answer asks for a second request with these four bytes.
IsChallenge(data) == Len(data) >= 9 /\ HasType(data, 65)
ChallengeIn(data) == SubSeq(data, 6, 9)

NoInfo == [ok |-> FALSE, name |-> <<>>, mapName |-> <<>>, players |-> 0, maxPlayers |-> 0,
           version |-> <<>>]

\* parseA2SInfo reads one field behind the other, from position 6 on: header, type and
\* protocol version come first, two bytes of application id before the player counts, and
\* five bytes of flags behind them.
readName(data)    == readString(data, 6)
readMapName(data) == readString(data, readName(data).pos)
readFolder(data)  == readString(data, readMapName(data).pos)
readGame(data)    == readString(data, readFolder(data).pos)
readPlayers(data) == readByte(data, readGame(data).pos + 2)

readMaxPlayers(data) == readByte(data, readPlayers(data).pos)
readVersion(data)    == readString(data, readMaxPlayers(data).pos + 5)

\* Errors of the first four strings are returned; those of the fields behind them are not.
parseA2SInfo(data) ==
  IF \/ Len(data) < 6 \/ ~HasType(data, 73)
     \/ readName(data).err \/ readMapName(data).err \/ readFolder(data).err \/ readGame(data).err
  THEN NoInfo
  ELSE [ok |-> TRUE, name |-> readName(data).val, mapName |-> readMapName(data).val,
        players |-> readPlayers(data).val, maxPlayers |-> readMaxPlayers(data).val,
        version |-> readVersion(data).val]

-----------------------------------------------------------------------------
(* The game server's side.                                                  *)

Bytes(n) == {d \in Data : Len(d) = n}

\* The fields of an answer, in the order of the wire; extra is what newer servers append.
Fields == [protocol : Byte, name : Text, mapName : Text, folder : Text, game : Text,
           appID : Bytes(2), players : Byte, maxPlayers : Byte,
           flags : Bytes(5), version : Text, extra : Data]

Answer(f) ==
  a2sHeader \o <<73, f.protocol>> \o f.name \o <<0>> \o f.mapName \o <<0>> \o f.folder \o <<0>>
  \o f.game \o <<0>> \o f.appID \o <<f.players, f.maxPlayers>> \o f.flags \o f.version \o <<0>>
  \o f.extra

ChallengePacket(token) == a2sHeader \o <<65>> \o token
=============================================================================
