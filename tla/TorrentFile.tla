----------------------------- MODULE TorrentFile -----------------------------
(***************************************************************************)
(* The .torrent of a file, written by BuildTorrentFile and read by         *)
(* OpenTorrentFile of torrent_files.go.                                    *)
(*                                                                         *)
(* A hash is HashLen bytes that tell which bytes of the file were hashed.  *)
(* The hashes are put together in one string, and taken apart again.       *)
(***************************************************************************)
EXTENDS Naturals, Sequences

CONSTANT HashLen   \* bytes of a hash: 20 in the code

ASSUME HashLenAssumption == HashLen \in Nat \ {0}

\* sha1.Sum(buf[begin:end])
Sum(begin, end) == [b \in 1 .. HashLen |-> <<begin, end, b>>]

\* Mutant: a last piece that is not whole is hashed with the one before.
hashedPieces_tail(length, pieceLength) ==
  [i \in 1 .. length \div pieceLength |->
     Sum((i - 1) * pieceLength,
         IF i = length \div pieceLength THEN length ELSE i * pieceLength)]

\* The loop of BuildTorrentFile: the whole pieces.
hashedPieces(length, pieceLength) ==
  [i \in 1 .. length \div pieceLength |-> Sum((i - 1) * pieceLength, i * pieceLength)]

\* The string they are added to, hash after hash.
joined(hashes) ==
  [j \in 1 .. Len(hashes) * HashLen |->
     hashes[(j - 1) \div HashLen + 1][((j - 1) % HashLen) + 1]]

\* BuildTorrentFile of a file with that many bytes, an empty one included.
BuildTorrentFile(length, pieceLength) ==
  [PieceLength |-> pieceLength,
   Length      |-> length,
   Pieces      |-> IF length \div pieceLength = 0 THEN Sum(0, length)
                   ELSE joined(hashedPieces(length, pieceLength))]

\* splitPiecesHash
Malformed(bto) == Len(bto.Pieces) % HashLen # 0

splitPiecesHash(pieces) ==
  [i \in 1 .. Len(pieces) \div HashLen |->
     SubSeq(pieces, (i - 1) * HashLen + 1, i * HashLen)]

\* ConvertToTorrentFile of one that is not malformed.
OpenTorrentFile(bto) == [bto EXCEPT !.Pieces = splitPiecesHash(@)]

\* The length DownloadFile gives the task of a piece, counted from 0.
pieceLengthOf(tf, index) ==
  IF (index + 1) * tf.PieceLength > tf.Length
  THEN tf.Length - index * tf.PieceLength
  ELSE tf.PieceLength

\* The bytes that have a hash.
Hashed(tf) ==
  IF tf.Length < tf.PieceLength THEN tf.Length ELSE tf.Length - (tf.Length % tf.PieceLength)

\* What was written can be read back, the hashes are of consecutive ranges from
\* the first byte on, each as long as the piece the downloader asks for, and
\* what is left over is less than a piece, and nothing of a file shorter than one.
Agrees(bto) ==
  LET tf     == OpenTorrentFile(bto)
      End(i) == (i - 1) * tf.PieceLength + pieceLengthOf(tf, i - 1)
  IN /\ ~Malformed(bto)
     /\ \A i \in 1 .. Len(tf.Pieces) :
          tf.Pieces[i] = Sum((i - 1) * tf.PieceLength, End(i))
     /\ End(Len(tf.Pieces)) = Hashed(tf)
===============================================================================
