------------------------------ MODULE Handlers ------------------------------
(***************************************************************************)
(* Every handler that a file may meet: calculate_chunk at one offset of    *)
(* one file and, for the handlers with an extractor of their own, how the  *)
(* chunk is cut up.  The properties are what the finder, the layout of a   *)
(* file and the extraction rely on, for all handlers together.             *)
(***************************************************************************)
EXTENDS ArchiveHandlers, VendorHandlers, CompressionHandlers, FilesystemHandlers

CONSTANT Formats  \* the handlers to look at

AllFormats == ArchiveNames \cup VendorNames \cup CompressionNames \cup FilesystemNames

ASSUME FormatsAssumption == Formats \subseteq AllFormats

Init ==
  /\ size \in FileSizes
  /\ \E handler \in Formats, start \in 0 .. 1 :
       /\ handler = "ar" => start + ArPattern <= size
       /\ scan = Fresh(handler, start)

Next ==
  \/ ArchiveNext \/ VendorNext \/ CompressionNext \/ FilesystemNext
  \/ ShortRead(ArchiveEof \cup VendorEof \cup CompressionEof \cup FilesystemEof)

\* A calculation is one call: it goes on until it returns.
Spec == Init /\ [][Next]_readerVars /\ WF_readerVars(Next)

-----------------------------------------------------------------------------
\* How far a handler may read behind the data its headers describe and not wind back: the
\* rest of a buffer; the buffer after the one in which the stream ended; a byte.
ReadsOn == [ar |-> 0, shrs |-> ShrsBuffer - 1, zlib |-> Buffer, romfs |-> 1]

\* A seek back by what was asked for although less was read: arpy finds fewer bytes than a
\* header behind the last member; the payload without padding that SHRS hashes is cut off.
SeeksTooFar ==
  \/ scan.handler = "ar" /\ scan.pos < size /\ scan.pos + ArHeader > size
  \/ scan.handler = "shrs" /\ scan.hdr.from # scan.start + 1

(***************************************************************************)
(* The handlers that compute the end from where they stopped reading never *)
(* lose a byte of what the headers describe, and take no more of what      *)
(* follows than they read ahead: seeks back and forward over headers that  *)
(* failed, read-ahead and unused data add up to the end of the last        *)
(* member.  After a short read they do not: an ar archive that is followed *)
(* by fewer bytes than a header ends in its last member, and SHRS starts   *)
(* to count before the payload (SeeksTooFar).                              *)
(***************************************************************************)
EndsWhereRead ==
  scan.res = "chunk" /\ scan.handler \in DOMAIN ReadsOn /\ ~SeeksTooFar =>
    scan.to \in scan.reach .. scan.reach + ReadsOn[scan.handler]

\* The end is the value of a header field that nothing is compared with.
TrustsHeader ==
  {"airoha", "bdl", "bneg", "cab", "chk", "cramfs", "ecc", "elf", "encrpted_img", "engenius",
   "erofs", "extfs", "fat", "fpkg", "hdr", "ipkg", "iso9660", "minixfs", "moxa_frm", "msi",
   "ntfs", "partclone", "sbfh", "sevenzip", "stuffit", "trx", "ubifs", "ufs", "uzip"}

(***************************************************************************)
(* A handler that walks its format from structure to structure never       *)
(* claims more than the file has: the finder would drop such a chunk, and  *)
(* with it all that was walked.                                            *)
(***************************************************************************)
EndsInFile ==
  scan.res = "chunk" /\ scan.handler \notin TrustsHeader => scan.to <= size

(***************************************************************************)
(* What the finder and the layout of a file assume of a handler (Obedient  *)
(* in MCFileScan): the chunk starts where the pattern said and is not      *)
(* empty.  Trailers are the known exception: they lie in their chunk.  The *)
(* image an ISO 9660 descriptor describes may end before the descriptor.   *)
(***************************************************************************)
Obeys ==
  scan.res = "chunk" =>
    CASE scan.handler \in {"dmg", "qnap_networking"} ->
           scan.from <= scan.start /\ scan.start < scan.to
      [] scan.handler = "iso9660" -> scan.from < scan.start
      [] OTHER -> scan.from = scan.start /\ scan.start < scan.to

\* The extractors that believe the offsets of a table of contents: nothing keeps its entries
\* in the chunk, or apart.
TrustsOffsets == {"hdr", "moxa_frm", "sbfh", "trx"}
TrustsTable == TrustsOffsets \cup {"bdl", "ipkg"}

(***************************************************************************)
(* What an extractor cuts out lies in the chunk its handler has            *)
(* calculated, and no part is cut out twice: the two read the same header  *)
(* but compute the offsets in two places of the code.                      *)
(***************************************************************************)
CarvesInside ==
  /\ scan.handler \notin TrustsOffsets =>
       \A part \in scan.carved : part[1] <= part[2] /\ part[2] <= scan.to - scan.from
  /\ scan.handler \notin TrustsTable =>
       \A p, q \in scan.carved : p # q => p[2] <= q[1] \/ q[2] <= p[1]

(***************************************************************************)
(* Every calculation returns or raises, whatever lengths and offsets the   *)
(* headers hold: no entry of size zero, no chain that leads back keeps a   *)
(* handler in its loop.  SHRS is the exception: its loop counts decrypted  *)
(* bytes, and at the end of the file there are no more to count.           *)
(***************************************************************************)
CalculationEnds ==
  (scan.res = "running" /\ scan.handler # "shrs") ~> (scan.res # "running")
=============================================================================
