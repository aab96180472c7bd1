------------------------ MODULE CompressionHandlers -------------------------
(***************************************************************************)
(* calculate_chunk of handlers/compression/*.py.  Some walk over block     *)
(* headers, some search the end marker, and some decompress the stream to  *)
(* see where it ends: there hdr holds where it really does, as the         *)
(* decompressor will find out.                                             *)
(***************************************************************************)
EXTENDS Reader

------------------------------- \* decompress until the stream ends

\* Where the stream that starts here ends: at some offset, not before the file does, or it
\* is damaged.
Streams == [stop : 1 .. Max(FileSizes) + 1, ok : BOOLEAN]
Buffer == 2

\* gzip: _read_member_end_offset reads a member to its end, with the footer.  A first
\* member that is damaged or truncated is no chunk, ...
GzipMember ==
  /\ Parse("gzip", "header")
  /\ \E member \in Streams :
       LET end == scan.pos + member.stop
       IN Set(IF ~member.ok \/ end > size THEN Raise(scan)
              ELSE Go(Seek(scan, end), "members"))

\* ... a later one ends the loop, and a truncated one the calculation (EOFError).
GzipNextMember ==
  /\ At("gzip", "members")
  /\ \E member \in Streams :
       LET end == scan.pos + member.stop
       IN Set(CASE scan.pos >= size \/ ~member.ok -> FoundUpTo(scan, scan.pos)
                [] scan.pos < size /\ member.ok /\ end > size -> Raise(scan)
                [] OTHER -> Seek(scan, end))

\* MultiVolumeGzipHandler: the first volume, which carries the header, stands for all.
MultiGzip ==
  /\ At("multi-gzip", "header")
  /\ \E volumes \in 0 .. MaxEntries, first, valid \in BOOLEAN :
       Set(IF volumes = 0 \/ ~first \/ ~valid THEN Nothing(scan) ELSE End(scan, "multifile"))

\* zlib: a file that ends with a DMG trailer is left to DMGHandler; the first buffer is read.
ZlibStart ==
  /\ Parse("zlib", "header")
  /\ \E stream \in Streams, dmg \in BOOLEAN :
       LET next == Min({scan.pos + Buffer, size})
       IN Set(IF dmg THEN Raise(scan)
              ELSE Go(Seek(Keep(scan, [stop |-> scan.start + stream.stop, ok |-> stream.ok,
                                       seen |-> scan.start, buffer |-> next - scan.pos]), next),
                      "decompress"))

\* while content and not eof: the buffer is decompressed, and the next one is read at once.
ZlibBuffer ==
  /\ At("zlib", "decompress")
  /\ scan.hdr.buffer > 0 /\ scan.hdr.seen < scan.hdr.stop
  /\ LET next == Min({scan.pos + Buffer, size})
     IN Set(IF ~scan.hdr.ok THEN Raise(scan)
            ELSE Seek(Keep(scan, [scan.hdr EXCEPT !.seen = scan.pos,
                                                  !.buffer = next - scan.pos]), next))

\* end_offset = tell - len(unused_data): what the decompressor was given behind the end
ZlibEnd ==
  /\ At("zlib", "decompress")
  /\ scan.hdr.buffer = 0 \/ scan.hdr.seen >= scan.hdr.stop
  /\ LET unused == Max({scan.hdr.seen - scan.hdr.stop, 0})
     IN Set(FoundUpTo(Reach(scan, Min({scan.hdr.stop, size})), scan.pos - unused))

\* lzma: as long as the output is incomplete, another buffer is read and decompressed.
lzma_header == [stop : 1 .. Max(FileSizes) + 1, ok : BOOLEAN, valid : BOOLEAN]

LzmaStart ==
  /\ Parse("lzma", "header")
  /\ \E stream \in lzma_header :
       Set(IF ~stream.valid THEN Raise(scan)
           ELSE Go(Keep(scan, [stream EXCEPT !.stop = scan.start + @]), "decompress"))

\* The file ends too early: if hardly anything came out this is no stream.
LzmaBuffer ==
  /\ At("lzma", "decompress") /\ scan.pos < scan.hdr.stop
  /\ \/ scan.pos < size /\ Set(IF scan.hdr.ok THEN Seek(scan, Min({scan.pos + Buffer, size}))
                               ELSE Raise(scan))
     \/ scan.pos = size /\ \E early \in BOOLEAN : Set(IF early THEN Raise(scan) ELSE Go(scan, "end"))

\* It must end smaller than what comes out, and not be too small.
LzmaEnd ==
  /\ At("lzma", "end") \/ (At("lzma", "decompress") /\ scan.pos >= scan.hdr.stop)
  /\ LET end == scan.pos - Max({scan.pos - scan.hdr.stop, 0})
     IN \E expands \in BOOLEAN : Set(IF expands THEN FoundUpTo(scan, end) ELSE Raise(scan))

\* compress: unlzw counts what it consumes against the size of the whole file.  Whenever the
\* width of a code changes, and at a clear code, nxt is moved past the rest of the group.
compress_header == [ok : BOOLEAN]
lzw_code == [bytes : {1, 2}, group : {0, 1}, ok : BOOLEAN]

CompressStart ==
  /\ Parse("compress", "header")
  /\ \E header \in compress_header :
       Set(IF header.ok THEN Go(Seek(Keep(scan, [nxt |-> 1]), scan.pos + 1), "codes") ELSE Raise(scan))

CompressCode ==
  /\ At("compress", "codes") /\ scan.hdr.nxt < size
  /\ \E code \in lzw_code :
       LET nxt == scan.hdr.nxt + code.group
           next == scan.pos + code.bytes
       IN Set(CASE code.group >= size - scan.hdr.nxt -> Go(scan, "end")
                [] code.group < size - scan.hdr.nxt /\ (~code.ok \/ next > size) -> Raise(scan)
                [] OTHER -> Seek(Keep(scan, [nxt |-> nxt + code.bytes]), next))

\* The last byte read may belong to the next code; a chunk of a header and a code is too short.
CompressEnd ==
  /\ At("compress", "end") \/ (At("compress", "codes") /\ scan.hdr.nxt >= size)
  /\ \E back \in {0, 1} :
       Set(IF scan.pos - back - scan.start <= 1 THEN Raise(scan)
           ELSE FoundUpTo(scan, scan.pos - back))

------------------------------- \* walk over the blocks

lzo_header == [valid : BOOLEAN, checksums : 0 .. 2]

\* lzo: level and checksum of the header, then blocks until a size of 0
LzoHeader ==
  /\ Parse("lzo", "header")
  /\ \E header \in lzo_header :
       Set(IF ~header.valid THEN Nothing(scan)
           ELSE Go(Seek(Keep(scan, header), scan.pos + 1), "blocks"))

LzoBlock ==
  /\ Parse("lzo", "blocks")
  /\ \E uncompressed_size \in {0, 1}, compressed_size \in Fields :
       LET next == scan.pos + 1 + scan.hdr.checksums + compressed_size
       IN Set(IF uncompressed_size = 0 THEN FoundUpTo(scan, scan.pos + 1)
              ELSE Seek(scan, next))

\* lz4, three frame formats.  Legacy: blocks until another frame's magic, an incomplete block
\* or the end of the file.
Lz4Legacy == Parse("lz4_legacy", "header") /\ Set(Go(Seek(scan, scan.pos + 1), "blocks"))

Lz4LegacyBlock ==
  /\ Parse("lz4_legacy", "blocks")
  /\ \E length \in Fields, full, ok, magic \in BOOLEAN :
       LET next == Min({scan.pos + 1 + length, size})
       IN Set(CASE magic -> FoundUpTo(scan, scan.pos)
                [] ~magic /\ ~ok -> Raise(scan)
                [] ~magic /\ ok /\ ~full -> FoundUpTo(scan, next)
                [] OTHER -> Seek(scan, next))

Lz4LegacyEof == AtEof("lz4_legacy", "blocks") /\ Set(FoundUpTo(scan, scan.pos))

\* A seek out of the file raises SeekError.
FoundWithin(s, end) == IF end > size THEN Raise(s) ELSE FoundUpTo(s, end)

Lz4Skippable ==
  /\ Parse("lz4_skippable", "header")
  /\ \E frame_size \in Fields : Set(FoundWithin(scan, scan.pos + 1 + frame_size))

FLG == [block_checksum : {0, 1}, content_size : {0, 1}, content_checksum : {0, 1}]

Lz4Default ==
  /\ Parse("lz4_default", "header")
  /\ \E flg \in FLG : Set(Go(Seek(Keep(scan, flg), scan.pos + 1 + flg.content_size), "blocks"))

Lz4DefaultBlock ==
  /\ Parse("lz4_default", "blocks")
  /\ \E block_size \in Fields :
       LET next == scan.pos + 1 + block_size + scan.hdr.block_checksum
       IN Set(IF block_size = 0 THEN FoundWithin(scan, scan.pos + 1 + scan.hdr.content_checksum)
              ELSE Seek(scan, next))

\* zstd: the descriptor gives the size of the frame header; blocks up to the last one
frame_header_descriptor == [size : 0 .. 1, checksum : {0, 1}, ok : BOOLEAN]

ZstdFrame ==
  /\ Parse("zstd", "header")
  /\ \E descriptor \in frame_header_descriptor :
       Set(IF ~descriptor.ok THEN Raise(scan)
           ELSE Go(Seek(Keep(scan, descriptor), scan.pos + 1 + descriptor.size), "blocks"))

ZstdBlock ==
  /\ Parse("zstd", "blocks")
  /\ \E last, valid \in BOOLEAN, block_size \in Fields :
       LET next == scan.pos + 1 + block_size
       IN Set(CASE ~valid -> Raise(scan)
                [] valid /\ last -> FoundWithin(scan, next + scan.hdr.checksum)
                [] OTHER -> Seek(scan, next))

\* qnx_deflate: next leads from header to header; less than a header is refused.
filehdr_t == [ok : BOOLEAN]

QnxHeader ==
  /\ Parse("qnx_deflate", "header")
  /\ \E header \in filehdr_t :
       Set(IF header.ok THEN Go(Seek(scan, scan.pos + 1), "blocks") ELSE Raise(scan))

QnxBlock ==
  /\ Parse("qnx_deflate", "blocks")
  /\ \E next \in {0} \cup {-1} \cup 1 .. Max(Fields) :
       Set(CASE next = 0 -> FoundUpTo(scan, scan.pos + 1)
             [] next = -1 -> Raise(scan)
             [] OTHER -> Seek(scan, scan.pos + next))

\* lzh: level 2 stores the size of the header in two bytes; one byte left over belongs to it.
lzh_default_header_t == [level_identifier : 0 .. 3, header_size : Fields, compressed_size : Fields]

Lzh ==
  /\ Parse("lzh", "header")
  /\ \E header \in lzh_default_header_t :
       LET end == scan.start + header.header_size + header.compressed_size
       IN Set(CASE header.level_identifier > 2 \/ header.header_size < 1 -> Nothing(scan)
                [] end > size -> Raise(scan)
                [] OTHER -> FoundUpTo(scan, IF size - end = 1 THEN size ELSE end))

uzip_header_t == [block_count : {0, 1}, toc : Fields, ok : BOOLEAN]

Uzip ==
  /\ Parse("uzip", "header")
  /\ \E header \in uzip_header_t :
       Set(IF header.block_count > 0 /\ header.ok THEN FoundUpTo(scan, scan.start + header.toc)
           ELSE Raise(scan))

xalz_header_t == [uncompressed_size : {0, 1}]

Xalz ==
  /\ Parse("xalz", "header")
  /\ \E header \in xalz_header_t :
       Set(IF header.uncompressed_size > 0 THEN FoundUpTo(scan, size) ELSE Raise(scan))

------------------------------- \* search for the end

\* lzip: step by step until the number read is the distance from the start
LzipHeader == Parse("lzip", "header") /\ Set(Go(Seek(scan, scan.pos + 1), "trailer"))

LzipStep ==
  /\ Parse("lzip", "trailer")
  /\ \E member_size \in 0 .. Max(FileSizes) :
       LET end == scan.pos + 1
       IN Set(IF member_size = end - scan.start THEN FoundUpTo(scan, end) ELSE Seek(scan, end))

\* bzip2: the header of the first stream and of its first block
Bzip2Header ==
  /\ Parse("bzip2", "header")
  /\ \E stream, block \in BOOLEAN :
       Set(IF stream /\ block THEN Go(Keep(scan, [end |-> -1]), "scan") ELSE Raise(scan))

\* _hyperscan_match at an end marker: the stream ends behind its footer; another stream may
\* follow there.  Matches before the start are skipped.
Bzip2Match ==
  /\ At("bzip2", "scan")
  /\ \E offset \in scan.pos .. size - 1, follows \in BOOLEAN, shifted \in {0, 1} :
       LET end == offset + 1 + shifted
       IN Set(CASE end > size -> Go(scan, "end")
                [] end <= size /\ follows -> Seek(Keep(scan, [end |-> end]), end)
                [] OTHER -> Go(Keep(scan, [end |-> end]), "end"))

Bzip2End ==
  /\ At("bzip2", "end") \/ At("bzip2", "scan")
  /\ Set(IF scan.hdr.end > 0 THEN FoundUpTo(scan, scan.hdr.end) ELSE Raise(scan))

\* xz: the stream flags, then every end marker.  first is where the current stream starts.
XzHeader ==
  /\ Parse("xz", "header")
  /\ \E flag \in BOOLEAN :
       Set(IF flag THEN Go(Keep(scan, [end |-> -1, first |-> scan.start]), "scan") ELSE Raise(scan))

\* It is the stream's own if the sizes in the index (get_stream_size) add up to the distance.
\* Padding in fours belongs to it, and another stream may follow.
XzMatch ==
  /\ At("xz", "scan")
  /\ \E offset \in scan.pos .. size - 1, stream_size \in 1 .. Max(FileSizes), follows \in BOOLEAN :
     \E padded \in offset + 1 .. size :
       LET end == offset + 1
           aligned == (padded - end) % 2 = 0
           s == Seek(scan, end)
       IN Set(CASE stream_size # end - scan.hdr.first -> s
                [] stream_size = end - scan.hdr.first /\ ~aligned ->
                     [s EXCEPT !.hdr.end = end]
                [] stream_size = end - scan.hdr.first /\ aligned /\ follows /\ padded < size ->
                     [s EXCEPT !.hdr.end = padded, !.hdr.first = padded]
                [] OTHER -> Go([s EXCEPT !.hdr.end = padded], "end"))

XzEnd ==
  /\ At("xz", "end") \/ At("xz", "scan")
  /\ Set(IF scan.hdr.end > 0 THEN FoundUpTo(scan, scan.hdr.end) ELSE Raise(scan))

-----------------------------------------------------------------------------
CompressionNames ==
  {"gzip", "multi-gzip", "zlib", "lzma", "compress", "lzo", "lz4_legacy", "lz4_skippable",
   "lz4_default", "zstd", "qnx_deflate", "lzh", "uzip", "xalz", "lzip", "bzip2", "xz"}

CompressionEof ==
  {<<"gzip", "members">>, <<"multi-gzip", "header">>, <<"zlib", "decompress">>,
   <<"lzma", "decompress">>, <<"lzma", "end">>, <<"compress", "codes">>, <<"compress", "end">>,
   <<"lz4_legacy", "blocks">>, <<"bzip2", "scan">>, <<"bzip2", "end">>, <<"xz", "scan">>,
   <<"xz", "end">>}

CompressionNext ==
  \/ GzipMember \/ GzipNextMember \/ MultiGzip \/ ZlibStart \/ ZlibBuffer \/ ZlibEnd
  \/ LzmaStart \/ LzmaBuffer \/ LzmaEnd \/ CompressStart \/ CompressCode \/ CompressEnd
  \/ LzoHeader \/ LzoBlock \/ Lz4Legacy \/ Lz4LegacyBlock \/ Lz4LegacyEof \/ Lz4Skippable
  \/ Lz4Default \/ Lz4DefaultBlock \/ ZstdFrame \/ ZstdBlock \/ QnxHeader \/ QnxBlock
  \/ Lzh \/ Uzip \/ Xalz \/ LzipHeader \/ LzipStep
  \/ Bzip2Header \/ Bzip2Match \/ Bzip2End \/ XzHeader \/ XzMatch \/ XzEnd
=============================================================================
