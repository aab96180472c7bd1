--------------------------- MODULE VendorHandlers ---------------------------
(***************************************************************************)
(* The firmware containers of handlers/archive/*/: calculate_chunk and the *)
(* extractor that cuts the container up, which parses the same headers     *)
(* once more from the carved chunk.                                        *)
(***************************************************************************)
EXTENDS Reader

\* A handler that returns the chunk of its header, or raises
Judge(header, valid, end) ==
  Set(IF valid THEN FoundUpTo(Keep(scan, header), end) ELSE Raise(scan))

\* carve_chunk_to_file cuts Chunk after Chunk; an empty one raises when it is made.
CarveChunks(ranges) ==
  LET empty == {i \in DOMAIN ranges : ranges[i][1] >= ranges[i][2]}
      upTo == IF empty = {} THEN Len(ranges) ELSE Min(empty) - 1
  IN Carves(scan, {ranges[i] : i \in 1 .. upTo})

------------------------------- \* airoha

Prelude == 1
airoha_header_t == [firmware_offset : Fields, firmware_size : Fields, encrypted : BOOLEAN]

Airoha ==
  /\ Parse("airoha", "header")
  /\ \E header \in airoha_header_t :
       Judge(header, header.firmware_offset >= Prelude /\ header.firmware_size > 0,
             scan.start + header.firmware_offset + header.firmware_size)

\* The TLVs end at MOVER_INFO; without sections, without one (EOF) or without its payload
\* there is nothing to extract.  An encrypted payload is carved and reported.
AirohaExtract ==
  /\ Extract("airoha")
  /\ \E sections \in 0 .. 1 :
       Set(IF sections = 0 THEN Carves(scan, {})
           ELSE Carves(scan, {Span(scan.hdr.firmware_offset, scan.hdr.firmware_size)}))

------------------------------- \* D-Link

dlink_alpha_header_t == [fsize : Fields, aligned : BOOLEAN, ok : BOOLEAN]

\* _validate: magic, signature, the payload is there and is aligned
AlphaEncimg ==
  /\ Parse("alpha_encimg", "header")
  /\ \E header \in dlink_alpha_header_t :
       Judge(header, header.ok /\ header.fsize <= size - (scan.pos + 1) /\ header.aligned,
             scan.start + 1 + header.fsize)

\* V2 reads the header in both byte orders and believes the smaller size.
wrgg03_header_t == [le : Fields, be : Fields, aligned : BOOLEAN, ok : BOOLEAN]

AlphaEncimgV2 ==
  /\ Parse("alpha_encimg_v2", "header")
  /\ \E header \in wrgg03_header_t :
       LET fsize == Min({header.le, header.be})
       IN Judge(header, header.ok /\ fsize <= size - (scan.pos + 1) /\ header.aligned,
                scan.start + 1 + fsize)

\* A device that is not known is refused; everything (V2: behind the header) is decrypted.
AlphaExtract ==
  /\ Extract("alpha_encimg")
  /\ \E known \in BOOLEAN : Set(Carves(scan, IF known THEN {<<0, scan.to - scan.from>>} ELSE {}))

AlphaV2Extract == Extract("alpha_encimg_v2") /\ Set(Carves(scan, {<<1, scan.to - scan.from>>}))

deafbead_t == [magic : {"dir", "file", "other"}, name_len : {0, 1}, file_size : {0, 1}]

\* One directory or file after another, until another byte or the end of the file
DeafBeadHeader ==
  Parse("deafbead", "header") /\ Set(Go(Seek(scan, scan.pos + 1), "entries"))

DeafBeadEntry ==
  /\ Parse("deafbead", "entries")
  /\ \E entry \in deafbead_t :
       LET length == IF entry.magic = "dir" THEN 1 ELSE 1 + entry.file_size
           empty == entry.name_len = 0 \/ (entry.magic = "file" /\ entry.file_size = 0)
       IN Set(CASE entry.magic = "other" -> FoundUpTo(scan, scan.pos)
                [] entry.magic # "other" /\ (empty \/ scan.pos + length > size) -> Raise(scan)
                [] OTHER -> Seek(scan, scan.pos + length))

DeafBeadEof == AtEof("deafbead", "entries") /\ Set(FoundUpTo(scan, scan.pos))

dlink_header_t == [file_size : Fields]

Encrpted ==
  /\ Parse("encrpted_img", "header")
  /\ \E header \in dlink_header_t :
       Judge(header, header.file_size >= 1, scan.start + 1 + header.file_size)

\* One physical erase block after another is decrypted.
EncrptedExtract == Extract("encrpted_img") /\ Set(Carves(scan, {<<1, scan.to - scan.from>>}))

cpkg_header_t == [first_entry_offset : Fields, ok : BOOLEAN]
file_header_t == [file_size : Fields, ok : BOOLEAN]

FpkgHeader ==
  /\ Parse("fpkg", "header")
  /\ \E header \in cpkg_header_t :
       LET first == scan.start + header.first_entry_offset
       IN Set(IF header.ok /\ header.first_entry_offset >= 1
              THEN Go(Seek(Keep(scan, header), first), "entries") ELSE Raise(scan))

\* iter_entries: every entry up to the end of the file must be valid.
FpkgEntry ==
  /\ Parse("fpkg", "entries")
  /\ \E entry \in file_header_t :
       LET next == scan.pos + 1 + entry.file_size
       IN Set(IF ~entry.ok THEN Raise(scan)
              ELSE Seek(AddEntry(scan, Span(scan.pos + 1 - scan.start, entry.file_size)),
                                next))

FpkgEnd ==
  /\ AtEof("fpkg", "entries")
  /\ Set(IF scan.toc = <<>> THEN Raise(scan) ELSE FoundUpTo(scan, scan.pos))

FpkgExtract == Extract("fpkg") /\ Set(Carves(scan, Entries(scan)))

shrs_header_t == [file_size : Fields, file_size_no_padding : Fields, ok : BOOLEAN]

\* is_valid_header: a size, and the digest over the payload without its padding, or over
\* what the file has of it.  The seek back goes by the size asked for, not by what was read.
ShrsHeader ==
  /\ Parse("shrs", "header")
  /\ \E header \in shrs_header_t :
       LET payload == scan.pos + 1
           back == Min({payload + header.file_size_no_padding, size}) - header.file_size_no_padding
       IN Set(IF header.file_size < 1 \/ back < 0 \/ ~header.ok THEN Raise(scan)
              ELSE Go(Reach(Seek(Keep(scan, [length |-> header.file_size, from |-> back]), back),
                            payload + header.file_size), "decrypt"))

\* file.read(1024): a buffer of two units here
ShrsBuffer == 2

\* Buffer after buffer is decrypted until file_size bytes came out, whatever the last one
\* holds behind the payload; at the end of the file there are no more and the loop goes on.
ShrsBlock ==
  /\ At("shrs", "decrypt")
  /\ scan.pos - scan.hdr.from < scan.hdr.length
  /\ Set(Seek(scan, Min({scan.pos + ShrsBuffer, size})))

ShrsEnd ==
  /\ At("shrs", "decrypt")
  /\ scan.pos - scan.hdr.from >= scan.hdr.length
  /\ Set(FoundUpTo(scan, scan.pos))

ShrsExtract == Extract("shrs") /\ Set(Carves(scan, {<<1, scan.to - scan.from>>}))

------------------------------- \* EnGenius, HP, Instar

engenius_header_t == [length : Fields, ok : BOOLEAN]

Engenius ==
  /\ Parse("engenius", "header")
  /\ \E header \in engenius_header_t :
       Judge(header, header.length > 1 /\ header.ok, scan.start + 1 + header.length)

\* decrypt everything from behind the header to length
EngeniusExtract == Extract("engenius") /\ Set(Carves(scan, {<<1, scan.hdr.length>>}))

\* The headers of HP's bdl and ipkg containers point to a table of contents.
bdl_header_t == [toc_offset : Fields, toc_entries : {0, 1, 2}, ok : BOOLEAN]
bdl_toc_entry_t == [offset : Fields, entry_size : Fields]

\* for _ in range(toc_entries)
TocEntry(entry) ==
  LET s == AddEntry(Seek(scan, scan.pos + 1), entry)
  IN IF Len(s.toc) = s.hdr.toc_entries THEN Go(s, "end") ELSE s

BdlHeader ==
  /\ Parse("bdl", "header")
  /\ \E header \in bdl_header_t :
       Set(IF header.toc_offset = 0 \/ header.toc_entries = 0 \/ ~header.ok THEN Raise(scan)
           ELSE Go(Seek(Keep(scan, header), scan.start + header.toc_offset), "entries"))

BdlEntry ==
  /\ Parse("bdl", "entries")
  /\ \E entry \in bdl_toc_entry_t :
       Set(TocEntry(Span(entry.offset, entry.entry_size)))

BdlEnd ==
  /\ At("bdl", "end")
  /\ Set(FoundUpTo(scan, scan.start + Max({e[2] : e \in Entries(scan)})))

\* The Chunks of all entries are made before the first one is carved.
BdlExtract ==
  /\ Extract("bdl")
  /\ Set(Carves(scan, IF \E e \in Entries(scan) : e[1] = e[2] THEN {} ELSE Entries(scan)))

ipkg_header_t == bdl_header_t
ipkg_toc_entry_t == [offset : Fields, entry_size : Fields, plain : BOOLEAN]

IpkgHeader ==
  /\ Parse("ipkg", "header")
  /\ \E header \in ipkg_header_t :
       Set(IF header.toc_offset = 0 \/ header.toc_entries = 0 \/ ~header.ok THEN Raise(scan)
           ELSE Go(Seek(Keep(scan, header), scan.start + header.toc_offset), "entries"))

IpkgEntry ==
  /\ Parse("ipkg", "entries")
  /\ \E entry \in ipkg_toc_entry_t : Set(TocEntry(entry))

IpkgEnd ==
  /\ At("ipkg", "end")
  /\ Set(FoundUpTo(scan, scan.start + Max({e.offset + e.entry_size : e \in Entries(scan)})))

\* Nothing is carved when a name has a directory part.
IpkgExtract ==
  /\ Extract("ipkg")
  /\ Set(Carves(scan, IF \E e \in Entries(scan) : ~e.plain THEN {}
                      ELSE {Span(e.offset, e.entry_size) : e \in Entries(scan)}))

bneg_header_t == [partition_1_size : Fields, partition_2_size : Fields, ok : BOOLEAN]

Bneg ==
  /\ Parse("bneg", "header")
  /\ \E header \in bneg_header_t :
       Judge(header, header.partition_1_size # 0 /\ header.partition_2_size # 0 /\ header.ok,
             scan.start + 1 + header.partition_1_size + header.partition_2_size)

BnegExtract ==
  /\ Extract("bneg")
  /\ LET first == Span(1, scan.hdr.partition_1_size)
     IN Set(CarveChunks(<<first, Span(first[2], scan.hdr.partition_2_size)>>))

------------------------------- \* Moxa, Netgear

frm_container_header_t == [total_length : Fields]

MoxaFrm ==
  /\ Parse("moxa_frm", "header")
  /\ \E header \in frm_container_header_t :
       Judge(header, TRUE, scan.start + header.total_length)

frm_section_entry_t == [type : {"binary", "filesystem", "other"}, offset : Fields, length : Fields]

\* A binary is carved; of a file system every named file, gunzipped, is written.  Where the
\* table of contents points to is not checked.
MoxaExtract ==
  /\ Extract("moxa_frm")
  /\ \E section \in frm_section_entry_t :
       Set(Carves(scan, IF section.type = "other" THEN {}
                        ELSE {Span(section.offset, section.length)}))

chk_header_t == [header_len : {1, 2}, kernel_len : Fields, rootfs_len : Fields, ok : BOOLEAN]

Chk ==
  /\ Parse("chk", "header")
  /\ \E header \in chk_header_t :
       Judge(header, header.header_len = 1 /\ header.ok,
             scan.start + header.header_len + header.kernel_len + header.rootfs_len)

\* _dump_file twice; the cursor is behind what was carved.
ChkExtract ==
  /\ Extract("chk")
  /\ LET kernel == Span(scan.hdr.header_len, scan.hdr.kernel_len)
         rootfs == Span(kernel[2], scan.hdr.rootfs_len)
     IN Set(Carves(scan, {part \in {kernel, rootfs} : part[1] < part[2]}))

trx_header_t == [len : Fields, offsets : [1 .. 2 -> Fields], ok : BOOLEAN]

\* The checksum is taken over the image, or over what the file has of it.
Trx ==
  /\ Parse("trx", "header")
  /\ \E header \in trx_header_t :
       Judge(header, header.len >= 1 /\ header.ok, scan.start + header.len)

\* The parts lie between the offsets, in ascending order, and the end of the image.
Partition(offsets, eof) ==
  LET marks == {o \in offsets : o > 0} \cup {eof}
  IN {<<a, b>> \in marks \X marks : a < b /\ ~\E c \in marks : a < c /\ c < b}

\* Two equal offsets make an empty Chunk, which raises when the parts before are carved.
TrxExtract ==
  /\ Extract("trx")
  /\ LET offsets == scan.hdr.offsets
         eof == scan.to - scan.from
         parts == Partition({offsets[1], offsets[2]}, eof)
         twice == CASE offsets[1] = offsets[2] /\ offsets[1] > 0 -> {offsets[1]}
                    [] offsets[1] # offsets[2] /\ eof \in {offsets[1], offsets[2]} -> {eof}
                    [] OTHER -> {}
     IN Set(Carves(scan, {part \in parts : \A dup \in twice : part[2] <= dup}))

------------------------------- \* QNAP, Tesla, Xiaomi, Autel

qnap_header_t == [encrypted_len : Fields, ok : BOOLEAN]

\* The footer is searched for in the whole file; what lies before the start does not count.
QnapNas ==
  /\ Parse("qnap_nas", "header")
  /\ \/ Set(Nothing(scan))
     \/ \E offset \in scan.start .. size - 1, header \in qnap_header_t :
          header.ok /\ Set(FoundUpTo(Keep(scan, header), offset + 1))

\* The footer closes the file; the chunk is the whole file.
QnapNetworking ==
  /\ Parse("qnap_networking", "header")
  /\ \E header \in qnap_header_t :
       Set(IF \/ scan.start # size - 1
              \/ header.encrypted_len = 0 \/ header.encrypted_len > scan.start \/ ~header.ok
           THEN Nothing(scan)
           ELSE Found(Keep(scan, header), 0, scan.start + 1))

\* Decrypt encrypted_len bytes, copy the rest up to the footer.
QnapExtract ==
  /\ scan.handler \in {"qnap_nas", "qnap_networking"} /\ scan.at = "extract"
  /\ LET footer == scan.to - scan.from - 1
     IN Set(Carves(scan, {part \in {<<0, Min({scan.hdr.encrypted_len, footer + 1})>>,
                                    <<scan.hdr.encrypted_len, footer>>} : part[1] < part[2]}))

sbfh_header_t == [header_size : Fields, firmware_size : Fields]

Sbfh ==
  /\ Parse("sbfh", "header")
  /\ \E header \in sbfh_header_t :
       Judge(header, header.firmware_size # 0,
             scan.start + header.header_size + header.firmware_size)

mrvl_segment_header_t == [offset : Fields, seg_size : Fields]

\* Every segment is written to its address, with a problem recorded if its CRC is wrong.
SbfhExtract ==
  /\ Extract("sbfh")
  /\ \E segment \in mrvl_segment_header_t :
       Set(Carves(scan, {Span(scan.hdr.header_size + segment.offset, segment.seg_size)}))

hdr1_header_t == [signature_offset : Fields, blob_offsets : Fields, ok : BOOLEAN]

\* The checksum is taken from behind the CRC field over two fields too many, or up to the
\* end of the file.
Hdr ==
  /\ Parse("hdr", "header")
  /\ \E header \in hdr1_header_t :
       Judge(header, header.signature_offset >= 1 /\ header.blob_offsets # 0 /\ header.ok,
             scan.start + header.signature_offset + 1)

blob_header_t == [blob_size : Fields, ok : BOOLEAN]

\* A blob lies behind its header; an invalid one stops the extraction.
HdrExtract ==
  /\ Extract("hdr")
  /\ \E blob \in blob_header_t :
       Set(Carves(scan, IF blob.ok /\ blob.blob_size # 0
                        THEN {Span(scan.hdr.blob_offsets + 1, blob.blob_size)} ELSE {}))

autel_header_t == [header_size : {1, 2}, file_size : Fields]

Ecc ==
  /\ Parse("ecc", "header")
  /\ \E header \in autel_header_t :
       Judge(header, header.header_size = 1, scan.start + header.header_size + header.file_size)

\* Mutant: the size is taken to include the header.
EccExtract_WholeSize ==
  Extract("ecc") /\ Set(Carves(scan, {Span(scan.hdr.header_size,
                                           scan.hdr.header_size + scan.hdr.file_size)}))

EccExtract ==
  Extract("ecc") /\ Set(Carves(scan, {Span(scan.hdr.header_size, scan.hdr.file_size)}))

-----------------------------------------------------------------------------
VendorNames ==
  {"airoha", "alpha_encimg", "alpha_encimg_v2", "deafbead", "encrpted_img", "fpkg", "shrs",
   "engenius", "bdl", "ipkg", "bneg", "moxa_frm", "chk", "trx", "qnap_nas", "qnap_networking",
   "sbfh", "hdr", "ecc"}

VendorEof ==
  {<<"deafbead", "entries">>, <<"fpkg", "entries">>, <<"shrs", "decrypt">>, <<"bdl", "end">>,
   <<"ipkg", "end">>}

VendorNext ==
  \/ Airoha \/ AirohaExtract \/ AlphaEncimg \/ AlphaEncimgV2 \/ AlphaExtract \/ AlphaV2Extract
  \/ DeafBeadHeader \/ DeafBeadEntry \/ DeafBeadEof \/ Encrpted \/ EncrptedExtract
  \/ FpkgHeader \/ FpkgEntry \/ FpkgEnd \/ FpkgExtract \/ ShrsHeader \/ ShrsBlock
  \/ ShrsEnd \/ ShrsExtract
  \/ Engenius \/ EngeniusExtract \/ BdlHeader \/ BdlEntry \/ BdlEnd \/ BdlExtract
  \/ IpkgHeader \/ IpkgEntry \/ IpkgEnd \/ IpkgExtract \/ Bneg \/ BnegExtract
  \/ MoxaFrm \/ MoxaExtract \/ Chk \/ ChkExtract \/ Trx \/ TrxExtract
  \/ QnapNas \/ QnapNetworking \/ QnapExtract \/ Sbfh \/ SbfhExtract \/ Hdr \/ HdrExtract
  \/ Ecc \/ EccExtract
=============================================================================
