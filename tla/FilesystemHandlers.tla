------------------------- MODULE FilesystemHandlers -------------------------
(***************************************************************************)
(* calculate_chunk of handlers/filesystem/*.py, of handlers/executable/    *)
(* elf.py and of handlers/archive/cpio.py, whose archives are file system  *)
(* images too, with what their extractors cut out of the chunk.            *)
(***************************************************************************)
EXTENDS Reader

\* A size in the header decides: the structures end there or the header is refused.
Sized(valid, length) ==
  Set(IF valid THEN FoundUpTo(scan, scan.start + length) ELSE Raise(scan))

------------------------------- \* the size is in the superblock

cramfs_header_t == [fs_size : Fields, ok : BOOLEAN]

\* The signature and, for version 2, the CRC over fs_size bytes
Cramfs ==
  /\ Parse("cramfs", "header")
  /\ \E header \in cramfs_header_t :
       Set(IF header.ok THEN FoundUpTo(scan, scan.start + header.fs_size) ELSE Nothing(scan))

ext4_superblock_t == [s_blocks_count_lo : Fields, s_log_block_size : {0, 1}, ok : BOOLEAN]

ExtFS ==
  /\ Parse("extfs", "header")
  /\ \E header \in ext4_superblock_t :
       Sized(header.ok, header.s_blocks_count_lo * 2 ^ header.s_log_block_size)

\* get_max_offset: behind the last cluster in use; fat[i] tells whether cluster i is in use
\* and clusters lie behind one unit of boot sector and tables.
GetMaxOffset(fat) == 1 + Max({0} \cup {i \in DOMAIN fat : fat[i]})

\* PyFat refuses the boot sector, or the volume is as large as its sectors, unless the file
\* is shorter.
Fat ==
  /\ Parse("fat", "header")
  /\ \E bpb \in [BPB_TotSec16 : Fields, BPB_TotSec32 : Fields, ok : BOOLEAN],
        fat \in UNION {[1 .. n -> BOOLEAN] : n \in 0 .. MaxEntries} :
       LET sectors == Max({bpb.BPB_TotSec16, bpb.BPB_TotSec32})
       IN Sized(bpb.ok, IF scan.start + sectors > size THEN GetMaxOffset(fat) ELSE sectors)

iso9660_pvd_t == [volume_space_size : Fields, logical_block_size : {1, 2}]

\* The descriptor the pattern matches lies behind a system area of one unit.
Iso9660 ==
  /\ Parse("iso9660", "header")
  /\ \E header \in iso9660_pvd_t :
       LET start == scan.start - 1
           end == start + header.volume_space_size * header.logical_block_size
       IN Set(IF start < 0 THEN Nothing(scan)
              ELSE Found(scan, start, end))

ntfs_boot_t == [total_sectors : Fields, bytes_per_sector : {0, 1}]

\* The backup boot sector follows the sectors.
Ntfs ==
  /\ Parse("ntfs", "header")
  /\ \E header \in ntfs_boot_t :
       LET fsize == header.total_sectors * header.bytes_per_sector
       IN Sized(fsize # 0, 1 + fsize)

ubifs_sb_node_t == [leb_size : Fields, leb_cnt : Fields]

Ubifs ==
  /\ Parse("ubifs", "header")
  /\ \E header \in ubifs_sb_node_t : Sized(TRUE, header.leb_size * header.leb_cnt)

erofs_handler_t == [block_count : Fields, block_size_bs : {0, 1}, ok : BOOLEAN]

\* The superblock is one unit behind the start.
Erofs ==
  /\ Parse("erofs", "header")
  /\ \E header \in erofs_handler_t :
       Sized(scan.pos + 1 < size /\ header.ok /\ header.block_count >= 1,
             2 ^ header.block_size_bs * header.block_count)

minix_super_block ==
  [version : {1, 2, 3}, s_ninodes : {0, 1, 2}, s_imap_blocks : {0, 1}, s_nzones : Fields,
   s_zones : Fields, s_firstdatazone : {2, 3, 4, 5}, s_log_zone_size : {0, 1}, ok : BOOLEAN]

\* _get_zone_count
ZoneCount(header) == IF header.version = 1 THEN header.s_nzones ELSE header.s_zones

\* validate_header: s_zones, which version 1 does not have, goes before s_nzones; the first
\* data zone follows the boot block, the superblock, both maps and the inodes, one a block.
MinixValid(header, room) ==
  LET zones == IF header.s_zones # 0 THEN header.s_zones
               ELSE IF header.version = 3 THEN 0 ELSE header.s_nzones
      perZone == 2 ^ header.s_log_zone_size
      firstBlock == 2 + 2 * header.s_imap_blocks + header.s_ninodes
  IN /\ header.ok /\ header.s_ninodes >= 1 /\ header.s_imap_blocks >= 1
     /\ zones >= 1 /\ zones * perZone <= room
     /\ header.s_firstdatazone = RoundUp(firstBlock, perZone) \div perZone
     /\ ZoneCount(header) # 0

Minix ==
  /\ Parse("minixfs", "header")
  /\ \E header \in minix_super_block :
       Sized(scan.pos + 1 < size /\ MinixValid(header, size - scan.start),
             ZoneCount(header) * 2 ^ header.s_log_zone_size)

ufs_superblock_t ==
  [fs_size : Fields, fs_fsize : {0, 1}, fs_bsize : {0, 1, 2}, fs_frag : {1, 2}, ok : BOOLEAN]

\* is_valid_header and get_block_size of the three UFS handlers
Ufs ==
  /\ Parse("ufs", "header")
  /\ \E header \in ufs_superblock_t :
       Sized(/\ scan.pos + 1 < size /\ header.ok
             /\ header.fs_fsize > 0 /\ header.fs_bsize > 0 /\ header.fs_size > 0
             /\ header.fs_frag = header.fs_bsize \div header.fs_fsize,
             header.fs_size * header.fs_fsize)

------------------------------- \* SquashFS

squashfs_super_block_t == [bytes_used : Fields \ {0}]

squashfs3_super_block_t == [bytes_used : Fields \ {0}]

squashfs4_super_block_t == [bytes_used : Fields \ {0}]

PAD_SIZES == {4, 2}

\* The image is padded to the larger of the pad sizes whose padding is all there and zero;
\* zeros is how many zero units follow the data.
PaddedSize(used, zeros) ==
  LET fits == {pad \in PAD_SIZES : zeros >= RoundUp(used, pad) - used}
  IN IF fits = {} THEN used ELSE RoundUp(used, Max(fits))

\* seek to the end of the data; an offset of 32 bits, which no file of the model exceeds.
Squashfs ==
  /\ Parse("squashfs", "header")
  /\ \E header \in squashfs_super_block_t \cup squashfs3_super_block_t
                     \cup squashfs4_super_block_t :
       LET used == header.bytes_used
           data == scan.start + used
       IN IF data > size THEN Set(Raise(scan))
          ELSE \E zeros \in 0 .. size - data :
                 Set(FoundUpTo(scan, scan.start + PaddedSize(used, zeros)))

------------------------------- \* chains of nodes

jffs2_unknown_node_t == [totlen : Fields, ok : BOOLEAN]

BLOCK_ALIGNMENT == 2

\* Mutant: the length may be smaller than a header, zero included.
Jffs2Node_AnyLength ==
  /\ Parse("jffs2", "header")
  /\ \E node \in jffs2_unknown_node_t :
       LET next == scan.pos + RoundUp(node.totlen, BLOCK_ALIGNMENT)
       IN Set(IF ~node.ok \/ scan.pos + node.totlen > size THEN Nothing(scan)
              ELSE Seek(scan, next))

\* valid_header: type, CRC and a length between one header and what the file has left
Jffs2Node ==
  /\ Parse("jffs2", "header")
  /\ \E node \in jffs2_unknown_node_t :
       LET next == scan.pos + RoundUp(node.totlen, BLOCK_ALIGNMENT)
       IN Set(IF ~node.ok \/ scan.pos + node.totlen > size \/ node.totlen < 1 THEN Nothing(scan)
              ELSE Seek(scan, next))

\* 0x00 or 0xFF up to the next byte that is neither: read_until_past
Jffs2Padding ==
  /\ Parse("jffs2", "header")
  /\ scan.pos > scan.start
  /\ \E next \in scan.pos + 1 .. size : Set(Seek(scan, next))

\* No magic, or less than a header left: the file system ends here.
Jffs2End ==
  /\ Parse("jffs2", "header")
  /\ scan.pos > scan.start
  /\ Set(FoundUpTo(scan, scan.pos))

\* Mutant: the end of the last node is not compared with the end of the file.
Jffs2Eof_Unchecked ==
  /\ AtEof("jffs2", "header")
  /\ Set(FoundUpTo(scan, scan.pos))

\* The last node was rounded up to behind the end of the file: refused.
Jffs2Eof ==
  /\ AtEof("jffs2", "header")
  /\ Set(IF scan.pos > size THEN Raise(scan) ELSE FoundUpTo(scan, scan.pos))

\* _guess_peb_size: the most frequent distance of two erase block headers, found by
\* iterate_patterns at growing offsets; without a second header there is none.
UbiGuess ==
  /\ Parse("ubi", "header")
  /\ \/ Set(Raise(scan))
     \/ \E peb \in Fields \ {0} : Set(Go(Keep(scan, [peb |-> peb]), "walk"))

\* _walk_ubi: from header to header; a truncated last block is left out.
UbiWalk ==
  /\ At("ubi", "walk")
  /\ LET next == scan.pos + scan.hdr.peb
     IN \/ /\ Parses
           /\ Set(IF next > size THEN FoundUpTo(scan, scan.pos)
                  ELSE Seek(scan, next))
        \/ /\ scan.pos > scan.start
           /\ Set(FoundUpTo(scan, scan.pos))

sparse_header_t == [total_chunks : 0 .. MaxEntries]

chunk_header_t == [total_sz : Fields, ok : BOOLEAN]

SparseHeader ==
  /\ Parse("sparse", "header")
  /\ \E header \in sparse_header_t :
       Set(Go(Keep(Seek(scan, scan.pos + 1), header), "chunks"))

SparseChunk ==
  /\ Parse("sparse", "chunks")
  /\ Len(scan.toc) < scan.hdr.total_chunks
  /\ \E chunk \in chunk_header_t :
       LET next == scan.pos + chunk.total_sz
       IN Set(CASE ~chunk.ok -> Nothing(scan)
                [] chunk.ok /\ chunk.total_sz < 1 -> Raise(scan)
                [] OTHER -> AddEntry(Seek(scan, next), chunk))

\* A last chunk that reaches out of the file: SeekError
SparseEnd ==
  /\ At("sparse", "chunks")
  /\ Len(scan.toc) = scan.hdr.total_chunks \/ scan.pos >= size
  /\ Set(IF Len(scan.toc) < scan.hdr.total_chunks \/ scan.pos > size THEN Raise(scan)
         ELSE FoundUpTo(scan, scan.pos))

cmd_header_t == [cmd_type : {"END", "known", "unknown"}, data_len : Fields]

\* The stream header, then commands up to END, whose data is not skipped.
BtrfsHeader ==
  Parse("btrfs_stream", "header") /\ Set(Go(Seek(scan, scan.pos + 1), "commands"))

BtrfsCommand ==
  /\ Parse("btrfs_stream", "commands")
  /\ \E cmd \in cmd_header_t :
       LET next == scan.pos + 1 + cmd.data_len
       IN Set(CASE cmd.cmd_type = "END" -> FoundUpTo(scan, scan.pos + 1)
                [] cmd.cmd_type = "unknown" -> Raise(scan)
                [] cmd.cmd_type = "known" -> Seek(scan, next))

------------------------------- \* padding after the image

(***************************************************************************)
(* read_until_past returns the offset of the first byte that is no         *)
(* padding, but it has read that byte: a caller that takes the cursor      *)
(* instead of the result is one byte further, unless the file ends.        *)
(***************************************************************************)
PastPadding(end) == IF end = size THEN end ELSE end + 1

romfs_header == [full_size : Fields, ok : BOOLEAN]

\* Header and volume name, full_size from there, and zeros
Romfs ==
  /\ Parse("romfs", "header")
  /\ \E header \in romfs_header :
       LET image == scan.start + 2 + header.full_size
       IN IF ~header.ok \/ image > size THEN Set(Raise(scan))
          ELSE \E end \in image .. size :
                 Set(FoundUpTo(Reach(scan, end), PastPadding(end)))

\* instantiate_parser, auto_detect: version 1 has a tag of its own; for version 2 the page
\* and spare sizes are guessed, or refused.  Page and spare are one unit each.
YaffsDetect ==
  /\ Parse("yaffs", "header")
  /\ \/ Set(Raise(scan))
     \/ Set(Go(Keep(scan, [entries |-> 0]), "pages"))

\* parse: a page of data or an object header, and its spare
YaffsPage ==
  /\ At("yaffs", "pages")
  /\ scan.pos + 1 < size
  /\ \E header \in BOOLEAN :
       Set(Keep(Seek(scan, scan.pos + 2),
                [entries |-> IF header THEN 1 ELSE scan.hdr.entries]))

\* An object header that is none ends the image, but it has been read.
YaffsForeign ==
  /\ At("yaffs", "pages")
  /\ scan.pos + 1 < size
  /\ Set(Go(Seek(scan, scan.pos + 2), "padding"))

YaffsEof == At("yaffs", "pages") /\ scan.pos + 1 >= size /\ Set(Go(Seek(scan, size), "padding"))

YaffsEnd ==
  /\ At("yaffs", "padding")
  /\ IF scan.hdr.entries = 0 THEN Set(Raise(scan))
     ELSE \E end \in scan.pos .. size : Set(FoundUpTo(scan, PastPadding(end)))

------------------------------- \* cpio

old_cpio_header_t == [c_filesize : Fields, c_namesize : {0, 1, 2}]

old_ascii_header_t == [c_filesize : Fields, c_namesize : {0, 1, 2}]

new_ascii_header_t == [c_filesize : Fields, c_namesize : {0, 1, 2}]

\* _PAD_ALIGN of the parsers: 2, 1 and 4 bytes, the first standing for the last too
PadAlign(format) == IF format = "old_ascii" THEN 1 ELSE 2

\* _FILE_PAD_ALIGN
FILE_PAD_ALIGN == 4

\* The name must be terminated and decode, the mode be one of a file; name is NUL or longer.
CpioPlausible(header, entry) ==
  /\ header.c_namesize > 0
  /\ scan.pos + 1 + header.c_namesize <= size
  /\ entry.trailer \/ entry.ok

\* The entry with a wrong checksum is skipped over but not listed.
CpioEntry ==
  /\ Parse("cpio", "header")
  /\ \E format \in {"old_ascii", "new_ascii"},
        header \in old_cpio_header_t \cup old_ascii_header_t \cup new_ascii_header_t,
        entry \in [trailer : BOOLEAN, ok : BOOLEAN, crc : BOOLEAN] :
       LET align == PadAlign(format)
           content == scan.pos + RoundUp(1 + header.c_namesize, align)
           next == content + RoundUp(header.c_filesize, align)
           read == Seek(scan, next)
       IN /\ scan.hdr \in {<<>>, [format |-> format]}
          /\ Set(CASE ~CpioPlausible(header, entry) -> Raise(scan)
                   [] CpioPlausible(header, entry) /\ entry.trailer -> Go(read, "pad")
                   [] OTHER -> Keep(IF entry.crc
                                    THEN AddEntry(read, Span(content - scan.start,
                                                             header.c_filesize))
                                    ELSE AddEntry(read, <<>>), [format |-> format]))

\* Less than a header left: the archive ends without a trailer.
CpioEof ==
  /\ AtEof("cpio", "header")
  /\ Set(Go(scan, "pad"))

\* _pad_file: a block of zeros behind the trailer belongs to the archive; out of the file:
\* SeekError; nothing at all: refused
CpioPad ==
  /\ At("cpio", "pad")
  /\ LET padded == scan.start + RoundUp(scan.pos - scan.start, FILE_PAD_ALIGN)
     IN IF scan.pos > size THEN Set(Raise(scan))
        ELSE \E zeros \in 0 .. size - scan.pos :
               Set(FoundUpTo(scan, IF zeros >= padded - scan.pos THEN padded ELSE scan.pos))

\* dump_entries: the content of every listed entry
CpioExtract ==
  /\ Extract("cpio")
  /\ Set(Carves(scan, Entries(scan) \ {<<>>}))

------------------------------- \* ELF

elf_header_32_t ==
  [e_type : {"EXEC", "REL"}, e_shoff : Fields, e_shnum : {0, 1, 2}, e_phoff : Fields,
   e_phnum : {0, 1, 2}, ok : BOOLEAN]

elf_header_64_t == elf_header_32_t

elf_shdr_t == [sh_offset : Fields, sh_size : Fields, bits : BOOLEAN]

elf_phdr_t == [p_offset : Fields, p_filesz : Fields]

\* get_last_program_end starts with a seek, which fails out of the file.
ElfPrograms(s) ==
  LET table == s.start + s.hdr.e_phoff
  IN IF table > size THEN Raise(s)
     ELSE Go(Reach(Seek(s, table), table + s.hdr.e_phnum),
             IF s.hdr.e_phnum = 0 THEN "signature" ELSE "programs")

\* is_valid_header, the QNX marker (ok), and the seek to the sections
ElfHeader ==
  /\ Parse("elf", "header")
  /\ \E header \in elf_header_32_t \cup elf_header_64_t :
       LET table == scan.start + header.e_shoff
           s == Keep(Reach(Seek(scan, table), table + header.e_shnum), header)
       IN Set(CASE ~header.ok -> Nothing(scan)
                [] header.ok /\ table > size -> Raise(scan)
                [] OTHER -> IF header.e_shnum = 0 THEN ElfPrograms(s) ELSE Go(s, "sections"))

\* get_last_section_end; a section without bits in the file has no end
ElfSection ==
  /\ Parse("elf", "sections")
  /\ \E section \in elf_shdr_t :
       LET s == IF section.bits
                THEN AddEntry(Reach(scan, scan.start + section.sh_offset + section.sh_size),
                              section)
                ELSE scan
           next == scan.pos + 1
       IN Set(IF next = scan.start + scan.hdr.e_shoff + scan.hdr.e_shnum THEN ElfPrograms(s)
              ELSE Seek(s, next))

ElfProgram ==
  /\ Parse("elf", "programs")
  /\ \E program \in elf_phdr_t :
       LET s == Reach(Seek(scan, scan.pos + 1),
                        scan.start + program.p_offset + program.p_filesz)
       IN Set(IF s.pos = scan.start + scan.hdr.e_phoff + scan.hdr.e_phnum
              THEN Go(s, "signature") ELSE s)

module_signature_t == [sig_len : Fields]

\* get_signed_kernel_module_end_offset: only the first footer counts, and only if the
\* signature in front of it starts where the module ends.
ElfSignature ==
  /\ At("elf", "signature")
  /\ \/ scan.hdr.e_type # "REL" /\ Set(Go(scan, "upx"))
     \/ scan.hdr.e_type = "REL" /\ Set(IF scan.reach > size THEN Raise(scan) ELSE Go(scan, "upx"))
     \/ /\ scan.hdr.e_type = "REL"
        /\ \E signature \in module_signature_t :
             LET end == scan.reach + signature.sig_len + 2
             IN end <= size /\ Set(Go(Reach(scan, end), "upx"))

packhead_t == [c_filesize : Fields]

\* get_upx_end_offset: a valid packhead ends the chunk, wherever the sections end.
ElfUpx ==
  /\ At("elf", "upx")
  /\ \/ Set(FoundUpTo(scan, scan.reach))
     \/ \E packhead \in packhead_t :
          LET end == scan.start + packhead.c_filesize + 1
          IN end <= size /\ Set(FoundUpTo([scan EXCEPT !.reach = end], end))

\* extract_initramfs: the size is in the last unit of .init.data, the image before it, on a
\* boundary of two units; if the image was aligned twice it starts a unit earlier.
Initramfs(section, length) ==
  LET sizeOffset == section.sh_offset + section.sh_size - 1
      start == sizeOffset - RoundUp(length, 2)
      end == start + length
  IN IF section.sh_offset <= start /\ start < end /\ end <= sizeOffset + 1
     THEN {<<start, end>>} \cup (IF section.sh_offset <= start - 1 THEN {<<start - 1, end>>} ELSE {})
     ELSE {}

\* ElfChunk.extract: a kernel's initramfs, whose size field must be there to be read, an
\* unpacked program, or the file itself
ElfExtract ==
  /\ Extract("elf")
  /\ \/ Set(Carves(scan, {}))
     \/ \E section \in Entries(scan), length \in Fields :
          \E image \in Initramfs(section, length) :
            /\ section.sh_offset + section.sh_size <= scan.to - scan.start
            /\ Set(Carves(scan, {image}))

-----------------------------------------------------------------------------
FilesystemNames ==
  {"cramfs", "extfs", "fat", "iso9660", "ntfs", "ubifs", "erofs", "minixfs", "ufs", "squashfs",
   "jffs2", "ubi", "sparse", "btrfs_stream", "romfs", "yaffs", "cpio", "elf"}

FilesystemEof ==
  {<<"jffs2", "header">>, <<"ubi", "walk">>, <<"sparse", "chunks">>, <<"yaffs", "pages">>,
   <<"yaffs", "padding">>, <<"cpio", "header">>, <<"cpio", "pad">>, <<"elf", "signature">>,
   <<"elf", "upx">>}

FilesystemNext ==
  \/ Cramfs \/ ExtFS \/ Fat \/ Iso9660 \/ Ntfs \/ Ubifs \/ Erofs \/ Minix \/ Ufs \/ Squashfs
  \/ Jffs2Node \/ Jffs2Padding \/ Jffs2End \/ Jffs2Eof \/ UbiGuess \/ UbiWalk
  \/ SparseHeader \/ SparseChunk \/ SparseEnd \/ BtrfsHeader \/ BtrfsCommand \/ Romfs
  \/ YaffsDetect \/ YaffsPage \/ YaffsForeign \/ YaffsEof \/ YaffsEnd
  \/ CpioEntry \/ CpioEof \/ CpioPad \/ CpioExtract
  \/ ElfHeader \/ ElfSection \/ ElfProgram \/ ElfSignature \/ ElfUpx \/ ElfExtract
=============================================================================
