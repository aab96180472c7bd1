-------------------------- MODULE ArchiveHandlers ---------------------------
(***************************************************************************)
(* calculate_chunk of handlers/archive/*.py, one action per step of the    *)
(* code that reads a header.                                               *)
(***************************************************************************)
EXTENDS Reader

------------------------------- \* ar, arc, arj

\* A member header takes two units here, so that a file can end in the middle of one.
ArHeader == 2

\* The pattern covers the signature and the first header.
ArPattern == 1 + ArHeader

\* arpy reads the signature, then header after header until the file ends ...
ArSignature ==
  /\ Parse("ar", "header")
  /\ Set(Go(Reach(Seek(scan, scan.pos + 1), scan.pos + 1), "members"))

ArMember ==
  /\ At("ar", "members")
  /\ scan.pos + ArHeader <= size
  /\ \E length \in Fields :
       LET next == scan.pos + ArHeader + length
       IN Set(Reach(Seek(scan, next), next))

\* (a member that reaches out of the file: SeekError)
ArEndOfFile ==
  /\ AtEof("ar", "members")
  /\ Set(IF scan.pos > size THEN Raise(scan) ELSE FoundUpTo(scan, scan.pos))

\* Mutant: back by the header and the signature only.
ArForeign_Back ==
  /\ Parse("ar", "members")
  /\ LET back == Min({scan.pos + ArHeader, size}) - ArPattern
     IN Set(CASE back < 0 -> Raise(scan)
              [] back >= 0 /\ back = scan.start -> Nothing(scan)
              [] OTHER -> FoundUpTo(scan, back))

\* ... or until something that is no header, or too short for one.  From behind what was
\* read, back by a signature and a whole header, which is the start if there was no member
\* at all, and forward by a signature: after a short read this is inside the last member.
ArForeign ==
  /\ Parse("ar", "members")
  /\ LET back == Min({scan.pos + ArHeader, size}) - ArPattern
     IN Set(CASE back < 0 -> Raise(scan)
              [] back >= 0 /\ back = scan.start -> Nothing(scan)
              [] OTHER -> FoundUpTo(scan, back + 1))

arc_head_t == [file_size : Fields, ok : BOOLEAN]

\* valid_header: marker, type and name
ArcEntry ==
  /\ Parse("arc", "header")
  /\ \E header \in arc_head_t :
       LET next == scan.pos + 1 + header.file_size
       IN Set(IF header.ok THEN Seek(scan, next) ELSE Nothing(scan))

ArcEnd == Parse("arc", "header") /\ Set(FoundUpTo(scan, scan.pos + 1))

arj_header_t ==
  [header_size : {0, 1}, first_hdr_size : Fields, compressed_size : Fields,
   extended_header_size : {0, 1}, ok : BOOLEAN]

\* _read_headers: metadata and an extended header, which must be empty, two units.
ArjHeaders(s, from) == Seek(s, from + 2)

\* _read_arj_main_header: sizes, checksum, no extended header
ArjMain ==
  /\ Parse("arj", "header")
  /\ \E main \in arj_header_t :
       /\ main.compressed_size = 0
       /\ Set(IF main.header_size = 0 \/ main.header_size < main.first_hdr_size \/ ~main.ok
                 \/ main.extended_header_size # 0
              THEN Nothing(scan)
              ELSE Go(ArjHeaders(scan, scan.pos + 1 + main.first_hdr_size), "files"))

\* _read_arj_files
ArjFile ==
  /\ Parse("arj", "files")
  /\ \E file \in arj_header_t :
       LET headers == ArjHeaders(scan, scan.pos + 1 + file.first_hdr_size)
           next == headers.pos + file.compressed_size
       IN Set(CASE file.header_size = 0 -> FoundUpTo(scan, scan.pos + 1)
                [] file.header_size # 0 /\ file.extended_header_size # 0 -> Nothing(scan)
                [] OTHER -> Seek(headers, next))

------------------------------- \* the length is in the header

cab_header_t == [cbCabinet : Fields]

Cab ==
  /\ Parse("cab", "header")
  /\ \E header \in cab_header_t :
       Set(IF header.cbCabinet < 1 THEN Nothing(scan)
           ELSE FoundUpTo(scan, scan.start + header.cbCabinet))

\* rarfile parses the blocks and leaves the cursor behind the last one.
Rar ==
  /\ Parse("rar", "header")
  /\ \/ Set(Nothing(scan))
     \/ \E end \in scan.pos + 1 .. size : Set(FoundUpTo(scan, end))

sevenzip_header_t == [next_header_offset : Fields, next_header_size : Fields, ok : BOOLEAN]

\* check_header_crc, calculate_sevenzip_size
SevenZip ==
  /\ Parse("sevenzip", "header")
  /\ \E header \in sevenzip_header_t :
       Set(IF ~header.ok THEN Raise(scan)
           ELSE FoundUpTo(scan, scan.start + 1 + header.next_header_offset
                                           + header.next_header_size))

sit_header_t == [archive_length : Fields]

StuffIt ==
  /\ Parse("stuffit", "header")
  /\ \E header \in sit_header_t : Set(FoundUpTo(scan, scan.start + header.archive_length))

dmg_header_t == [DataForkLength : Fields, XMLLength : Fields]

\* Mutant: the chunk ends in front of the trailer the pattern matches.
Dmg_WithoutTrailer ==
  /\ Parse("dmg", "header")
  /\ \E header \in dmg_header_t :
       Set(Found(scan, scan.start - header.XMLLength - header.DataForkLength, scan.start))

\* The pattern is at the trailer: the chunk lies before the offset the finder gave.
Dmg ==
  /\ Parse("dmg", "header")
  /\ \E header \in dmg_header_t :
       Set(Found(scan, scan.start - header.XMLLength - header.DataForkLength, scan.start + 1))

partclone_header_t ==
  [checksum_size : {0, 1}, checksum_mode : {0, 1}, blocks_per_checksum : {1, 2},
   fs_total_block_count : {0, 8, 9}, fs_used_block_count_bitmap : Fields, fs_block_size : {1},
   ok : BOOLEAN]

\* Header, checksum, bitmap of one bit per block, checksums and data
Partclone ==
  /\ Parse("partclone", "header")
  /\ \E header \in partclone_header_t :
       LET used == header.fs_used_block_count_bitmap
           checksums == IF header.checksum_mode = 0 THEN 0
                        ELSE RoundUp(used, header.blocks_per_checksum)
                               \div header.blocks_per_checksum
       IN Set(IF ~header.ok THEN Raise(scan)
              ELSE FoundUpTo(scan, scan.start + 1 + header.checksum_size
                                     + RoundUp(header.fs_total_block_count, 8) \div 8
                                     + checksums * header.checksum_size
                                     + used * header.fs_block_size))

------------------------------- \* several files

par2_header_t == [ok : BOOLEAN]

\* MultiVolumePAR2Handler: every volume has a valid header, and there are at least two.
Par2 ==
  /\ At("multi-par2", "header")
  /\ \E volumes \in UNION {[1 .. n -> par2_header_t] : n \in 1 .. MaxEntries} :
       Set(IF Len(volumes) <= 1 \/ \E i \in DOMAIN volumes : ~volumes[i].ok THEN Nothing(scan)
           ELSE End([scan EXCEPT !.toc = volumes], "multifile"))

\* MultiVolumeSevenZipHandler: the volumes together are as long as the header says.
MultiSevenZip ==
  /\ At("multi-sevenzip", "header")
  /\ \E volumes \in UNION {[1 .. n -> Fields] : n \in 0 .. MaxEntries},
        header \in sevenzip_header_t, magic \in BOOLEAN :
       LET total == MapThenSumSet(LAMBDA i : volumes[i], DOMAIN volumes)
           length == 1 + header.next_header_offset + header.next_header_size
       IN Set(IF Len(volumes) = 0 \/ ~magic \/ (header.ok /\ total # length) THEN Nothing(scan)
              ELSE IF ~header.ok THEN Raise(scan)
              ELSE End([Keep(scan, header) EXCEPT !.toc = volumes], "multifile"))

------------------------------- \* tar

posix_header_t == [file_size : Fields, ok : BOOLEAN]

\* The size and the checksum of the first header, signed or unsigned, before the walk
TarHeader ==
  /\ Parse("tar", "header")
  /\ \E header \in posix_header_t :
       Set(IF header.ok THEN Go(scan, "entries") ELSE Nothing(scan))

\* _get_end_of_last_tar_entry: tarfile reads member after member; tf.offset is behind the last.
TarEntry ==
  /\ At("tar", "entries") /\ Parses
  /\ \E header \in posix_header_t :
       /\ header.ok
       /\ LET next == scan.pos + 1 + header.file_size
          IN Set(Seek(AddEntry(scan, scan.pos), next))

\* The walk ends at a block that is no header (all zero, damaged, or beyond the file).  A
\* last member that reaches out of the file is given up: the chunk ends at its header.
TarEntriesEnd ==
  /\ At("tar", "entries")
  /\ LET last == scan.toc[Len(scan.toc)]
     IN Set(CASE scan.toc = <<>> -> Nothing(scan)
              [] scan.toc # <<>> /\ scan.pos > size ->
                   FoundUpTo(scan, last)
              [] OTHER -> Go(scan, "padding"))

\* _find_end_of_padding: zero blocks up to the end of the record, two blocks at least
TarRecord == 4
TarPadding ==
  /\ At("tar", "padding")
  /\ LET to == RoundUp(scan.pos - scan.start + 2, TarRecord) + scan.start
     IN \E end \in scan.pos .. Min({to, size}) : Set(FoundUpTo(scan, end))

------------------------------- \* zip

end_of_central_directory_t ==
  [offset_of_cd : Fields, central_directory_size : Fields, total_entries : {0, 1},
   zip64 : {"no", "marked", "tagged"}]

\* One end-of-central-directory signature: it counts if a ZIP64 record belongs to it (the
\* locator lies right before it) or if it lies where the directory it describes ends.
ZipEocd ==
  /\ Parse("zip", "header")
  /\ \E offset \in scan.pos .. size - 1, header \in end_of_central_directory_t,
        locator \in BOOLEAN, signature \in BOOLEAN :
       LET cd == scan.start + header.offset_of_cd
           zip64 == /\ locator
                    /\ \/ header.zip64 = "marked"
                       \/ header.zip64 = "tagged" /\ 0 < cd /\ cd < offset
           ours == zip64 \/ offset = cd + header.central_directory_size
       IN Set(CASE zip64 /\ ~signature -> Raise(scan)
                [] ~(zip64 /\ ~signature) /\ ~ours -> Seek(scan, offset + 1)
                [] ours /\ ~(zip64 /\ ~signature) /\ cd > size -> Raise(scan)
                [] OTHER -> [Go(Seek(Keep(scan, header), cd), "directory")
                             EXCEPT !.reach = offset + 1])

\* No further signature
ZipNoEocd == Parse("zip", "header") /\ Set(Raise(scan))

\* has_encrypted_files: total_entries directory headers, of any name length
ZipDirectory ==
  /\ At("zip", "directory")
  /\ \E length \in Fields :
       Set(IF Len(scan.toc) = scan.hdr.total_entries
           THEN FoundUpTo(scan, scan.reach)
           ELSE IF ~Parses THEN Raise(scan)
           ELSE AddEntry(Seek(scan, scan.pos + 1 + length), length))

------------------------------- \* msi

Free == -1
EndOfChain == -2
SectorEntries == 2

cfbf_header_t ==
  [csectFat : {0, 1, 2}, csectDif : {0, 1, 2}, sectFat : Fields \cup {Free},
   sectDifStart : {Free, EndOfChain, 0}, ok : BOOLEAN]

\* _read_sector: sector i lies behind the header, which takes the room of a sector.
Sector(i) == scan.start + 1 + i
SectorReads(i) == i >= 0 /\ Sector(i) < size

\* The header names the first FAT sector; _collect_fat_sectors stops when it has csectFat.
MsiHeader ==
  /\ Parse("msi", "header")
  /\ \E header \in cfbf_header_t :
       LET first == IF header.sectFat = Free THEN <<>> ELSE <<header.sectFat>>
           s == [Keep(scan, header) EXCEPT !.toc = first]
       IN Set(IF ~header.ok \/ header.csectFat = 0 THEN Raise(scan)
              ELSE Go(Seek(s, header.sectDifStart), "difat"))

\* _extend_fat_from_difat: at most csectDif sectors, each with a FAT sector and the next DIFAT
MsiDifat ==
  /\ At("msi", "difat")
  /\ scan.hdr.csectDif > 0 /\ Len(scan.toc) < scan.hdr.csectFat
  /\ scan.pos \notin {Free, EndOfChain}
  /\ \E entry \in Fields \cup {Free}, next \in {Free, EndOfChain, 0, 1} :
       Set(IF ~SectorReads(scan.pos) THEN Raise(scan)
           ELSE [Seek(IF entry = Free THEN scan ELSE AddEntry(scan, entry), next)
                 EXCEPT !.hdr.csectDif = @ - 1])

MsiDifatEnd ==
  /\ At("msi", "difat")
  /\ \/ scan.hdr.csectDif = 0
     \/ Len(scan.toc) >= scan.hdr.csectFat
     \/ scan.pos \in {Free, EndOfChain}
  /\ Set(IF Len(scan.toc) # scan.hdr.csectFat THEN Raise(scan)
         ELSE Go(Seek(Keep(scan, [index |-> 0, used |-> 0]), 0), "fat"))

\* One FAT sector: its last entry that is not free is the highest sector in use.
MsiFat ==
  /\ At("msi", "fat")
  /\ scan.hdr.index < Len(scan.toc)
  /\ \E last \in -1 .. SectorEntries - 1 :
       LET id == scan.hdr.index * SectorEntries + last
           used == IF last = -1 THEN scan.hdr.used ELSE Max({scan.hdr.used, id})
       IN Set(IF ~SectorReads(scan.toc[scan.hdr.index + 1]) THEN Raise(scan)
              ELSE Keep(scan, [index |-> scan.hdr.index + 1, used |-> used]))

MsiEnd ==
  /\ At("msi", "fat")
  /\ scan.hdr.index = Len(scan.toc)
  /\ Set(FoundUpTo(scan, scan.start + 1 + scan.hdr.used + 1))

-----------------------------------------------------------------------------
ArchiveNames ==
  {"ar", "arc", "arj", "cab", "rar", "sevenzip", "stuffit", "dmg", "partclone", "multi-par2",
   "multi-sevenzip", "tar", "zip", "msi"}

\* Where the code looks for the end of the file itself, or reads at another offset
ArchiveEof ==
  {<<"ar", "members">>, <<"multi-par2", "header">>, <<"multi-sevenzip", "header">>,
   <<"tar", "entries">>, <<"tar", "padding">>, <<"zip", "directory">>,
   <<"msi", "difat">>, <<"msi", "fat">>}

ArchiveNext ==
  \/ ArSignature \/ ArMember \/ ArEndOfFile \/ ArForeign \/ ArcEntry \/ ArcEnd
  \/ ArjMain \/ ArjFile \/ Cab \/ Rar \/ SevenZip \/ StuffIt \/ Dmg \/ Partclone
  \/ Par2 \/ MultiSevenZip
  \/ TarHeader \/ TarEntry \/ TarEntriesEnd \/ TarPadding
  \/ ZipEocd \/ ZipNoEocd \/ ZipDirectory
  \/ MsiHeader \/ MsiDifat \/ MsiDifatEnd \/ MsiFat \/ MsiEnd
=============================================================================
