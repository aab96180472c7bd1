----------------------------- MODULE Extractors -----------------------------
(***************************************************************************)
(* One run of any of the modelled Python extractors on a fresh output      *)
(* directory: the callers of FileSystem, btrfs and cpio (Extraction),      *)
(* minixfs, ufs and romfs (InodeWalk) and yaffs (Yaffs).                   *)
(***************************************************************************)
EXTENDS InodeWalk, Yaffs

CONSTANTS Disks,                  \* the minix and ufs disks, any contents
          Roms,                   \* the romfs images, any contents
          Jobs                    \* the kinds of job there are

Dirents == [name : Names, ino : Nat, reclen : Nat]
Tables  == Seq(Nat) \X Seq(Seq(Nat)) \X Seq(Seq(Seq(Nat)))
Inodes  == [type : STRING, entries : Seq(Dirents), direct : Seq(Nat),
            indirect : Tables, size : Nat, to : Pathnames]
Headers == [type : STRING, name : Names, next : Nat, spec : Nat, to : Pathnames,
            intact : BOOLEAN]

ASSUME DisksAssumption ==
  \A d \in Disks : RootIno \in DOMAIN d /\ \A i \in DOMAIN d : d[i] \in Inodes
ASSUME RomsAssumption == \A d \in Roms : \A i \in DOMAIN d : d[i] \in Headers

AllJobs == {ClientJob, StreamJob, CpioJob}
           \cup {WalkJob(k, d) : k \in {"minixfs", "ufs"}, d \in Disks}
           \cup {RomfsJob(d) : d \in Roms}
           \cup {YaffsJob(v) : v \in {1, 2}}

Init == fs = EmptyFS /\ job \in {j \in AllJobs : j.kind \in Jobs}
Next == ExtractionNext \/ WalkNext \/ YaffsNext
Spec == Init /\ [][Next]_vars /\ WF_vars(WalkNext)
=============================================================================
