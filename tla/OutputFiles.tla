---------------------------- MODULE OutputFiles ----------------------------
(***************************************************************************)
(* The files of one prefix in output_dir_, as a sequence ordered by        *)
(* modification time, least recently written first, and cleanup_files'     *)
(* rotation of them.  A file is identified with the pid of the tool that   *)
(* writes it.  No two files are last written in the same second, st_mtime's *)
(* resolution (cleanup_files would order them by name).                    *)
(***************************************************************************)
EXTENDS Integers, Sequences, SequencesExt

Created(files, p) == Append(files, p)

\* A write makes the file the most recent one; an unlinked file stays away.
Position(files, p) == CHOOSE i \in DOMAIN files : files[i] = p
Written(files, p) ==
    IF p \in ToSet(files) THEN Append(RemoveAt(files, Position(files, p)), p) ELSE files

\* The last n of files.
Newest(files, n) ==
    IF Len(files) <= n THEN files ELSE SubSeq(files, Len(files) - n + 1, Len(files))

\* Mutants of Rotated: one file too many, or too few, is unlinked.
RotatedOver(files, limit) == Newest(files, limit - 1)
RotatedUnder(files, limit) == Newest(files, limit + 1)

\* cleanup_files: unlink the oldest files until limit are left.  A limit of zero
\* or less turns rotation off.
Rotated(files, limit) == IF limit <= 0 THEN files ELSE Newest(files, limit)
=============================================================================
