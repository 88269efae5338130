-------------------------------- MODULE Pcap --------------------------------
(***************************************************************************)
(* Packet capture (src/lazybsd_pcap.c): the packets of a process are       *)
(* written, cut to the configured length, to files used in turn, of which  *)
(* the oldest is overwritten.  A packet is the sequence of the lengths of  *)
(* its segments, its bytes are numbered from 1.  What fwrite answers is    *)
(* ignored by the code, and here it writes all it is given.                *)
(***************************************************************************)
EXTENDS Integers, Sequences, SequencesExt, FiniteSetsExt, Functions

CONSTANTS
    SnapLen,        \* pcap.snap_len
    SaveLen,        \* pcap.save_len
    NbFiles,        \* PCAP_FILE_NUM
    FileHdr,        \* sizeof(struct pcap_file_header)
    PktHdr,         \* sizeof(struct pcap_pkthdr)
    Frames,         \* the packets
    MaxFrames       \* bound on the packets captured

ASSUME PcapAssumption ==
    /\ {SnapLen, SaveLen, NbFiles, FileHdr, PktHdr, MaxFrames} \subseteq Nat \ {0}
    /\ SaveLen > FileHdr /\ Frames \subseteq Seq(Nat)

VARIABLES
    capture,    \* g_pcap_fp ("none", "open", or "exit": the program has ended), seq, g_flen
    files,      \* the files on disk, << >> if there is none
    captured    \* the packets captured so far

pcapVars == <<capture, files, captured>>

TotalLen(lens) == SumFunction(lens)

Opened_LengthKept(st, snap) ==
    [capture |-> [st.capture EXCEPT !.fp = "open", !.flen = @ + FileHdr],
     files |-> [st.files EXCEPT ![st.capture.seq] = << [snaplen |-> snap, records |-> << >>] >>]]

(* fopen with "w+", which empties a file of an earlier turn, and the header *)
(* of the file.                                                             *)
Opened(st, snap) ==
    [capture |-> [st.capture EXCEPT !.fp = "open", !.flen = FileHdr],
     files |-> [st.files EXCEPT ![st.capture.seq] = << [snaplen |-> snap, records |-> << >>] >>]]

(* The program ends when the file cannot be opened. *)
OpenFailed(st) == [st EXCEPT !.capture.fp = "exit"]

Now == [capture |-> capture, files |-> files]

Becomes(st) == capture' = st.capture /\ files' = st.files

(* Called by init_lcore_conf for each port of the lcore, always for file 0. *)
lazybsd_enable_pcap(ok) ==
    /\ capture.fp # "exit" /\ captured = 0
    /\ Becomes(IF ok THEN Opened(Now, SnapLen) ELSE OpenFailed(Now))
    /\ UNCHANGED captured

-----------------------------------------------------------------------------
Piece_Uncut(out, snap, len) == Min({snap, len})

(* What is written of a segment, when out bytes of the packet were. *)
Piece(out, snap, len) == Min({snap - out, len})

(* One turn of the loop: the bytes written of the packet, base being where  *)
(* the segment begins.                                                      *)
Segment(s, snap, len) ==
    [bytes |-> s.bytes \o [k \in 1 .. Piece(Len(s.bytes), snap, len) |-> s.base + k], base |-> s.base + len]

(* The bytes that are written of a packet, segment by segment. *)
Dumped(segs, snap) ==
    LET turn[k \in 0 .. Len(segs)] ==
            IF k = 0 THEN [bytes |-> << >>, base |-> 0] ELSE Segment(turn[k - 1], snap, segs[k])
    IN  turn[Len(segs)].bytes

(* A record at the end of a file. *)
Recorded(file, rec) == << [file[1] EXCEPT !.records = Append(@, rec)] >>

NextSeq(seq) == IF seq + 1 >= NbFiles THEN 0 ELSE seq + 1

(* A record; and when the file has its length, the next file, with the      *)
(* length of this record for its snaplen.                                   *)
lazybsd_dump_packets(segs, ok) ==
    LET snap  == Min({TotalLen(segs), SnapLen})
        bytes == Dumped(segs, snap)
        rec   == [no |-> captured + 1, caplen |-> snap, len |-> TotalLen(segs), bytes |-> bytes]
        wrote == [capture |-> [capture EXCEPT !.flen = @ + PktHdr + Len(bytes)],
                  files |-> [files EXCEPT ![capture.seq] = Recorded(@, rec)]]
        moved == [wrote EXCEPT !.capture.seq = NextSeq(@)]
    IN  /\ capture.fp = "open" /\ captured < MaxFrames
        /\ captured' = captured + 1
        /\ IF wrote.capture.flen < SaveLen THEN ok /\ Becomes(wrote)
           ELSE Becomes(IF ok THEN Opened(moved, snap) ELSE OpenFailed(moved))

-----------------------------------------------------------------------------
PcapInit ==
    /\ capture = [fp |-> "none", seq |-> 0, flen |-> 0]
    /\ files = [i \in 0 .. NbFiles - 1 |-> << >>]
    /\ captured = 0

PcapNext ==
    \E ok \in BOOLEAN :
        \/ lazybsd_enable_pcap(ok)
        \/ \E segs \in Frames : lazybsd_dump_packets(segs, ok)

PcapSpec == PcapInit /\ [][PcapNext]_pcapVars

-----------------------------------------------------------------------------
FileLength(records) == FileHdr + TotalLen([i \in 1 .. Len(records) |-> PktHdr + Len(records[i].bytes)])

(* The records on disk from the oldest file to the one that is written. *)
OnDisk ==
    FlattenSeq([i \in 1 .. NbFiles |->
        LET f == files[(capture.seq + i) % NbFiles] IN IF f = << >> THEN << >> ELSE f[1].records])

(* A reader finds every record where the one before it says: as many bytes  *)
(* follow a record's header as it announces, and they are the first of the  *)
(* packet, also when the packet is cut inside a segment or at its end.  The *)
(* files used in turn hold consecutive packets up to the last; a file is    *)
(* left with the record that gave it its length, and the length the code    *)
(* keeps is that of the file (lazybsd_dump_packets).  The snaplen in the    *)
(* header of a file is left out: a file after the first gets the length of  *)
(* the record before it.                                                    *)
CapturesReadable ==
    capture.fp = "open" =>
        /\ \A i \in 1 .. Len(OnDisk) :
               /\ OnDisk[i].bytes = [k \in 1 .. OnDisk[i].caplen |-> k]
               /\ OnDisk[i].caplen = Min({OnDisk[i].len, SnapLen})
               /\ OnDisk[i].no = captured - Len(OnDisk) + i
        /\ capture.flen = FileLength(files[capture.seq][1].records) /\ capture.flen < SaveLen
        /\ \A s \in DOMAIN files \ {capture.seq} :
               files[s] # << >> =>
                   /\ FileLength(files[s][1].records) >= SaveLen
                   /\ FileLength(Front(files[s][1].records)) < SaveLen
=============================================================================
