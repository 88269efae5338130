---------------------------- MODULE LinuxCompat ----------------------------
(***************************************************************************)
(* What bsd/lib/lazybsd_socket.c and src/lazybsd_errno.c translate between *)
(* a Linux application and the FreeBSD stack: requests, options, error     *)
(* numbers, addresses and control messages.                                *)
(*                                                                         *)
(* Requests and options of the kernel are named, or numbered where the     *)
(* code returns a number unchanged.  Memory is modelled where the two      *)
(* sides lay the same bytes out differently and a conversion works in      *)
(* place: an address is its first two bytes and its data, a buffer of      *)
(* control messages a function from word offsets (4 bytes) to words.       *)
(***************************************************************************)
EXTENDS Integers, Sequences, SequencesExt

-----------------------------------------------------------------------------
(* ioctl requests: Linux number to FreeBSD request.                        *)

(* A switch: the answer of each case. *)
Switch(cases) == [n \in {c[1] : c \in cases} |-> (CHOOSE c \in cases : c[1] = n)[2]]

IoctlCases ==
    {<< 21516, "TIOCEXCL" >>, << 21517, "TIOCNXCL" >>, << 21518, "TIOCSCTTY" >>,
     << 21519, "TIOCGPGRP" >>, << 21520, "TIOCSPGRP" >>, << 21521, "TIOCOUTQ" >>,
     << 21522, "TIOCSTI" >>, << 21523, "TIOCGWINSZ" >>, << 21524, "TIOCSWINSZ" >>,
     << 21525, "TIOCMGET" >>, << 21526, "TIOCMBIS" >>, << 21527, "TIOCMBIC" >>,
     << 21528, "TIOCMSET" >>, << 21531, "FIONREAD" >>, << 21533, "TIOCCONS" >>,
     << 21536, "TIOCPKT" >>, << 21537, "FIONBIO" >>, << 21538, "TIOCNOTTY" >>,
     << 21539, "TIOCSETD" >>, << 21540, "TIOCGETD" >>, << 21543, "TIOCSBRK" >>,
     << 21544, "TIOCCBRK" >>, << 21545, "TIOCGSID" >>, << 21584, "FIONCLEX" >>,
     << 21585, "FIOCLEX" >>, << 21586, "FIOASYNC" >>, << 0, "TIOCPKT_DATA" >>,
     << 1, "TIOCPKT_FLUSHREAD" >>, << 2, "TIOCPKT_FLUSHWRITE" >>, << 4, "TIOCPKT_STOP" >>,
     << 8, "TIOCPKT_START" >>, << 16, "TIOCPKT_NOSTOP" >>, << 32, "TIOCPKT_DOSTOP" >>,
     << 64, "TIOCPKT_IOCTL" >>, << 35090, "SIOCGIFCONF" >>, << 35091, "SIOCGIFFLAGS" >>,
     << 35092, "SIOCSIFFLAGS" >>, << 35093, "SIOCGIFADDR" >>, << 35094, "SIOCSIFADDR" >>,
     << 35095, "SIOCGIFDSTADDR" >>, << 35096, "SIOCSIFDSTADDR" >>,
     << 35097, "SIOCGIFBRDADDR" >>, << 35098, "SIOCSIFBRDADDR" >>,
     << 35099, "SIOCGIFNETMASK" >>, << 35100, "SIOCSIFNETMASK" >>,
     << 35101, "SIOCGIFMETRIC" >>, << 35102, "SIOCSIFMETRIC" >>,
     << 35105, "SIOCGIFMTU" >>, << 35106, "SIOCSIFMTU" >>, << 35107, "SIOCSIFNAME" >>,
     << 35121, "SIOCADDMULTI" >>, << 35122, "SIOCDELMULTI" >>,
     << 35123, "SIOCGIFINDEX" >>, << 35126, "SIOCDIFADDR" >>}

IoctlTable == Switch(IoctlCases)

(* The -1 of linux2freebsd_ioctl. *)
NoRequest == "none"

linux2freebsd_ioctl(request) ==
    IF request \in DOMAIN IoctlTable THEN IoctlTable[request] ELSE NoRequest

-----------------------------------------------------------------------------
(* Socket options: Linux level and number to FreeBSD option.               *)

SOL_SOCKET   == 65535
IPPROTO_IP   == 0
IPPROTO_TCP  == 6
IPPROTO_IPV6 == 41
LINUX_SOL_SOCKET == 1

SoCases ==
    {<< 1, 1 >>, << 2, 4 >>, << 4, 4103 >>, << 5, 16 >>, << 6, 32 >>, << 7, 4097 >>,
     << 8, 4098 >>, << 9, 8 >>, << 10, 256 >>, << 13, 128 >>, << 15, 512 >>,
     << 18, 4100 >>, << 19, 4099 >>, << 20, 4102 >>, << 21, 4101 >>, << 30, 2 >>,
     << 38, 4118 >>}

SoTable == Switch(SoCases)

IpCases ==
    {<< 1, 3 >>, << 2, 4 >>, << 3, 2 >>, << 4, 1 >>, << 32, 9 >>, << 33, 10 >>,
     << 34, 11 >>, << 35, 12 >>, << 36, 13 >>, << 12, 65 >>, << 13, 68 >>, << 19, 24 >>,
     << 21, 66 >>}

IpTable == Switch(IpCases)

Ip6Cases ==
    {<< 26, 27 >>, << 49, 36 >>, << 75, 64 >>}

Ip6Table == Switch(Ip6Cases)

TcpCases ==
    {<< 1, 1 >>, << 2, 2 >>, << 4, 256 >>, << 5, 512 >>, << 6, 1024 >>, << 11, 32 >>,
     << 14, 16 >>}

TcpTable == Switch(TcpCases)

(* Mutant of so_opt_convert: the two time-outs share a case. *)
so_opt_convert_Merged(optname) ==
    IF optname \in {20, 21} THEN SoTable[20]
    ELSE IF optname \in DOMAIN SoTable THEN SoTable[optname] ELSE -1

so_opt_convert(optname)  == IF optname \in DOMAIN SoTable THEN SoTable[optname] ELSE -1
ip_opt_convert(optname)  == IF optname \in DOMAIN IpTable THEN IpTable[optname] ELSE optname
ip6_opt_convert(optname) == IF optname \in DOMAIN Ip6Table THEN Ip6Table[optname] ELSE optname
tcp_opt_convert(optname) == IF optname \in DOMAIN TcpTable THEN TcpTable[optname] ELSE -1

linux2freebsd_opt(level, optname) ==
    CASE level = SOL_SOCKET   -> so_opt_convert(optname)
      [] level = IPPROTO_IP   -> ip_opt_convert(optname)
      [] level = IPPROTO_IPV6 -> ip6_opt_convert(optname)
      [] level = IPPROTO_TCP  -> tcp_opt_convert(optname)
      [] OTHER                -> -1

(* The options the tables name, as the application names them. *)
NamedOptions ==
         ({LINUX_SOL_SOCKET} \X DOMAIN SoTable) \cup ({IPPROTO_IP} \X DOMAIN IpTable)
    \cup ({IPPROTO_IPV6} \X DOMAIN Ip6Table) \cup ({IPPROTO_TCP} \X DOMAIN TcpTable)

-----------------------------------------------------------------------------
(* Errors: the kernel's number to Linux's, 0 for those without a case.     *)

ErrnoTable ==
    << 1, 2, 3, 4, 5, 6, 7, 8, 9, 10, 35, 12, 13, 14, 15, 16, 17, 18, 19, 20, 21, 22, 23, 24,
       25, 26, 27, 28, 29, 30, 31, 32, 33, 34, 11, 115, 114, 88, 89, 90, 91, 92, 93, 94, 95,
       96, 97, 98, 99, 100, 101, 102, 103, 104, 105, 106, 107, 108, 109, 110, 111, 40, 36,
       112, 113, 39, 0, 87, 122, 116, 66, 0, 0, 0, 0, 0, 37, 38, 0, 0, 0, 43, 42, 75, 125,
       84, 0, 0, 74, 72, 67, 71 >>

KernelErrors == {e \in DOMAIN ErrnoTable : ErrnoTable[e] # 0}

(* Mutant of lazybsd_os_errno: EDEADLK has no case. *)
lazybsd_os_errno_NoDeadlk(error) ==
    IF error \in KernelErrors \ {11} THEN ErrnoTable[error] ELSE error

lazybsd_os_errno(error) == IF error \in KernelErrors THEN ErrnoTable[error] ELSE error

-----------------------------------------------------------------------------
(* Addresses.  Linux has a family of two bytes, low byte first; FreeBSD a  *)
(* length and a family of one byte each.                                   *)

AF_INET        == 2
AF_INET6       == 28
LINUX_AF_INET6 == 10

LinuxFamily(a)  == a.lo + 256 * a.hi
LinuxAddr(family, data) == [lo |-> family % 256, hi |-> family \div 256, data |-> data]

linux2freebsd_sockaddr(a, addrlen) ==
    [lo   |-> addrlen % 256,
     hi   |-> (IF LinuxFamily(a) = LINUX_AF_INET6 THEN AF_INET6 ELSE LinuxFamily(a)) % 256,
     data |-> SubSeq(a.data, 1, addrlen - 2)]

(* Mutant of freebsd2linux_sockaddr: the family keeps its number. *)
freebsd2linux_sockaddr_SameFamily(a) == LinuxAddr(a.hi, a.data)

(* The same result in place and from one buffer to another: the family is  *)
(* read before it is written, and in place the data stays where it is.     *)
freebsd2linux_sockaddr(a) ==
    LinuxAddr(IF a.hi = AF_INET6 THEN LINUX_AF_INET6 ELSE a.hi, SubSeq(a.data, 1, a.lo - 2))
-----------------------------------------------------------------------------
(* Control messages.  FreeBSD's header is <<len, level, type>> and a word  *)
(* of padding, Linux's <<len, 0, level, type>> with a length of two words; *)
(* both are 16 bytes long with their padding, and data is aligned to 8.    *)
(* A buffer is a sequence of words, a cursor a byte offset into it.        *)

IP_TOS       == IpTable[1]
IP_TTL       == IpTable[2]
IP_RECVTTL   == IpTable[12]
IP_RECVTOS   == IpTable[13]
LINUX_IP_TOS == 1
LINUX_IP_TTL == 2

NoHdr == -1

CMSG_ALIGN(n) == ((n + 7) \div 8) * 8
CMSG_LEN(n)   == 16 + n

(* sizeof(struct cmsghdr) is 12, sizeof(struct linux_cmsghdr) 16. *)
CMSG_FIRSTHDR(controllen, size) == IF controllen >= size THEN 0 ELSE NoHdr

CMSG_NXTHDR(cmsg, cmsg_len, controllen) ==
    IF cmsg + CMSG_ALIGN(cmsg_len) + 16 > controllen THEN NoHdr ELSE cmsg + CMSG_ALIGN(cmsg_len)

Word(c) == c \div 4 + 1

(* The upper word of a Linux length, when it is not 0, dwarfs any buffer. *)
LinuxLen(mem, w) == mem[w] + 65536 * mem[w + 1]

LowByte(v) == v % 256

(* *dst = *src for characters: the other three bytes of the word stay. *)
PutByte(old, v) == old - LowByte(old) + LowByte(v)

(* Mutant of CopyHeader: the fields in the order of the struct. *)
CopyHeader_InOrder(mem, l, f) ==
    LET m1 == [mem EXCEPT ![l] = CMSG_LEN(mem[f] - 16), ![l + 1] = 0]
        m2 == [m1 EXCEPT ![l + 2] = m1[f + 1]]
    IN  [m2 EXCEPT ![l + 3] = m2[f + 2]]

(* Type, level and length of a header, last field first, because on        *)
(* recvmsg both headers are the same memory.                               *)
CopyHeader(mem, l, f) ==
    LET m1 == [mem EXCEPT ![l + 3] = mem[f + 2]]
        m2 == [m1 EXCEPT ![l + 2] = m1[f + 1]]
    IN  [m2 EXCEPT ![l] = CMSG_LEN(m2[f] - 16), ![l + 1] = 0]

(* The value of a message received: TOS is a byte on both sides, TTL a     *)
(* byte that becomes an int.  Anything else is copied onto itself.         *)
RecvValue(mem, l, f) ==
    IF mem[l + 2] = IPPROTO_IP /\ mem[l + 3] = IP_RECVTOS
    THEN [mem EXCEPT ![l + 3] = LINUX_IP_TOS, ![l + 4] = PutByte(@, mem[f + 4])]
    ELSE IF mem[l + 2] = IPPROTO_IP /\ mem[l + 3] = IP_RECVTTL
    THEN [mem EXCEPT ![l] = CMSG_LEN(4), ![l + 1] = 0, ![l + 3] = LINUX_IP_TTL,
                     ![l + 4] = LowByte(mem[f + 4])]
    ELSE mem

(* One turn of the loop over the buffer of a recvmsg: a message is         *)
(* rewritten and both cursors move on.  The first to end ends the loop.    *)
RecvTurn(s, linux_len, freebsd_len) ==
    IF s.l = NoHdr \/ s.f = NoHdr THEN s
    ELSE LET m == RecvValue(CopyHeader(s.mem, Word(s.l), Word(s.f)), Word(s.l), Word(s.f))
         IN  [mem |-> m,
              l   |-> CMSG_NXTHDR(s.l, LinuxLen(m, Word(s.l)), linux_len),
              f   |-> CMSG_NXTHDR(s.f, m[Word(s.f)], freebsd_len)]

freebsd2linux_cmsghdr(buf, linux_len, freebsd_len) ==
    LET turn[n \in 0 .. Len(buf)] ==
            IF n = 0
            THEN [mem |-> buf, l |-> CMSG_FIRSTHDR(linux_len, 16), f |-> CMSG_FIRSTHDR(freebsd_len, 12)]
            ELSE RecvTurn(turn[n - 1], linux_len, freebsd_len)
    IN  turn[Len(buf)].mem

(* One message of a sendmsg, from the application's buffer lm to the one   *)
(* malloc'ed for the kernel, fm: TOS (an int or a byte) and TTL (an int)   *)
(* become a byte, anything else is copied, a byte or whole words.          *)
SendMessage(fm, f, lm, l) ==
    LET n == LinuxLen(lm, l) - 16
        h == [fm EXCEPT ![f] = CMSG_LEN(n), ![f + 1] = lm[l + 2], ![f + 2] = lm[l + 3]]
    IN  IF lm[l + 2] = IPPROTO_IP /\ lm[l + 3] \in {LINUX_IP_TOS, LINUX_IP_TTL}
        THEN [h EXCEPT ![f] = CMSG_LEN(1),
                       ![f + 2] = IF lm[l + 3] = LINUX_IP_TOS THEN IP_TOS ELSE IP_TTL,
                       ![f + 4] = IF lm[l + 3] = LINUX_IP_TTL \/ n \in {1, 4}
                                  THEN PutByte(@, lm[l + 4]) ELSE @]
        ELSE IF n = 1 THEN [h EXCEPT ![f + 4] = PutByte(@, lm[l + 4])]
        ELSE [i \in DOMAIN h |-> IF i - f - 4 \in 0 .. n \div 4 - 1 THEN lm[l + i - f] ELSE h[i]]

(* One turn of that loop, over the application's buffer and the kernel's.  *)
SendTurn(s, linux) ==
    IF s.l = NoHdr \/ s.f = NoHdr THEN s
    ELSE LET m == SendMessage(s.mem, Word(s.f), linux, Word(s.l))
         IN  [mem |-> m,
              l   |-> CMSG_NXTHDR(s.l, LinuxLen(linux, Word(s.l)), 4 * Len(linux)),
              f   |-> CMSG_NXTHDR(s.f, m[Word(s.f)], 4 * Len(linux))]

linux2freebsd_cmsg(linux, freebsd) ==
    LET turn[n \in 0 .. Len(linux)] ==
            IF n = 0
            THEN [mem |-> freebsd, l |-> CMSG_FIRSTHDR(4 * Len(linux), 16), f |-> CMSG_FIRSTHDR(4 * Len(linux), 12)]
            ELSE SendTurn(turn[n - 1], linux)
    IN  turn[Len(linux)].mem

-----------------------------------------------------------------------------
(* The two sides' own view of a buffer, to check the conversions against:  *)
(* a message is its level, type, length of data and value.                 *)

Padding == 255

DataWords(m) ==
    CASE m.n = 1  -> << m.val + 256 * Padding, Padding >>
      [] m.n = 4  -> << m.val, Padding >>
      [] m.n = 16 -> << m.val, m.val, m.val, m.val >>

LinuxControl(msgs) ==
    FlattenSeq([i \in DOMAIN msgs |->
        << CMSG_LEN(msgs[i].n), 0, msgs[i].level, msgs[i].type >> \o DataWords(msgs[i])])

FreebsdControl(msgs) ==
    FlattenSeq([i \in DOMAIN msgs |->
        << CMSG_LEN(msgs[i].n), msgs[i].level, msgs[i].type, Padding >> \o DataWords(msgs[i])])

Value(n, word) == IF n = 1 THEN LowByte(word) ELSE word

(* A header as the two sides read it. *)
Header(side, mem, w) ==
    LET n == IF side = "linux" THEN LinuxLen(mem, w) - 16 ELSE mem[w] - 16
        h == IF side = "linux" THEN w + 2 ELSE w + 1
    IN  [level |-> mem[h], type |-> mem[h + 1], n |-> n, val |-> Value(n, mem[w + 4])]

(* The messages a side finds by walking a buffer. *)
WalkTurn(s, side, mem, controllen) ==
    IF s.c = NoHdr THEN s
    ELSE LET h == Header(side, mem, Word(s.c))
         IN  [c |-> CMSG_NXTHDR(s.c, CMSG_LEN(h.n), controllen), out |-> Append(s.out, h)]

MessagesOf(side, mem, controllen) ==
    LET turn[n \in 0 .. Len(mem)] ==
            IF n = 0 THEN [c |-> CMSG_FIRSTHDR(controllen, IF side = "linux" THEN 16 ELSE 12), out |-> << >>]
            ELSE WalkTurn(turn[n - 1], side, mem, controllen)
    IN  turn[Len(mem)].out

LinuxMessages(mem, controllen) == MessagesOf("linux", mem, controllen)
FreebsdMessages(mem)           == MessagesOf("freebsd", mem, 4 * Len(mem))

(* The messages either side may send: a TOS is a byte or an int to Linux,  *)
(* a TTL an int, and both are bytes to FreeBSD.                            *)
Messages == [level : Nat, type : Nat, n : {1, 4, 16}, val : 0 .. 255]

FromLinux ==
    {m \in Messages : m.level = IPPROTO_IP => (m.type = LINUX_IP_TOS => m.n # 16) /\ (m.type = LINUX_IP_TTL => m.n = 4)}

FromFreebsd == {m \in Messages : m.level = IPPROTO_IP /\ m.type \in {IP_RECVTOS, IP_RECVTTL} => m.n = 1}

(* What a message received from the kernel is to the application, ... *)
Received(m) ==
    CASE m.level = IPPROTO_IP /\ m.type = IP_RECVTOS -> [m EXCEPT !.type = LINUX_IP_TOS]
      [] m.level = IPPROTO_IP /\ m.type = IP_RECVTTL -> [m EXCEPT !.type = LINUX_IP_TTL, !.n = 4]
      [] OTHER -> m

(* ... and what one the application sends is to the kernel. *)
Sent(m) ==
    CASE m.level = IPPROTO_IP /\ m.type = LINUX_IP_TOS -> [m EXCEPT !.type = IP_TOS, !.n = 1]
      [] m.level = IPPROTO_IP /\ m.type = LINUX_IP_TTL -> [m EXCEPT !.type = IP_TTL, !.n = 1]
      [] OTHER -> m
=============================================================================
