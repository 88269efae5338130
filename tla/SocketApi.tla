----------------------------- MODULE SocketApi -----------------------------
(***************************************************************************)
(* The socket API of bsd/lib/lazybsd_socket.c and lazybsd_kevent.c: every  *)
(* call translates its arguments, calls the kernel, translates what comes  *)
(* back and releases what it allocated.  A call that fails returns -1 and  *)
(* stores the translated error in lazybsd_errno.  There is one thread, so  *)
(* a call is one step; kevent, whose callbacks walk two lists, is several. *)
(*                                                                         *)
(* The kernel is external: it hands out the lowest free descriptor, counts *)
(* references to files, stores options and names, and may refuse a call.   *)
(***************************************************************************)
EXTENDS LinuxCompat, FiniteSets, FiniteSetsExt

CONSTANTS Fds,          \* descriptors, 0 .. n
          Files,        \* struct file
          NoFile,
          Addrs,        \* addresses: the data of a sockaddr
          Controls,     \* sequences of control messages the application sends
          Deliveries,   \* sequences of control messages the kernel delivers
          Errors,       \* errors the kernel may return
          StaleErrnos,  \* values the C library's errno may have
          IntMax,       \* INT_MAX
          Lengths,      \* lengths of a transfer
          KqNevents,    \* KQ_NEVENTS: kevents the kernel copies at a time
          MaxKevents,   \* bound: changes and events of one call
          MaxOptions    \* bound: options and requests set at a time

ASSUME SockAssumption ==
    /\ Fds \subseteq Nat /\ IsFiniteSet(Fds) /\ NoFile \notin Files
    /\ KqNevents \in Nat \ {0} /\ MaxKevents \in Nat
    /\ IntMax \in Nat /\ Lengths \subseteq Nat
    /\ Controls \subseteq Seq(FromLinux) /\ Deliveries \subseteq Seq(FromFreebsd)

VARIABLES
    table,      \* the process's descriptors and the files' reference counts
    opened,     \* history: descriptors the application opened and did not close
    domain,     \* the kernel's domain of each file
    kname,      \* the kernel's name of each file: a sockaddr, or NoFile
    bound,      \* history: the address the application bound it to
    seen,       \* history: name asked for and name returned by the last query
    message,    \* history: control messages meant and received, last exchange
    asked,      \* history: options and requests the application has set
    reached,    \* options and requests set in the kernel
    transfer,   \* the last transfer: length asked for, uio_resid, bytes returned
    kev,        \* the kevent call under way
    ret,        \* what the last call returned
    rc,         \* history: the last error of the kernel
    lazybsd_errno, errno

fileVars == <<table, opened, domain, kname, bound, seen>>
optVars  == <<asked, reached, transfer>>
errVars  == <<ret, rc, lazybsd_errno, errno>>
sockVars == <<fileVars, message, optVars, kev, errVars>>

Idle == [phase |-> "idle"]

SockInit ==
    /\ table = [fd |-> [d \in Fds |-> NoFile], f_count |-> [f \in Files |-> 0]]
    /\ opened = {}
    /\ domain = [f \in Files |-> AF_INET]
    /\ kname = [f \in Files |-> NoFile]
    /\ bound = [f \in Files |-> NoFile]
    /\ seen = << NoFile, NoFile >>
    /\ message = << << >>, << >> >>
    /\ asked = {} /\ reached = {}
    /\ transfer = [len |-> 0, vec |-> FALSE, uio_resid |-> 0, done |-> 0]
    /\ kev = Idle
    /\ ret = 0 /\ rc = 0 /\ lazybsd_errno = 0
    /\ errno \in StaleErrnos

-----------------------------------------------------------------------------
(* The ends of a call.                                                     *)

Return(v) == ret' = v /\ UNCHANGED <<rc, lazybsd_errno, errno>>

kern_fail(e) ==
    /\ ret' = -1
    /\ rc' = e
    /\ lazybsd_errno' = lazybsd_os_errno(e)
    /\ UNCHANGED errno

Refused == \E e \in Errors : kern_fail(e)

EMFILE == 24
EINVAL == 22
ENOMEM == 12

-----------------------------------------------------------------------------
(* Descriptors and files, as the kernel keeps them.                        *)

FreeFds  == {d \in Fds : table.fd[d] = NoFile}
OpenFds  == Fds \ FreeFds
FreeFile == {f \in Files : table.f_count[f] = 0}

(* A reference less; the last one frees the file. *)
fdrop(t, f) == [t EXCEPT !.f_count[f] = @ - 1]

Install(t, d, f) == [t EXCEPT !.fd[d] = f, !.f_count[f] = @ + 1]
Uninstall(t, d)  == fdrop([t EXCEPT !.fd[d] = NoFile], t.fd[d])

NewFile(f, fam) ==
    /\ domain' = [domain EXCEPT ![f] = fam]
    /\ kname' = [kname EXCEPT ![f] = NoFile]
    /\ bound' = [bound EXCEPT ![f] = NoFile]

lazybsd_socket(fam) ==
    /\ \/ /\ FreeFds # {}
          /\ \E f \in FreeFile :
                /\ table' = Install(table, Min(FreeFds), f)
                /\ NewFile(f, IF fam = LINUX_AF_INET6 THEN AF_INET6 ELSE fam)
          /\ opened' = opened \cup {Min(FreeFds)}
          /\ Return(Min(FreeFds))
       \/ /\ FreeFds = {}
          /\ kern_fail(EMFILE)
          /\ UNCHANGED <<table, opened, domain, kname, bound>>
       \/ /\ Refused
          /\ UNCHANGED <<table, opened, domain, kname, bound>>
    /\ UNCHANGED <<seen, message, optVars, kev>>

(* A file without a domain of its own. *)
lazybsd_kqueue == lazybsd_socket(0)

(* Mutant of lazybsd_accept: the reference kern_accept returns is kept. *)
lazybsd_accept_Held(d) ==
    /\ d \in OpenFds
    /\ FreeFds # {}
    /\ \E f \in FreeFile, a \in Addrs :
          LET t == [Install(table, Min(FreeFds), f) EXCEPT !.f_count[f] = @ + 1] IN
          /\ table' = t
          /\ NewFile(f, domain[table.fd[d]])
    /\ opened' = opened \cup {Min(FreeFds)}
    /\ Return(Min(FreeFds))
    /\ UNCHANGED <<seen, message, optVars, kev>>

(* lazybsd_accept: kern_accept returns the new descriptor, a reference to  *)
(* its file of the caller's own, and the peer's address in a buffer of the *)
(* caller's.                                                               *)
lazybsd_accept(d) ==
    /\ d \in OpenFds
    /\ \/ /\ FreeFds # {}
          /\ \E f \in FreeFile :
                LET t == [Install(table, Min(FreeFds), f) EXCEPT !.f_count[f] = @ + 1] IN
                /\ table' = fdrop(t, f)
                /\ NewFile(f, domain[table.fd[d]])
          /\ opened' = opened \cup {Min(FreeFds)}
          /\ Return(Min(FreeFds))
       \/ /\ Refused
          /\ UNCHANGED <<table, opened, domain, kname, bound>>
    /\ UNCHANGED <<seen, message, optVars, kev>>

lazybsd_dup(d) ==
    /\ d \in OpenFds
    /\ \/ /\ FreeFds # {}
          /\ table' = Install(table, Min(FreeFds), table.fd[d])
          /\ opened' = opened \cup {Min(FreeFds)}
          /\ Return(Min(FreeFds))
       \/ /\ FreeFds = {}
          /\ kern_fail(EMFILE)
          /\ UNCHANGED <<table, opened>>
    /\ UNCHANGED <<domain, kname, bound, seen, message, optVars, kev>>

lazybsd_dup2(from, to) ==
    /\ from \in OpenFds
    /\ table' = IF from = to THEN table
                ELSE LET t == IF to \in OpenFds THEN Uninstall(table, to) ELSE table
                     IN  Install(t, to, table.fd[from])
    /\ opened' = opened \cup {to}
    /\ Return(to)
    /\ UNCHANGED <<domain, kname, bound, seen, message, optVars, kev>>

lazybsd_close(d) ==
    /\ d \in OpenFds
    /\ table' = Uninstall(table, d)
    /\ opened' = opened \ {d}
    /\ Return(0)
    /\ UNCHANGED <<domain, kname, bound, seen, message, optVars, kev>>

(* shutdown, sysctl, select, poll and gettimeofday: nothing is translated  *)
(* but the error.                                                          *)
plain_call ==
    /\ Refused \/ Return(0)
    /\ UNCHANGED <<fileVars, message, optVars, kev>>

lazybsd_listen(d) == d \in OpenFds /\ plain_call

(* F_DUPFD is a dup, any other command is passed on as it is. *)
lazybsd_fcntl(d, cmd) ==
    IF cmd = "F_DUPFD" THEN lazybsd_dup(d) ELSE d \in OpenFds /\ plain_call

(* Mutant of handle_ioctl_msg: an error of the ioctl leaves the socket. *)
handle_ioctl_msg_Open ==
    /\ FreeFds # {}
    /\ \E f \in FreeFile : table' = Install(table, Min(FreeFds), f)
    /\ Refused
    /\ UNCHANGED <<opened, domain, kname, bound, seen, message, optVars, kev>>

(* handle_ioctl_msg: a tool's request runs on a socket of its own, which   *)
(* is closed again.                                                        *)
handle_ioctl_msg ==
    /\ \/ /\ FreeFds # {}
          /\ \E f \in FreeFile :
                /\ table' = Uninstall(Install(table, Min(FreeFds), f), Min(FreeFds))
                /\ NewFile(f, AF_INET)
          /\ Refused \/ Return(0)
       \/ /\ FreeFds = {}
          /\ kern_fail(EMFILE)
          /\ UNCHANGED <<table, domain, kname, bound>>
    /\ UNCHANGED <<opened, seen, message, optVars, kev>>

-----------------------------------------------------------------------------
(* Names.                                                                  *)

(* sizeof(struct sockaddr_in) and sizeof(struct sockaddr_in6). *)
AddrSize(fam) == IF fam \in {AF_INET6, LINUX_AF_INET6} THEN 28 ELSE 16

(* The kernel takes an address of the socket's domain and size. *)
lazybsd_bind(d, fam, data) ==
    LET linux == LinuxAddr(fam, data)
        bsd   == linux2freebsd_sockaddr(linux, AddrSize(fam))
        f     == table.fd[d]
    IN  /\ d \in OpenFds
        /\ kname[f] = NoFile
        /\ \/ /\ bsd.hi = domain[f] /\ bsd.lo = AddrSize(domain[f])
              /\ kname' = [kname EXCEPT ![f] = bsd]
              /\ bound' = [bound EXCEPT ![f] = linux]
              /\ Return(0)
           \/ /\ Refused
              /\ UNCHANGED <<kname, bound>>
        /\ UNCHANGED <<table, opened, domain, seen, message, optVars, kev>>

(* The name is the peer's. *)
lazybsd_connect(d, fam, data) == lazybsd_bind(d, fam, data)

(* The kernel allocates the name it returns; the caller translates it and  *)
(* frees it.                                                               *)
lazybsd_getsockname(d) ==
    /\ d \in OpenFds
    /\ \/ /\ kname[table.fd[d]] # NoFile
          /\ seen' = << bound[table.fd[d]], freebsd2linux_sockaddr(kname[table.fd[d]]) >>
          /\ Return(0)
       \/ /\ Refused
          /\ UNCHANGED seen
    /\ UNCHANGED <<table, opened, domain, kname, bound, message, optVars, kev>>

lazybsd_getpeername(d) == lazybsd_getsockname(d)

(* lazybsd_recvfrom from a peer with a name: the kernel fills a buffer of  *)
(* the caller's.                                                           *)
lazybsd_recvfrom(d) ==
    /\ d \in OpenFds
    /\ \/ /\ kname[table.fd[d]] # NoFile
          /\ seen' = << bound[table.fd[d]], freebsd2linux_sockaddr(kname[table.fd[d]]) >>
          /\ Return(0)
       \/ /\ Refused
          /\ UNCHANGED seen
    /\ UNCHANGED <<table, opened, domain, kname, bound, message, optVars, kev>>

(* lazybsd_sendto, lazybsd_send: the translated destination is on the      *)
(* stack and nothing has to be released.                                   *)
lazybsd_sendto(d) ==
    /\ d \in OpenFds
    /\ Refused \/ Return(0)
    /\ UNCHANGED <<fileVars, message, optVars, kev>>

(* lazybsd_route_ctl: an unknown request or flag is refused; the addresses *)
(* are translated, as long as a struct linux_sockaddr is (16 bytes: IPv4), *)
(* and rib_action is called.                                               *)
lazybsd_route_ctl(req, flag, data) ==
    /\ \/ /\ req \notin {"ADD", "DEL", "CHANGE"} \/ flag \notin {"HOST", "GATEWAY"}
          /\ kern_fail(EINVAL)
          /\ UNCHANGED seen
       \/ /\ req \in {"ADD", "DEL", "CHANGE"} /\ flag \in {"HOST", "GATEWAY"}
          /\ seen' = LET dst == LinuxAddr(AF_INET, data)
                     IN  << dst, freebsd2linux_sockaddr(linux2freebsd_sockaddr(dst, 16)) >>
          /\ Refused \/ Return(0)
    /\ UNCHANGED <<table, opened, domain, kname, bound, message, optVars, kev>>

-----------------------------------------------------------------------------
(* Options, requests and transfers.                                        *)

(* An option or request of the application is <<level, name>>; requests    *)
(* have a level of their own.                                              *)
IOCTL == -2

KernelLevel(o) == IF o[1] = LINUX_SOL_SOCKET THEN SOL_SOCKET ELSE o[1]

Translate(o) ==
    << KernelLevel(o), IF o[1] = IOCTL THEN linux2freebsd_ioctl(o[2])
                       ELSE linux2freebsd_opt(KernelLevel(o), o[2]) >>

Translates(o) == IF o[1] = IOCTL THEN Translate(o)[2] # NoRequest ELSE Translate(o)[2] >= 0

Named == NamedOptions \cup ({IOCTL} \X DOMAIN IoctlTable)

(* An option without a translation is refused before the kernel sees it.   *)
lazybsd_setsockopt(o, on) ==
    /\ \/ /\ ~Translates(o)
          /\ kern_fail(EINVAL)
          /\ UNCHANGED <<asked, reached>>
       \/ /\ Translates(o)
          /\ on => Cardinality(asked) < MaxOptions
          /\ asked' = IF on THEN asked \cup {o} ELSE asked \ {o}
          /\ reached' = IF on THEN reached \cup {Translate(o)} ELSE reached \ {Translate(o)}
          /\ Return(0)
       \/ /\ Translates(o)
          /\ Refused
          /\ UNCHANGED <<asked, reached>>
    /\ UNCHANGED <<fileVars, message, transfer, kev>>

(* A request that sets something goes the same way. *)
lazybsd_ioctl(request, on) == lazybsd_setsockopt(<< IOCTL, request >>, on)

(* lazybsd_getsockopt: the value the kernel has. *)
lazybsd_getsockopt(o) ==
    /\ IF ~Translates(o) THEN kern_fail(EINVAL)
       ELSE Refused \/ Return(IF Translate(o) \in reached THEN 1 ELSE 0)
    /\ UNCHANGED <<fileVars, message, optVars, kev>>

(* len += iov_len on an int. *)
IntAdd(a, b) == ((a + b + IntMax + 1) % (2 * (IntMax + 1))) - (IntMax + 1)

(* The bytes moved come back through td_retval and rc, an int. *)
Moved(len, vec, uio_resid) ==
    [len |-> len, vec |-> vec, uio_resid |-> uio_resid, done |-> IntAdd(0, uio_resid)]

(* Mutant of lazybsd_read: no check of nbytes. *)
lazybsd_read_Unchecked(nbytes) ==
    /\ transfer' = Moved(nbytes, FALSE, nbytes)
    /\ Refused \/ Return(0)
    /\ UNCHANGED <<fileVars, message, asked, reached, kev>>

lazybsd_read(nbytes) ==
    /\ \/ /\ nbytes > IntMax
          /\ kern_fail(EINVAL)
          /\ UNCHANGED transfer
       \/ /\ nbytes <= IntMax
          /\ transfer' = Moved(nbytes, FALSE, nbytes)
          /\ Refused \/ Return(0)
    /\ UNCHANGED <<fileVars, message, asked, reached, kev>>

lazybsd_write(nbytes) == lazybsd_read(nbytes)

(* Of two buffers. *)
lazybsd_readv(n1, n2) ==
    /\ transfer' = Moved(n1 + n2, TRUE, IntAdd(IntAdd(0, n1), n2))
    /\ Refused \/ Return(0)
    /\ UNCHANGED <<fileVars, message, asked, reached, kev>>

lazybsd_writev(n1, n2) == lazybsd_readv(n1, n2)

-----------------------------------------------------------------------------
(* Control messages.                                                       *)

Garbage(n) == [i \in 1 .. n |-> Padding]

(* What the kernel is passed for the application's control data: on the    *)
(* way to recvmsg the buffer itself.                                       *)
linux2freebsd_msghdr(linux, freebsd, send_flag) ==
    IF linux # << >> /\ send_flag THEN linux2freebsd_cmsg(linux, freebsd) ELSE linux

(* What the application finds after the call, in a buffer of linux_len     *)
(* bytes of which the kernel filled freebsd_len.                           *)
freebsd2linux_msghdr(buf, linux_len, freebsd_len, send_flag) ==
    IF buf # << >> /\ ~send_flag THEN freebsd2linux_cmsghdr(buf, linux_len, freebsd_len) ELSE buf

(* lazybsd_sendmsg: the control buffer is malloc'ed as large as the        *)
(* application's and filled.  Memory is not modelled: the code frees the   *)
(* buffer when the kernel took the message, and keeps it otherwise.        *)
lazybsd_sendmsg(msgs) ==
    LET linux == LinuxControl(msgs) IN
    /\ OpenFds # {}
    /\ \/ /\ msgs # << >>
          /\ kern_fail(ENOMEM)
          /\ UNCHANGED message
       \/ /\ message' = << [i \in DOMAIN msgs |-> Sent(msgs[i])],
                           FreebsdMessages(linux2freebsd_msghdr(linux, Garbage(Len(linux)), TRUE)) >>
          /\ Refused \/ Return(0)
    /\ UNCHANGED <<fileVars, optVars, kev>>

(* lazybsd_recvmsg: the kernel writes into the application's buffer, of    *)
(* which slack bytes stay unused, and the messages are rewritten there.    *)
lazybsd_recvmsg(msgs, slack) ==
    LET buf == FreebsdControl(msgs)
        len == 4 * Len(buf)
    IN  /\ OpenFds # {}
        /\ \/ /\ message' = << [i \in DOMAIN msgs |-> Received(msgs[i])],
                               LinuxMessages(freebsd2linux_msghdr(buf \o Garbage(slack \div 4), len + slack, len, FALSE),
                                             len) >>
              /\ Return(0)
           \/ /\ Refused
              /\ UNCHANGED message
        /\ UNCHANGED <<fileVars, optVars, kev>>

-----------------------------------------------------------------------------
(* kevent.                                                                 *)

Fewer(a, b) == IF a <= b THEN a ELSE b

(* lazybsd_kevent: n changes (the first n numbers) and room for events.    *)
lazybsd_kevent(n, nevents) ==
    /\ kev.phase = "idle"
    /\ kev' = [phase |-> "in", changelist |-> 1, nchanges |-> n, nevents |-> nevents,
               registered |-> << >>, eventlist |-> 1, events |-> << >>, reported |-> 0]
    /\ UNCHANGED <<fileVars, message, optVars, errVars>>

(* Mutant of kevent_copyin: the list does not move on. *)
kevent_copyin_Stuck ==
    LET count == Fewer(kev.nchanges, KqNevents) IN
    /\ kev.phase = "in"
    /\ kev.nchanges > 0
    /\ kev' = [kev EXCEPT !.nchanges = @ - count,
                          !.registered = @ \o [i \in 1 .. count |-> kev.changelist + i - 1]]
    /\ UNCHANGED <<fileVars, message, optVars, errVars>>

(* kevent_copyin: the kernel asks for as many changes as its array holds.  *)
kevent_copyin ==
    LET count == Fewer(kev.nchanges, KqNevents) IN
    /\ kev.phase = "in"
    /\ kev.nchanges > 0
    /\ kev' = [kev EXCEPT !.nchanges = @ - count,
                          !.changelist = @ + count,
                          !.registered = @ \o [i \in 1 .. count |-> kev.changelist + i - 1]]
    /\ UNCHANGED <<fileVars, message, optVars, errVars>>

(* kevent_copyout: the next events the kernel has go to the list; do_each, *)
(* when there is one, moves the list on itself, event by event.            *)
kevent_copyout(count) ==
    /\ kev.phase = "in"
    /\ kev.nchanges = 0
    /\ count \in 1 .. Fewer(KqNevents, kev.nevents - kev.reported)
    /\ kev' = [kev EXCEPT !.reported = @ + count,
                          !.eventlist = @ + count,
                          !.events = [i \in 1 .. kev.eventlist + count - 1 |->
                              IF i < kev.eventlist THEN kev.events[i]
                              ELSE kev.reported + i - kev.eventlist + 1]]
    /\ UNCHANGED <<fileVars, message, optVars, errVars>>

kevent_return ==
    /\ kev.phase = "in"
    /\ (kev.nchanges = 0 /\ Return(kev.reported)) \/ Refused
    /\ kev' = Idle
    /\ UNCHANGED <<fileVars, message, optVars>>

-----------------------------------------------------------------------------
(* The calls, by the state they touch.                                     *)

FileCalls ==
    \/ \E fam \in {AF_INET, LINUX_AF_INET6} : lazybsd_socket(fam)
    \/ lazybsd_kqueue
    \/ \E d \in Fds : lazybsd_accept(d) \/ lazybsd_dup(d) \/ lazybsd_close(d) \/ lazybsd_listen(d)
    \/ \E d \in Fds, cmd \in {"F_DUPFD", "F_SETFL"} : lazybsd_fcntl(d, cmd)
    \/ \E d, e \in Fds : lazybsd_dup2(d, e)
    \/ \E d \in Fds, fam \in {AF_INET, LINUX_AF_INET6}, x \in Addrs :
          LET name == [i \in 1 .. AddrSize(fam) - 2 |-> x]
          IN  lazybsd_bind(d, fam, name) \/ lazybsd_connect(d, fam, name)
    \/ \E d \in Fds :
          \/ lazybsd_getsockname(d) \/ lazybsd_getpeername(d)
          \/ lazybsd_recvfrom(d) \/ lazybsd_sendto(d)
    \/ \E req \in {"ADD", "DEL", "CHANGE", "NONE"}, flag \in {"HOST", "GATEWAY", "NONE"}, x \in Addrs :
          lazybsd_route_ctl(req, flag, [i \in 1 .. 14 |-> x])
    \/ handle_ioctl_msg

Unnamed == {<< LINUX_SOL_SOCKET, 77 >>, << 99, 1 >>}

OptionCalls ==
    \/ \E o \in NamedOptions \cup Unnamed, on \in BOOLEAN : lazybsd_setsockopt(o, on)
    \/ \E request \in DOMAIN IoctlTable \cup {77}, on \in BOOLEAN : lazybsd_ioctl(request, on)
    \/ \E o \in NamedOptions \cup Unnamed : lazybsd_getsockopt(o)

TransferCalls ==
    \/ \E n \in Lengths : lazybsd_read(n) \/ lazybsd_write(n)
    \/ \E n1, n2 \in Lengths : lazybsd_readv(n1, n2) \/ lazybsd_writev(n1, n2)
    \/ plain_call

MessageCalls ==
    \/ OpenFds = {} /\ lazybsd_socket(AF_INET)
    \/ \E msgs \in Controls : lazybsd_sendmsg(msgs)
    \/ \E msgs \in Deliveries, slack \in {0, 16} : lazybsd_recvmsg(msgs, slack)

KeventCalls ==
    \/ \E n, nevents \in 0 .. MaxKevents : lazybsd_kevent(n, nevents)
    \/ kevent_copyin
    \/ \E n \in 1 .. MaxKevents : kevent_copyout(n)
    \/ kevent_return

SockNext == FileCalls \/ OptionCalls \/ TransferCalls \/ MessageCalls \/ KeventCalls

SockSpec == SockInit /\ [][SockNext]_sockVars

-----------------------------------------------------------------------------
(* Correctness.                                                            *)

(* A file has as many references as descriptors: accept, dup, dup2 and     *)
(* close, in any order, neither leak a file nor free one in use.  And the  *)
(* open descriptors are those the application has been given: a failed     *)
(* call or a tool's request (handle_ioctl_msg) leaves none behind.         *)
FileRefs ==
    /\ \A f \in Files : table.f_count[f] = Cardinality({d \in Fds : table.fd[d] = f})
    /\ opened = OpenFds

(* A name that comes back, from getsockname, getpeername or recvfrom, is   *)
(* the address the application gave to bind or connect, family included.   *)
NameRoundTrip == seen[1] = seen[2]

(* The control messages one side reads are those the other side wrote: as  *)
(* many, in the same order, with level, type, length and value translated, *)
(* although they are rewritten in place on the way to the application.     *)
ControlTranslated == message[1] = message[2]

(* What one side of a socket call wrote in its own layout the other side   *)
(* reads in its own: names and control messages, in both directions        *)
(* (linux2freebsd_sockaddr, freebsd2linux_sockaddr and the cmsg pair).     *)
MessagesTranslated == NameRoundTrip /\ ControlTranslated

(* An option or request the tables name is set in the kernel exactly when  *)
(* the application set it: no two of them become the same.                 *)
OptionsKept == \A o \in Named : o \in asked <=> Translate(o) \in reached

(* A transfer asks the kernel for the length the application gave and can  *)
(* return it, unless it is a vector longer than INT_MAX, whose lengths are *)
(* summed up in an int without a check.                                    *)
TransferLength ==
    ~transfer.vec \/ transfer.len <= IntMax =>
        transfer.uio_resid = transfer.len /\ transfer.done = transfer.len

(* The kernel sees the changes of a kevent call in order, each once, and   *)
(* the application's list holds the events in order, none overwritten.     *)
KeventInOrder ==
    kev.phase = "in" =>
        /\ kev.registered = [i \in 1 .. Len(kev.registered) |-> i]
        /\ kev.events = [i \in 1 .. kev.reported |-> i]

(* The application can tell from lazybsd_errno which error the kernel      *)
(* reported: no two errors of the table share a number.  (An error without *)
(* a case is passed on as it is, and may be another one to Linux.)         *)
ErrorsDistinct ==
    ret = -1 /\ rc \in KernelErrors =>
        \A e \in KernelErrors : lazybsd_os_errno(e) = lazybsd_errno => e = rc

(* No number that crosses the API is confused with another: options and    *)
(* requests on the way in (so_opt_convert, linux2freebsd_ioctl), lengths   *)
(* in both directions, errors on the way out (lazybsd_os_errno).           *)
NumbersTranslated == OptionsKept /\ TransferLength /\ ErrorsDistinct

(* "On error, -1 is returned, and errno is set appropriately."             *)
ErrnoSet == ret = -1 => errno = lazybsd_os_errno(rc)
=============================================================================
