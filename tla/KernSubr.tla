------------------------------ MODULE KernSubr ------------------------------
(***************************************************************************)
(* The helpers the network stack takes from the kernel library             *)
(* (bsd/lib/lazybsd_kern_subr.c, bsd/lib/lazybsd_patch.c): copying through *)
(* a uio, kernel memory, credentials, the limit on socket buffers, the     *)
(* sizes of hash tables and membership of a group.                         *)
(*                                                                         *)
(* Bytes are numbered in the order in which the kernel hands them to       *)
(* uiomove.  A block of memory is a member of Blocks.                      *)
(***************************************************************************)
EXTENDS Integers, Sequences, FiniteSets, FiniteSetsExt, SequencesExt, Functions

CONSTANTS
    SubrIntMax,   \* INT_MAX
    MaxIov,       \* UIO_MAXIOV
    IovLens,      \* the lengths of the buffers of a call
    MaxMove,      \* bound: bytes of one uiomove
    Blocks,       \* the blocks of the host's heap
    MaxRefs,      \* bound: references to a credential
    Bufs,         \* socket buffers
    Sizes,        \* the sizes asked for them
    SbLimit,      \* the limit of the user: 0 is none
    MaxElements,  \* bound: the elements of a hash table
    Primes,       \* the sizes of a prime table, in order
    Gids,         \* groups
    MaxGroups     \* bound: the groups of a credential

ASSUME SubrAssumption ==
    /\ {SubrIntMax, MaxIov, MaxMove, MaxRefs, SbLimit, MaxElements, MaxGroups} \subseteq Nat
    /\ IovLens \subseteq Nat /\ Sizes \subseteq Nat /\ Gids \subseteq Nat /\ IsFiniteSet(Bufs)
    /\ Primes \in Seq(Nat) /\ Len(Primes) > 1 /\ Primes[1] = 1
    /\ \A i \in 2 .. Len(Primes) : Primes[i - 1] < Primes[i]

VARIABLES
    uio,      \* the uio of the call: the buffers it was given, what is left of each
              \* (uio_iov), the one it is at, uio_resid, the bytes left to move (n),
              \* the next byte (cp) and what the buffers hold
    heap,     \* the blocks in use
    held,     \* the blocks the kernel's data structures refer to, with the references
    sb,       \* chgsbsize: ui_sbsize and sb_hiwat of each buffer
    sized     \* the last hash table: what was asked for, its size, and its kind

subrVars == <<uio, heap, held, sb, sized>>

-----------------------------------------------------------------------------
(* uio: the buffers of the caller and the bytes of the kernel.             *)

NoUio == [at |-> "none", given |-> << >>, left |-> << >>, i |-> 1, resid |-> 0,
          n |-> 0, cp |-> 1, out |-> << >>]

SumOf(lens) == SumFunction(lens)

(* Each length is compared with what INT_MAX leaves after the ones before. *)
Fits(lens) ==
    \A i \in 1 .. Len(lens) : lens[i] <= SubrIntMax - SumOf(SubSeq(lens, 1, i - 1))

copyinuio(lens) ==
    /\ uio.at = "none"
    /\ uio' = IF Len(lens) > MaxIov \/ ~ Fits(lens)
              THEN [NoUio EXCEPT !.at = "refused"]
              ELSE [NoUio EXCEPT !.at = "ready", !.given = lens, !.left = lens, !.resid = SumOf(lens),
                                 !.out = [i \in 1 .. Len(lens) |-> << >>]]
    /\ UNCHANGED <<heap, held, sb, sized>>

uiomove(n) ==
    /\ uio.at = "ready"
    /\ uio' = [uio EXCEPT !.at = "moving", !.n = n]
    /\ UNCHANGED <<heap, held, sb, sized>>

Written_AtBase(u, i, cnt) ==
    [u EXCEPT !.out[i] = [k \in 1 .. cnt |-> u.cp + k - 1] \o SubSeq(@, cnt + 1, Len(@))]

(* cnt bytes go to buffer i, where the bytes before them ended. *)
Written(u, i, cnt) ==
    [u EXCEPT !.out[i] = SubSeq(@, 1, u.given[i] - u.left[i]) \o [k \in 1 .. cnt |-> u.cp + k - 1]]

(* As much as the buffer takes, and no more than is left to move. *)
Chunk(u) == IF u.left[u.i] > u.n THEN u.n ELSE u.left[u.i]

(* One turn of the loop: past an empty buffer, or one chunk. *)
uiomove_step ==
    /\ uio.at = "moving"
    /\ IF uio.n <= 0 \/ uio.resid = 0
       THEN uio' = [uio EXCEPT !.at = "ready", !.n = 0]
       ELSE IF uio.left[uio.i] = 0
            THEN uio' = [uio EXCEPT !.i = @ + 1]
            ELSE LET cnt == Chunk(uio)
                 IN  uio' = [Written(uio, uio.i, cnt) EXCEPT
                                !.left[uio.i] = @ - cnt, !.resid = @ - cnt,
                                !.cp = @ + cnt, !.n = @ - cnt]
    /\ UNCHANGED <<heap, held, sb, sized>>

uio_done ==
    /\ uio.at \in {"ready", "refused"}
    /\ uio' = NoUio
    /\ UNCHANGED <<heap, held, sb, sized>>

-----------------------------------------------------------------------------
(* Kernel memory: the host's heap.  M_WAITOK waits until there is some.    *)

Free == Blocks \ heap

kmalloc(waitok) ==
    /\ waitok => Free # {}
    /\ \/ \E b \in Free : heap' = heap \cup {b} /\ held' = [held EXCEPT ![b] = 1]
       \/ ~ waitok /\ UNCHANGED <<heap, held>>
    /\ UNCHANGED <<uio, sb, sized>>

kfree(b) ==
    /\ held[b] = 1
    /\ heap' = heap \ {b}
    /\ held' = [held EXCEPT ![b] = 0]
    /\ UNCHANGED <<uio, sb, sized>>

(* realloc moves the data to a block of the new size or leaves it where it *)
(* is; when there is none it fails and the old block stays.  size 0 is not *)
(* passed on.                                                              *)
Moved(b, c) ==
    /\ heap' = (heap \ {b}) \cup {c}
    /\ held' = [[held EXCEPT ![b] = 0] EXCEPT ![c] = 1]

krealloc(b, size) ==
    /\ held[b] = 1
    /\ IF size = 0 THEN UNCHANGED <<heap, held>>
       ELSE \/ \E c \in Free \cup {b} : Moved(b, c)
            \/ UNCHANGED <<heap, held>>
    /\ UNCHANGED <<uio, sb, sized>>

kreallocf_Keep(b, size) ==
    /\ held[b] = 1
    /\ IF size = 0 THEN UNCHANGED <<heap, held>>
       ELSE \/ \E c \in Free \cup {b} : Moved(b, c)
            \/ heap' = heap /\ held' = [held EXCEPT ![b] = 0]
    /\ UNCHANGED <<uio, sb, sized>>

(* When it fails the caller has nothing, and the old block is freed. *)
kreallocf(b, size) ==
    /\ held[b] = 1
    /\ IF size = 0 THEN UNCHANGED <<heap, held>>
       ELSE \/ \E c \in Free \cup {b} : Moved(b, c)
            \/ heap' = heap \ {b} /\ held' = [held EXCEPT ![b] = 0]
    /\ UNCHANGED <<uio, sb, sized>>

(* Credentials count their references; crget is a malloc with one. *)
crhold(b) ==
    /\ held[b] \in 1 .. MaxRefs - 1
    /\ held' = [held EXCEPT ![b] = @ + 1]
    /\ UNCHANGED <<uio, heap, sb, sized>>

crfree(b) ==
    /\ held[b] > 0
    /\ held' = [held EXCEPT ![b] = @ - 1]
    /\ heap' = IF held[b] = 1 THEN heap \ {b} ELSE heap
    /\ UNCHANGED <<uio, sb, sized>>

-----------------------------------------------------------------------------
(* The socket buffers of a user.                                           *)

chglimit_Kept(limit, diff, max) ==
    [ok |-> ~ (diff > 0 /\ max # 0 /\ limit + diff > max), limit |-> limit + diff]

(* What would exceed the maximum is added and taken off again. *)
chglimit(limit, diff, max) ==
    IF diff > 0 /\ max # 0 /\ limit + diff > max
    THEN [ok |-> FALSE, limit |-> limit + diff - diff]
    ELSE [ok |-> TRUE, limit |-> limit + diff]

chgsbsize(b, to) ==
    LET diff == to - sb.hiwat[b]
        c    == chglimit(sb.total, diff, SbLimit)
    IN  /\ IF diff > 0 /\ SbLimit = 0
           THEN UNCHANGED sb
           ELSE sb' = [sb EXCEPT !.total = c.limit, !.hiwat[b] = IF c.ok THEN to ELSE @]
        /\ UNCHANGED <<uio, heap, held, sized>>

-----------------------------------------------------------------------------
(* Hash tables: a power of two, or a prime of the table.                   *)

Doubled[k \in 0 .. MaxElements] == IF k = 0 THEN 1 ELSE 2 * Doubled[k - 1]

PowersOfTwo == {Doubled[k] : k \in 0 .. MaxElements}

hashinit_flags_Over(elements) == Min({p \in PowersOfTwo : p >= elements})

(* Doubled until it exceeds elements, and halved once. *)
hashinit_flags(elements) == Min({p \in PowersOfTwo : p > elements}) \div 2

(* From the second prime on until one exceeds elements or they run out,    *)
(* and one back.                                                           *)
phashinit_flags(elements) ==
    LET over == {i \in 2 .. Len(Primes) : Primes[i] > elements}
    IN  Primes[(IF over = {} THEN Len(Primes) + 1 ELSE Min(over)) - 1]

hash_table(elements, prime) ==
    /\ sized.kind = "none"
    /\ sized' = [kind |-> IF prime THEN "prime" ELSE "power", elements |-> elements,
                 size |-> IF prime THEN phashinit_flags(elements) ELSE hashinit_flags(elements)]
    /\ UNCHANGED <<uio, heap, held, sb>>

-----------------------------------------------------------------------------
(* Groups: the first is the primary one, the others are sorted.            *)

GroupLists ==
    {s \in UNION {[1 .. n -> Gids] : n \in 1 .. MaxGroups} : \A i \in 3 .. Len(s) : s[i - 1] <= s[i]}

(* One turn of the loop of groupmember, over positions counted from 0. *)
Halved(gid, groups, s) ==
    LET m == s.l + ((s.h - s.l) \div 2)
    IN  IF s.l >= s.h THEN s
        ELSE IF groups[m + 1] < gid THEN [s EXCEPT !.l = m + 1] ELSE [s EXCEPT !.h = m]

(* Where the loop ends: each turn takes at least one position away. *)
Search(gid, groups, last) ==
    LET turn[k \in 0 .. last] ==
            IF k = 0 THEN [l |-> 1, h |-> last] ELSE Halved(gid, groups, turn[k - 1])
    IN  turn[last].l

groupmember_Short(gid, groups) ==
    \/ groups[1] = gid
    \/ LET l == Search(gid, groups, Len(groups) - 1)
       IN  l < Len(groups) - 1 /\ groups[l + 1] = gid

groupmember(gid, groups) ==
    \/ groups[1] = gid
    \/ LET l == Search(gid, groups, Len(groups))
       IN  l < Len(groups) /\ groups[l + 1] = gid

group_check(gid, groups) ==
    /\ sized.kind = "none"
    /\ sized' = [kind |-> "group", gid |-> gid, groups |-> groups,
                 member |-> groupmember(gid, groups)]
    /\ UNCHANGED <<uio, heap, held, sb>>

-----------------------------------------------------------------------------
SubrInit ==
    /\ uio = NoUio
    /\ heap = {}
    /\ held = [b \in Blocks |-> 0]
    /\ sb = [total |-> 0, hiwat |-> [b \in Bufs |-> 0]]
    /\ sized = [kind |-> "none"]

UioNext ==
    \/ \E n \in 0 .. MaxIov + 1 : \E lens \in [1 .. n -> IovLens] : copyinuio(lens)
    \/ \E n \in 0 .. MaxMove : uiomove(n)
    \/ uiomove_step
    \/ uio_done

HeapNext ==
    \/ \E waitok \in BOOLEAN : kmalloc(waitok)
    \/ \E b \in Blocks :
          \/ kfree(b) \/ crhold(b) \/ crfree(b)
          \/ \E size \in {0, 1} : krealloc(b, size) \/ kreallocf(b, size)

SbNext == \E b \in Bufs, to \in Sizes \cup {0} : chgsbsize(b, to)

SizedNext ==
    \/ \E elements \in 1 .. MaxElements, prime \in BOOLEAN : hash_table(elements, prime)
    \/ \E gid \in Gids, groups \in GroupLists : group_check(gid, groups)

SubrNext == UioNext \/ HeapNext \/ SbNext \/ SizedNext

SubrSpec == SubrInit /\ [][SubrNext]_subrVars

-----------------------------------------------------------------------------
(* uio_resid is what is left of the buffers and an int holds it; the bytes *)
(* that were moved lie in the buffers in order, each full before the next  *)
(* begins and none past its end, whatever way they were handed to uiomove  *)
(* (copyinuio, uiomove).                                                   *)
UioInOrder ==
    LET u == uio
    IN  /\ u.resid = SumOf(u.left) /\ u.resid <= SubrIntMax
        /\ FlattenSeq(u.out) = [k \in 1 .. u.cp - 1 |-> k]
        /\ \A i \in 1 .. Len(u.out) :
              /\ Len(u.out[i]) = u.given[i] - u.left[i]
              /\ u.left[i] >= 0
              /\ i < u.i => u.left[i] = 0
        /\ u.at = "moving" /\ u.resid > 0 => u.i <= Len(u.left)

(* A block is in use exactly while something refers to it: a failed        *)
(* reallocation leaves the old block to the caller of realloc and to       *)
(* nobody after reallocf, and a credential goes with its last reference.   *)
HeapHeld == heap = {b \in Blocks : held[b] > 0}

(* What a user is charged for socket buffers is the sum of their high      *)
(* water marks and within the limit, however the changes that were refused *)
(* and the ones that were made follow each other (chgsbsize, chglimit).    *)
SbCharged ==
    /\ sb.total = SumFunctionOnSet(sb.hiwat, Bufs)
    /\ SbLimit # 0 => sb.total <= SbLimit

(* A hash table has the largest permitted size that does not exceed the    *)
(* elements, so that the mask of a power of two reaches every bucket, also *)
(* at the powers and primes themselves and past the last prime.            *)
HashSized ==
    /\ sized.kind = "power" => sized.size = Max({p \in PowersOfTwo : p <= sized.elements})
    /\ sized.kind = "prime" => sized.size = Max({p \in ToSet(Primes) : p <= sized.elements})

(* The binary search finds a group exactly when it is one of the           *)
(* credential's groups (groupmember).                                      *)
GroupFound == sized.kind = "group" => sized.member = (sized.gid \in ToSet(sized.groups))
=============================================================================
