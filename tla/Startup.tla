------------------------------- MODULE Startup ------------------------------
(***************************************************************************)
(* The kernel's initialisation routines (bsd/lib/lazybsd_main.c): the      *)
(* table of SYSINIT entries, which mi_startup sorts and runs, and the ones *)
(* that a routine adds with sysinit_add while the table is being run (it   *)
(* is meant for modules; no routine of this build calls it).               *)
(***************************************************************************)
EXTENDS Integers, Sequences, FiniteSets, SequencesExt

CONSTANTS
    Linked,     \* the entries of sysinit_set, in the order of the link
    ModuleSets, \* sets of entries that routines add, each a sequence
    Subsystem,  \* the subsystem of each entry
    Order       \* its order in the subsystem

SI_SUB_DUMMY == 0

SI_SUB_DONE == 1

Entries == ToSet(Linked) \cup UNION {ToSet(s) : s \in ModuleSets}

ASSUME StartupAssumption ==
    /\ Subsystem \in [Entries -> Nat \ {SI_SUB_DONE}]
    /\ Order \in [Entries -> Nat]
    /\ Linked \in Seq(Entries)
    /\ \A s \in ModuleSets : s \in Seq(Entries) /\ s # << >>

VARIABLES
    table,      \* sysinit .. sysinit_end
    newtable,   \* newsysinit .. newsysinit_end; empty for NULL
    sipp,       \* a position of table; 0 before mi_startup
    xipp,       \* the position of the inner loop of the sort; 0 when it is over
    inside,     \* the routine at sipp is running
    subsystem,  \* the subsystem of each entry, SI_SUB_DONE once it has run
    added,      \* the sets that were added
    ran         \* the entries that were run, in order

startVars == <<table, newtable, sipp, xipp, inside, subsystem, added, ran>>

(* restart: the table is sorted, and then run from the start. *)
Restart(t) == table' = t /\ sipp' = 1 /\ xipp' = 2

mi_startup ==
    /\ sipp = 0
    /\ Restart(Linked)
    /\ UNCHANGED <<newtable, inside, subsystem, added, ran>>

-----------------------------------------------------------------------------
(* The sort: of each pair of positions the later entry goes to the front   *)
(* unless it is no smaller.                                                *)

Skip_Subsystem(a, b) == subsystem[a] <= subsystem[b]

Skip(a, b) == subsystem[a] < subsystem[b] \/ (subsystem[a] = subsystem[b] /\ Order[a] <= Order[b])

(* A round of the inner loop. *)
mi_startup_sort ==
    /\ xipp \in 1 .. Len(table)
    /\ table' = IF Skip(table[sipp], table[xipp]) THEN table
                ELSE [table EXCEPT ![sipp] = table[xipp], ![xipp] = table[sipp]]
    /\ xipp' = xipp + 1
    /\ UNCHANGED <<newtable, sipp, inside, subsystem, added, ran>>

(* The end of the inner loop, and of the outer one. *)
mi_startup_row ==
    /\ xipp > Len(table)
    /\ IF sipp < Len(table) THEN sipp' = sipp + 1 /\ xipp' = sipp + 2
                            ELSE sipp' = 1 /\ xipp' = 0
    /\ UNCHANGED <<table, newtable, inside, subsystem, added, ran>>

-----------------------------------------------------------------------------
(* The run.                                                                *)

Runs(e) == subsystem[e] \notin {SI_SUB_DUMMY, SI_SUB_DONE}

mi_startup_skip ==
    /\ xipp = 0 /\ sipp \in 1 .. Len(table) /\ ~ inside
    /\ ~ Runs(table[sipp])
    /\ sipp' = sipp + 1
    /\ UNCHANGED <<table, newtable, xipp, inside, subsystem, added, ran>>

mi_startup_call ==
    /\ xipp = 0 /\ sipp \in 1 .. Len(table) /\ ~ inside
    /\ Runs(table[sipp])
    /\ inside' = TRUE
    /\ ran' = Append(ran, table[sipp])
    /\ UNCHANGED <<table, newtable, sipp, xipp, subsystem, added>>

sysinit_add_ToTable(set) == newtable' = table \o set

(* The set goes behind the table that is to be run next. *)
sysinit_add(set) == newtable' = (IF newtable # << >> THEN newtable ELSE table) \o set

module_load(set) ==
    /\ inside /\ set \notin added
    /\ sysinit_add(set)
    /\ added' = added \cup {set}
    /\ UNCHANGED <<table, sipp, xipp, inside, subsystem, ran>>

(* The routine is checked off; when it added entries the whole table is    *)
(* sorted again and run from the start.                                    *)
mi_startup_return ==
    /\ inside
    /\ inside' = FALSE
    /\ subsystem' = [subsystem EXCEPT ![table[sipp]] = SI_SUB_DONE]
    /\ newtable' = << >>
    /\ IF newtable = << >>
       THEN sipp' = sipp + 1 /\ UNCHANGED <<table, xipp>>
       ELSE Restart(newtable)
    /\ UNCHANGED <<added, ran>>

-----------------------------------------------------------------------------
StartInit ==
    /\ table = << >> /\ newtable = << >>
    /\ sipp = 0 /\ xipp = 0 /\ inside = FALSE
    /\ subsystem = Subsystem
    /\ added = {} /\ ran = << >>

StartNext ==
    \/ mi_startup \/ mi_startup_sort \/ mi_startup_row
    \/ mi_startup_skip \/ mi_startup_call \/ mi_startup_return
    \/ \E set \in ModuleSets : module_load(set)

StartSpec == StartInit /\ [][StartNext]_startVars

-----------------------------------------------------------------------------
Registered == ToSet(Linked) \cup UNION {ToSet(s) : s \in added}

Before(a, b) == Subsystem[a] < Subsystem[b] \/ (Subsystem[a] = Subsystem[b] /\ Order[a] < Order[b])

(* No routine runs twice, though the table is sorted and started again     *)
(* whenever one adds entries, and none runs while an entry of the table    *)
(* that should be run before it waits (mi_startup).                        *)
OnceInOrder ==
    /\ IsInjective(ran)
    /\ inside => \A e \in ToSet(table) : Before(e, table[sipp]) /\ Subsystem[e] # SI_SUB_DUMMY => e \in ToSet(ran)

(* When mi_startup returns every entry that was linked or added has run,   *)
(* whichever routines added sets, and when one added several (sysinit_add). *)
NoneForgotten ==
    sipp > Len(table) /\ sipp > 0 /\ xipp = 0 =>
        \A e \in Registered : e \in ToSet(ran) <=> Subsystem[e] # SI_SUB_DUMMY

(* Every routine that is linked or added is run exactly once, in the order *)
(* of subsystem and order (mi_startup, sysinit_add).                       *)
StartedOnce == OnceInOrder /\ NoneForgotten
=============================================================================
