------------------------------ MODULE Telemetry ------------------------------
(***************************************************************************)
(* GPU inventory and telemetry: crates/pair-nodeinfo (lib.rs, nvidia.rs,   *)
(* amd.rs, gpu_os.rs).  The collector runs one tool after the other; cards *)
(* may leave or come back in between (a driver reset, a hot-plug).  Tools  *)
(* number the cards they list from 0; nvidia-smi also gives each its uuid. *)
(* Names, sizes and units are left out: a row of a report is the card it   *)
(* describes, the vendor it is filed under and the card its live values    *)
(* were measured on.                                                       *)
(***************************************************************************)
EXTENDS Integers, SequencesExt

CONSTANTS
    Nvidia, Amd, Others,    \* cards by vendor; only the OS lists the others
    Knows,                  \* the cards each inventory can see at all
    Tools,                  \* the sets of working sources to consider
    MaxResets               \* bound on cards leaving and coming back

Sources == {"nvidia-smi", "nvidia-dynamic", "sysfs", "amd-static", "amd-metric",
            "rocm-smi", "os"}
Inventories == Sources \ {"nvidia-dynamic", "amd-metric"}
Cards == Nvidia \cup Amd \cup Others
NoCard == 0

ASSUME TelemetryAssumption ==
    /\ Cards \subseteq Nat \ {NoCard} /\ IsFiniteSet(Cards)
    /\ Nvidia \cap Amd = {} /\ Others \cap (Nvidia \cup Amd) = {}
    /\ Knows \in [Inventories -> SUBSET Cards]
    /\ Knows["nvidia-smi"] \subseteq Nvidia
    /\ \A s \in {"sysfs", "amd-static", "rocm-smi"} : Knows[s] \subseteq Amd
    /\ Tools \subseteq SUBSET Sources /\ MaxResets \in Nat

VARIABLES
    present,    \* the cards the drivers know
    measured,   \* those whose live values can be read ("[N/A]" otherwise)
    tools,      \* the sources that work on this host
    resets,
    step,       \* the next command of the collector
    rows,       \* the rows collected so far
    stat,       \* amd-smi static's list
    settled     \* no card left or came back since the collector began

hardware == <<present, measured, tools>>
telemetry == <<hardware, resets, step, rows, stat, settled>>

-----------------------------------------------------------------------------
\* A set of cards in order: each at the place its rank gives it.
InOrder(cards) ==
    [k \in 1..Cardinality(cards) |->
        CHOOSE c \in cards : Cardinality({d \in cards : d <= c}) = k]

\* What a tool lists: the cards it can see that are present, in order.  A
\* vendor's tools need not know all its cards (an integrated one, an old one).
Listing(cards) == InOrder(cards \cap present)

\* GpuVendor::from_pci_id and vendor_from_pnp, on the card's PCI id.
Vendor(c) ==
    IF c \in Nvidia THEN "Nvidia" ELSE IF c \in Amd THEN "Amd" ELSE "Other"

Row(c, metric) == [card |-> c, vendor |-> Vendor(c), metric |-> metric]
Bare(cs) == [k \in DOMAIN cs |-> Row(cs[k], NoCard)]
Reading(c) == IF c \in measured THEN c ELSE NoCard

\* parse_dynamic and merge: values are found by uuid.
merge(rs, dynamic) ==
    [k \in DOMAIN rs |->
        IF rs[k].card \in ToSet(dynamic)
        THEN [rs[k] EXCEPT !.metric = Reading(rs[k].card)] ELSE rs[k]]

\* Counts the metrics from 1.
parse_amd_smi_off_by_one(st, metrics) ==
    [k \in DOMAIN st |->
        Row(st[k], IF k + 1 \in DOMAIN metrics THEN Reading(metrics[k + 1])
                   ELSE NoCard)]

\* parse_amd_smi: values are found by the index both listings give.
parse_amd_smi(st, metrics) ==
    [k \in DOMAIN st |->
        Row(st[k], IF k \in DOMAIN metrics THEN Reading(metrics[k]) ELSE NoCard)]

\* One listing that carries its own live values: detect_sysfs and
\* parse_rocm_smi_json.
WithMetrics(cs) == [k \in DOMAIN cs |-> Row(cs[k], Reading(cs[k]))]

\* Adds everything the OS lists.
fill_all(rs) == rs \o Bare(Listing(Knows["os"]))

\* detect_gpus: the OS inventory fills in the vendors no tool has reported.
fill(rs) ==
    LET covered == {r.vendor : r \in ToSet(rs)}
    IN  rs \o Bare(Listing({c \in Knows["os"] : Vendor(c) \notin covered}))

-----------------------------------------------------------------------------
TelemetryInit ==
    /\ present \in SUBSET Cards /\ measured \in SUBSET Cards
    /\ tools \in Tools
    /\ resets = 0 /\ step = "nvidia-smi" /\ rows = <<>> /\ stat = <<>>
    /\ settled = TRUE

\* A card leaves or comes back.
Reset(c) ==
    /\ resets < MaxResets /\ step # "done"
    /\ resets' = resets + 1
    /\ present' = IF c \in present THEN present \ {c} ELSE present \cup {c}
    /\ settled' = FALSE
    /\ UNCHANGED <<measured, tools, step, rows, stat>>

Collected(new, next) ==
    /\ rows' = new /\ step' = next
    /\ UNCHANGED <<hardware, resets, stat, settled>>

\* nvidia::detect, its two commands.
NvidiaStatic ==
    /\ step = "nvidia-smi"
    /\ IF "nvidia-smi" \in tools
       THEN Collected(Bare(Listing(Knows["nvidia-smi"])), "nvidia-dynamic")
       ELSE Collected(<<>>, "sysfs")

NvidiaDynamic ==
    /\ step = "nvidia-dynamic"
    /\ Collected(IF "nvidia-dynamic" \in tools
                 THEN merge(rows, Listing(Knows["nvidia-smi"])) ELSE rows, "sysfs")

\* amd::detect: sysfs, and the tools when it shows no card.
AmdSysfs ==
    /\ step = "sysfs"
    /\ IF "sysfs" \in tools /\ Listing(Knows["sysfs"]) # <<>>
       THEN Collected(rows \o WithMetrics(Listing(Knows["sysfs"])), "os")
       ELSE Collected(rows, "amd-static")

\* detect_tools: both amd-smi commands run before either output is parsed.
AmdStatic ==
    /\ step = "amd-static"
    /\ stat' = IF "amd-static" \in tools THEN Listing(Knows["amd-static"]) ELSE <<>>
    /\ step' = "amd-metric"
    /\ UNCHANGED <<hardware, resets, rows, settled>>

AmdMetric ==
    /\ step = "amd-metric"
    /\ LET metrics == IF "amd-metric" \in tools THEN Listing(Knows["amd-static"])
                      ELSE <<>>
       IN  IF stat # <<>> THEN Collected(rows \o parse_amd_smi(stat, metrics), "os")
           ELSE Collected(rows, "rocm-smi")

RocmSmi ==
    /\ step = "rocm-smi"
    /\ Collected(IF "rocm-smi" \in tools
                 THEN rows \o WithMetrics(Listing(Knows["rocm-smi"])) ELSE rows, "os")

\* os_gpus: Win32_VideoController or system_profiler; nothing on Linux.
OsInventory ==
    /\ step = "os"
    /\ Collected(IF "os" \in tools THEN fill(rows) ELSE rows, "done")

TelemetryNext ==
    \/ \E c \in Cards : Reset(c)
    \/ NvidiaStatic \/ NvidiaDynamic \/ AmdSysfs \/ AmdStatic \/ AmdMetric
    \/ RocmSmi \/ OsInventory

TelemetrySpec == TelemetryInit /\ [][TelemetryNext]_telemetry

-----------------------------------------------------------------------------
(* Properties.                                                             *)

\* Live values belong to the card they are reported for: always where the two
\* nvidia-smi listings are joined by uuid and where one listing has both; where
\* the two amd-smi listings are joined by index (amd.rs:139), as long as no
\* card left or came back since the collector began.
MetricsOfSameCard ==
    \A r \in ToSet(rows) :
        r.metric # NoCard /\ (settled \/ r.vendor # "Amd" \/ stat = <<>>) =>
            r.metric = r.card

\* The cards of a vendor that a source shows.
Shown(s, v) ==
    {c \in Knows[s] \cap present : s \in tools /\ Vendor(c) = v}
ReportOf(v) == {r.card : r \in {q \in ToSet(rows) : q.vendor = v}}

\* No card is reported twice and, when nothing changed meanwhile, the cards of
\* each vendor are all those that one of its sources shows, and they are
\* missing only if no working source shows any: one vendor's silence never
\* hides another vendor, and lists of two sources are never mixed (lib.rs:18-26).
\* A card only the OS shows is lost when a tool shows another of its vendor,
\* although the OS inventory "fills GPUs that no vendor tool reported" (lib.rs:18).
EachCardOnce ==
    step = "done" =>
        /\ \A j, k \in DOMAIN rows : rows[j].card = rows[k].card => j = k
        /\ settled => \A v \in {"Nvidia", "Amd", "Other"} :
              \E s \in Inventories :
                  /\ ReportOf(v) = Shown(s, v)
                  /\ Shown(s, v) = {} => \A t \in Inventories : Shown(t, v) = {}
=============================================================================
