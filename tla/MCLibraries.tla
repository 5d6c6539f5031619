----------------------------- MODULE MCLibraries -----------------------------
(* The parts that share no state with the others, checked in one run: the   *)
(* EAP-NOOB machines over a lossy relay, the files of a starting process,   *)
(* the routing table with its setters, the JSON-RPC framing and the GPU     *)
(* collector.  A behaviour is about one of them; the others rest.           *)
EXTENDS EapConversation, Startup, RoutingTable, Framing, Telemetry

VARIABLE subject

\* What machine.rs builds: Server with with_server_info (dirs 2), Peer::default.
MCServerVersions == <<1>>
MCServerSuites   == <<2, 1>>
MCPeerVersions   == <<1>>
MCPeerSuites     == <<1, 2>>

\* Two nodes, one with a cluster directory, one with a data directory.
OwnDirs == [p \in Procs |-> p]

\* {} and a longer object
MCBodies == {<<123, 125>>, <<123, 97, 125>>}

\* Hosts: Linux with and without sysfs, and Windows, each with the tools that
\* may be installed there.
MCTools ==
    {ts \in SUBSET {"nvidia-smi", "nvidia-dynamic", "sysfs", "amd-static",
                    "amd-metric", "rocm-smi", "os"} :
        /\ ~({"sysfs", "os"} \subseteq ts)
        /\ "nvidia-dynamic" \in ts => "nvidia-smi" \in ts
        /\ "amd-metric" \in ts => "amd-static" \in ts}

\* rocm-smi does not know the integrated card 3.
MCKnows == [s \in Inventories |->
    CASE s = "nvidia-smi" -> {1, 4}
      [] s \in {"sysfs", "amd-static"} -> {2, 3}
      [] s = "rocm-smi" -> {2}
      [] s = "os" -> 1..5]

LInit ==
    /\ subject \in {"eap", "startup", "table", "framing", "telemetry"}
    /\ Init /\ StartupInit /\ TableInit
    /\ IF subject = "framing" THEN FramingInit
       ELSE /\ framing = "JsonLines" /\ stream = <<>> /\ closed = FALSE
            /\ lost = <<>> /\ sent = <<>> /\ got = <<>> /\ reader = "open"
            /\ tape = <<>> /\ cuts = <<0>>
    /\ IF subject = "telemetry" THEN TelemetryInit
       ELSE /\ present = {} /\ measured = {} /\ tools = {} /\ resets = 0
            /\ step = "nvidia-smi" /\ rows = <<>> /\ stat = <<>> /\ settled = TRUE

LNext ==
    /\ UNCHANGED subject
    /\ \/ subject = "eap" /\ Next /\ UNCHANGED <<svars, tvars, framed, telemetry>>
       \/ subject = "startup" /\ StartupNext /\ UNCHANGED <<vars, tvars, framed, telemetry>>
       \/ subject = "table" /\ TableNext /\ UNCHANGED <<vars, svars, framed, telemetry>>
       \/ subject = "framing" /\ FramingNext /\ UNCHANGED <<vars, svars, tvars, telemetry>>
       \/ subject = "telemetry" /\ TelemetryNext /\ UNCHANGED <<vars, svars, tvars, framed>>

LSpec == LInit /\ [][LNext]_<<subject, vars, svars, tvars, framed, telemetry>>
=============================================================================
