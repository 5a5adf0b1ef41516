---------------------------- MODULE ArgusContent ----------------------------
(* What the dashboard's tables, widgets and charts hold: the builders of      *)
(* voice-agent/argus_content.py under src/files/ai-platform. A builder is a   *)
(* function of the tool's result, a sequence; what it shows is the set of     *)
(* positions it takes from it. Names, PVs and groups are abstract values.     *)
EXTENDS Integers, Sequences, FiniteSets, Ranking

CONSTANTS
  MaxTableRows,   \* MAX_TABLE_ROWS
  MaxChartPoints, \* MAX_CHART_POINTS
  WidgetMap,      \* DEVGROUP_WIDGET_MAP
  ChartRole,      \* DEVGROUP_CHART_ROLE
  Motor,          \* the group "mot"
  Lower,          \* name.lower() of each name
  Strip,          \* name.strip() of each name
  Bpms,           \* the names with "bpm" in them
  Missing,        \* a field that is absent, None or empty
  DeviceLists,    \* results of list_beamline_devices
  IocLists,       \* results of list_iocs
  ChannelLists,   \* results of search_pvs: names
  SampleHistories \* results of get_history: values

ASSUME ContentAssumption ==
  /\ MaxTableRows \in Nat \ {0}
  /\ MaxChartPoints \in Nat \ {0, 1}
  /\ \A rows \in DeviceLists \union IocLists \union ChannelLists \union SampleHistories :
       rows \in Seq({rows[i] : i \in DOMAIN rows})

NothingToShow == [kind |-> "none", shown |-> {}, truncated |-> 0]

----------------------------------------------------------------------------
(* Tables.                                                                    *)

FirstRows(rows) == Kept(rows, InOrder(rows), MaxTableRows)

(* Mutant: what is cut is not counted.                                        *)
CutSilently(total, shown) == [kind |-> "table", shown |-> shown, truncated |-> 0]

Table(total, shown) ==
  [kind |-> "table", shown |-> shown, truncated |-> total - Cardinality(shown)]

(* A device needs a name and the prefix of its IOC.                           *)
Identified(device) == device.name # Missing /\ device.prefix # Missing

DevicesTable(devices) ==
  LET rows == {i \in DOMAIN devices : Identified(devices[i])}
  IN IF rows = {} THEN NothingToShow ELSE Table(Cardinality(rows), FirstRows(rows))

IocsTable(iocs) ==
  IF iocs = <<>> THEN NothingToShow ELSE Table(Len(iocs), FirstRows(DOMAIN iocs))

(* The first rows are taken, then those without a name are left out.          *)
PvsTable(channels) ==
  LET named == {i \in FirstRows(DOMAIN channels) : channels[i] # Missing}
  IN IF named = {} THEN NothingToShow ELSE Table(Len(channels), named)

----------------------------------------------------------------------------
(* Devices.                                                                   *)

(* resolve_device_pv_prefix                                                   *)
PvPrefix(name, prefix) == IF name \in Bpms THEN <<name>> ELSE <<prefix, name>>

(* build_widget_content, and the hint of a table's row.                       *)
NoWidget == <<>>

HasWidget(device) == Identified(device) /\ device.group \in DOMAIN WidgetMap

Widget(device) ==
  IF HasWidget(device) THEN <<WidgetMap[device.group], PvPrefix(device.name, device.prefix)>>
  ELSE NoWidget

(* Mutant: the row does without the rule for beam position monitors.          *)
RowWidgetByIoc(device) ==
  IF device.group \in DOMAIN WidgetMap THEN <<WidgetMap[device.group], <<device.prefix, device.name>>>>
  ELSE NoWidget

RowWidget(device) ==
  IF device.group \in DOMAIN WidgetMap THEN <<WidgetMap[device.group], PvPrefix(device.name, device.prefix)>>
  ELSE NoWidget

(* The catalog is keyed by the lower-case name as it stands, blanks included, *)
(* and of two equal keys the last device stays. lookup strips the name it is  *)
(* given, and returns the device of that key, or none.                        *)
Namesakes(devices, name) ==
  {i \in DOMAIN devices : devices[i].name # Missing /\ Lower[devices[i].name] = Lower[Strip[name]]}

CatalogEntry(devices, name) ==
  {i \in Namesakes(devices, name) : \A j \in Namesakes(devices, name) : j <= i}

(* resolve_chart_pv: the PVs of a device's trend, as <<prefix, suffix>>, or   *)
(* what key_pvs names.                                                        *)
TrendPvs(device) ==
  LET base == PvPrefix(device.name, device.prefix)
      role == ChartRole[device.group]
  IN IF ~Identified(device) THEN {}
     ELSE IF device.name \in Bpms THEN {<<base, "X">>, <<base, "Y">>}
     ELSE IF device.group \in DOMAIN ChartRole /\ role \in DOMAIN device.keyPvs THEN {device.keyPvs[role]}
     ELSE IF device.group = Motor THEN {<<base, "RBV">>}
     ELSE {}

----------------------------------------------------------------------------
(* Charts.                                                                    *)

(* Mutant: only the head of the samples is taken.                             *)
HeadOnly(total, below) == 1 .. MaxChartPoints

(* int(i * stride). stride is a float, so a product that is an integer may    *)
(* come out just below it: below is the set of those that do.                 *)
Sample(i, total, below) ==
  LET exact == (i * total) \div MaxChartPoints
  IN IF i \in below /\ i > 0 /\ (i * total) % MaxChartPoints = 0 THEN exact - 1 ELSE exact

(* _downsample, as positions 1 .. total: evenly spaced ones, and the last.    *)
Downsample(total, below) ==
  IF total <= MaxChartPoints THEN 1 .. total
  ELSE {1 + Sample(i, total, below) : i \in 0 .. MaxChartPoints - 2} \union {total}

(* Of the samples kept, those that have a time and a number are plotted.      *)
Series(samples, below) == {i \in Downsample(Len(samples), below) : samples[i] # Missing}

Chart(samples, below) ==
  LET plotted == Series(samples, below)
  IN IF plotted = {} THEN NothingToShow
     ELSE [kind |-> "chart", shown |-> plotted, truncated |-> Len(samples) - Cardinality(plotted)]

----------------------------------------------------------------------------
(* What is shown.                                                             *)

VARIABLE payload  \* the tool result that is shown: [kind, rows, below]

NoPayload == [kind |-> "none", rows |-> <<>>, below |-> {}]

ContentInit == payload = NoPayload

(* emit_content_for_tool has a tool's result; the float of the stride may     *)
(* round a product down or not.                                               *)
Emit(kind, rows, below) ==
  /\ payload = NoPayload
  /\ payload' = [kind |-> kind, rows |-> rows, below |-> below]

Emitted == payload # NoPayload /\ payload' = NoPayload

ContentNext ==
  \/ \E rows \in DeviceLists : Emit("devices", rows, {})
  \/ \E rows \in IocLists : Emit("iocs", rows, {})
  \/ \E rows \in ChannelLists : Emit("pvs", rows, {})
  \/ \E rows \in SampleHistories, below \in SUBSET (1 .. MaxChartPoints - 2) : Emit("chart", rows, below)
  \/ Emitted

ContentSpec == ContentInit /\ [][ContentNext]_payload

(* build_table_content and build_chart_content                                *)
Content ==
  CASE payload.kind = "devices" -> DevicesTable(payload.rows)
    [] payload.kind = "iocs" -> IocsTable(payload.rows)
    [] payload.kind = "pvs" -> PvsTable(payload.rows)
    [] payload.kind = "chart" -> Chart(payload.rows, payload.below)
    [] payload.kind = "none" -> NothingToShow

----------------------------------------------------------------------------
(* Properties.                                                                *)

Worth(i) ==
  CASE payload.kind = "devices" -> Identified(payload.rows[i])
    [] payload.kind = "iocs" -> TRUE
    [] OTHER -> payload.rows[i] # Missing

(* A table or chart that says nothing of a cut shows all there is to show; it *)
(* never shows what has no name or no value, and its size is bounded, so that *)
(* it fits a packet of the data channel (argus_content.py 113-117, 133-167,   *)
(* 193-276).                                                                  *)
SilentMeansComplete ==
  Content.kind # "none" =>
    /\ Content.truncated = 0 => \A i \in DOMAIN payload.rows : Worth(i) => i \in Content.shown
    /\ Content.truncated >= 0
    /\ \A i \in Content.shown : Worth(i)
    /\ Cardinality(Content.shown) <= IF Content.kind = "table" THEN MaxTableRows ELSE MaxChartPoints

(* However long the history, a trend spans all of it: it begins at the first  *)
(* sample, ends at the last, and skips less than two strides of samples       *)
(* anywhere (argus_content.py 113-122).                                       *)
TrendIsCovered ==
  payload.kind = "chart" /\ payload.rows # <<>> =>
    LET total == Len(payload.rows)
        taken == Downsample(total, payload.below)
    IN /\ {1, total} \subseteq taken /\ taken \subseteq 1 .. total
       /\ \A i \in taken :
            i = total \/ \E j \in taken : j > i /\ (j - i - 1) * MaxChartPoints < 2 * total

(* A row of the table names a device; a look up of that name in a catalog of  *)
(* the same devices opens the row's own widget, and a trend of its own PVs.   *)
(* It opens those of another device only if that one's name is the same but   *)
(* for case and the blanks around this one's, and stands later in the list    *)
(* unless there are such blanks; it finds nothing only if there are: a name   *)
(* that is kept with blanks is looked up without (argus_content.py 170-190,   *)
(* 328-351, 354-411).                                                         *)
WidgetsAgree ==
  payload.kind = "devices" =>
    \A i \in DevicesTable(payload.rows).shown :
      LET device(j) == payload.rows[j]
          hint(j) == IF Identified(device(j)) THEN RowWidget(device(j)) ELSE NoWidget
          blanks == Strip[device(i).name] # device(i).name
          found == CatalogEntry(payload.rows, device(i).name)
      IN /\ \/ found = {i}
            \/ found = {} /\ blanks
            \/ \E j \in Namesakes(payload.rows, device(i).name) : found = {j} /\ (j > i \/ blanks)
         /\ \A j \in found :
              /\ Widget(device(j)) = hint(j)
              /\ device(j).keyPvs = <<>> =>
                   \A pv \in TrendPvs(device(j)) : pv[1] = PvPrefix(device(j).name, device(j).prefix)
=============================================================================
