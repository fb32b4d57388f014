----------------------------- MODULE TempSensor -----------------------------
(***************************************************************************)
(* The temperature-sensor driver, components/esp_driver_tsens/src/         *)
(* temperature_sensor.c: install / uninstall, enable / disable,            *)
(* get_celsius, the threshold setters, callback registration and the       *)
(* threshold ISR, over the one sensor peripheral and the heap the driver   *)
(* allocates from.                                                         *)
(*                                                                         *)
(* Application tasks call the API; install and uninstall are split at the  *)
(* points where another task or the ISR can observe a half-done call, and  *)
(* register_callbacks at every store the ISR reads.  The ISR is a separate *)
(* actor in two steps, split between the NULL test of threshold_cbs and    *)
(* the call: on a single-core chip an enabled pending interrupt is taken   *)
(* and runs to its end before the task runs again, on a dual-core chip     *)
(* the handler runs concurrently with the task.                            *)
(* Temperatures are abstracted to the range index the hardware is in and   *)
(* to whether a reading is inside the measurable range.                    *)
(***************************************************************************)
EXTENDS Integers, FiniteSets, Sequences, SequencesExt

CONSTANTS
  Tasks,            \* application tasks calling the driver
  Objs,             \* heap blocks that can hold a temperature_sensor_obj_t
  Copies,           \* heap blocks that can hold s_tsens_attribute_copy
  Attrs,            \* temperature_sensor_attributes[]: index -> record
  CfgRanges,        \* [range_min, range_max] requests passed to install
  ClkSrcs,          \* clock sources a config can name (NULL is 0, unset)
  ClkDefault,       \* TEMPERATURE_SENSOR_CLK_SRC_DEFAULT
  ClkRcFast,        \* TEMPERATURE_SENSOR_CLK_SRC_RC_FAST
  Callbacks,        \* on_threshold functions
  Args,             \* user_arg pointers
  SleepRetention,   \* SOC_TEMPERATURE_SENSOR_SUPPORT_SLEEP_RETENTION
  SingleCore,       \* a pending enabled interrupt preempts the task
  IntrFreeMayFail,  \* esp_intr_free can return an error
  ResetIdx,         \* range index the hardware starts in
  NULL, FREED

ASSUME /\ Tasks # {} /\ Objs # {} /\ Copies # {}
       /\ ClkDefault \in ClkSrcs /\ ClkRcFast \in ClkSrcs
       /\ NULL \notin ClkSrcs \cup Callbacks \cup Args
       /\ SleepRetention \in BOOLEAN /\ SingleCore \in BOOLEAN
       /\ IntrFreeMayFail \in BOOLEAN

Idx == DOMAIN Attrs

ASSUME ResetIdx \in Idx

VARIABLES
  pc, cur, req,            \* per task: call in progress, its tsens, its input
  heap,                    \* objects allocated by heap_caps_calloc
  tsens,                   \* Objs -> the temperature_sensor_obj_t fields
  handles,                 \* objects returned through *ret_tsens, not freed
  sCopy,                   \* s_tsens_attribute_copy
  heapCopy,                \* Copies -> sorted table, or FREED
  power,                   \* temperature_sensor_power_acquire reference count
  clk8m,                   \* periph_rtc_dig_clk8m_enable reference count
  retention,               \* sleep-retention module: uninit / inited / created
  deltaT,                  \* s_deltaT: "unset" (INT_MIN) or "loaded"
  hwIdx,                   \* range the sensor hardware measures in (s_tsens_idx)
  hwClk,                   \* clock selected by temperature_sensor_ll_clk_sel
  sampling,                \* wakeup and sample enable
  intEna,                  \* threshold interrupt enable
  pending,                 \* raw threshold interrupt status
  wakeMode,                \* threshold mode: "none", "abs" or "delta"
  fault,                   \* undefined behaviour observed (history)
  lastCb,                  \* the last <<callback, user_arg>> the ISR invoked
  registered,              \* every <<callback, user_arg>> registered together
  isrAt,                   \* the object whose callback the ISR is calling, or NULL
  isrCb                    \* the threshold_cbs pointer the ISR loaded at line 96

taskVars == <<pc, cur, req>>
memVars  == <<heap, tsens, handles, sCopy, heapCopy>>
sysVars  == <<power, clk8m, retention, deltaT>>
hwVars   == <<hwIdx, hwClk, sampling, intEna, pending, wakeMode>>
isrVars  == <<isrAt, isrCb>>
ghost    == <<fault, lastCb, registered>>
vars     == <<taskVars, memVars, sysVars, hwVars, isrVars, ghost>>

-----------------------------------------------------------------------------
(* Attribute table.                                                        *)

\* Mutant: the comparator inverted, sorting the least accurate range first.
AccuracyReversed(a, b) == Attrs[a].error_max >= Attrs[b].error_max

\* accuracy_compare: -1 when p1.error_max < p2.error_max, else 1; never 0,
\* so qsort may leave entries of equal error_max in either order.
AccuracyOrdered(a, b) == Attrs[a].error_max <= Attrs[b].error_max

\* The orders of the entries in S that a sort by AccuracyOrdered can
\* leave: first any entry no other entry must precede, then the rest.
RECURSIVE SortedOrders(_)
SortedOrders(S) ==
  IF S = {} THEN {<<>>}
  ELSE UNION {{<<k>> \o rest : rest \in SortedOrders(S \ {k})} :
                k \in {k \in S : \A j \in S : AccuracyOrdered(k, j)}}

\* temperature_sensor_attribute_table_sort: the copies qsort can produce.
TableSortOrders == SortedOrders(Idx)

\* temperature_sensor_choose_best_range: position in the sorted copy of the
\* first range containing the requested one, 0 when none does.
ChooseBestRange(ord, r) ==
  SelectInSeq(ord, LAMBDA k : /\ r.min >= Attrs[k].range_min
                              /\ r.max <= Attrs[k].range_max)

\* s_update_tsens_attribute: position in the copy whose reg_val is the
\* offset the hardware reports, 0 when none matches.
UpdateTsensAttribute(ord, idx) ==
  SelectInSeq(ord, LAMBDA k : Attrs[k].reg_val = Attrs[idx].reg_val)

\* The attribute a tsens_attribute pointer designates, and whether the
\* table copy it points into has been freed.
AttrOf(o)    == heapCopy[tsens[o].attr[1]][tsens[o].attr[2]]
AttrFreed(o) == tsens[o].attr # NULL /\ heapCopy[tsens[o].attr[1]] = FREED

\* heap_caps_calloc: every field zero.
CallocObj == [fsm |-> "INIT", clk |-> NULL, attr |-> NULL, isr |-> FALSE,
              cb |-> NULL, arg |-> NULL, cfgClk |-> NULL]

\* Per-task call arguments; ReqNone between calls.
ReqNone == [min |-> 0, max |-> 0, pd |-> FALSE, cb |-> NULL, arg |-> NULL]

FreeCopies == {c \in Copies : heapCopy[c] = FREED
                 /\ \A o \in heap : tsens[o].attr = NULL \/ tsens[o].attr[1] # c}

-----------------------------------------------------------------------------
(* Scheduling.                                                             *)

IrqRaised == pending /\ intEna /\ \E o \in heap : tsens[o].isr

\* A task runs only when no interrupt is waiting to preempt it and the
\* handler is not half way through.
TaskMayRun == SingleCore => ~IrqRaised /\ isrAt = NULL

\* The application does not call into a handle another task is using.
Busy(o) == \E t \in Tasks : pc[t] # "idle" /\ cur[t] = o

Ready(t, o) == /\ TaskMayRun /\ pc[t] = "idle"
               /\ o \in handles /\ ~Busy(o)

-----------------------------------------------------------------------------
\* Mutant: uninstall forgets temperature_sensor_power_release.
ReleaseObjKeepPower(o) ==
  /\ intEna' = FALSE
  /\ retention' = "uninit"
  /\ power' = power
  /\ heap' = heap \ {o}
  /\ handles' = handles \ {o}
  /\ tsens' = [tsens EXCEPT ![o] = CallocObj]

\* Mutant: the power reference released twice.
ReleaseObjDoubleRelease(o) ==
  /\ intEna' = FALSE
  /\ retention' = "uninit"
  /\ power' = power - 2
  /\ heap' = heap \ {o}
  /\ handles' = handles \ {o}
  /\ tsens' = [tsens EXCEPT ![o] = CallocObj]

(* temperature_sensor_uninstall after its copy is freed (lines 198-222),   *)
(* on success: interrupt off, retention module freed and deinitialised,    *)
(* power released, object freed.                                           *)
ReleaseObj(o) ==
  /\ intEna' = FALSE
  /\ retention' = "uninit"
  /\ power' = power - 1
  /\ heap' = heap \ {o}
  /\ handles' = handles \ {o}
  /\ tsens' = [tsens EXCEPT ![o] = CallocObj]

\* Lines 193-196: free the global table copy and clear the pointer.
FreeGlobalCopy ==
  /\ heapCopy' = IF sCopy # NULL THEN [heapCopy EXCEPT ![sCopy] = FREED]
                                 ELSE heapCopy
  /\ sCopy' = NULL

\* temperature_sensor_install up to the allocation and flag checks
\* (lines 128-147).  A NULL-config, already-installed or calloc failure
\* returns without a state change.  The zeroed tsens->clk_src is tested in
\* place of the config's, so the default clock is always chosen.  Without
\* sleep retention, allow_pd returns ESP_ERR_NOT_SUPPORTED with tsens
\* still allocated.
InstallBegin(t) ==
  /\ TaskMayRun /\ pc[t] = "idle"
  /\ sCopy = NULL
  /\ \E o \in Objs \ heap, r \in CfgRanges, clk \in ClkSrcs \cup {NULL},
        pd \in BOOLEAN :
       /\ heap' = heap \cup {o}
       /\ tsens' = [tsens EXCEPT ![o] = [CallocObj EXCEPT
                       !.clk = IF CallocObj.clk = NULL THEN ClkDefault ELSE clk,
                       !.cfgClk = clk]]
       /\ IF ~SleepRetention /\ pd
            THEN UNCHANGED taskVars
            ELSE /\ pc' = [pc EXCEPT ![t] = "install"]
                 /\ cur' = [cur EXCEPT ![t] = o]
                 /\ req' = [req EXCEPT ![t] = [ReqNone EXCEPT !.min = r.min,
                                                   !.max = r.max, !.pd = pd]]
  /\ UNCHANGED <<handles, sCopy, heapCopy, sysVars, hwVars, ghost, isrVars>>

\* sleep_retention_module_init (lines 153-160): the module becomes inited
\* unless the call fails (or it already is), which is only a warning.
RetentionInit(initOk) ==
  IF retention = "uninit" /\ initOk THEN "inited" ELSE retention

\* temperature_sensor_create_retention_module (lines 116-125): allocation,
\* whose create callback s_temperature_sensor_sleep_retention_init (lines
\* 108-114) builds the register link list, is tried only for an inited
\* module not yet created; its failure is only a warning.
CreateRetentionModule(ret, allocOk) ==
  IF ret = "inited" /\ allocOk THEN "created" ELSE ret

\* Rest of temperature_sensor_install (lines 149-186): sleep-retention
\* init and create, power and clock, table sort (malloc may fail, the
\* pointer is overwritten first), range choice, hardware range.  On error
\* the goto calls temperature_sensor_uninstall on the new object.
InstallFinish(t) ==
  LET o == cur[t]  r == req[t] IN
  /\ TaskMayRun /\ pc[t] = "install"
  /\ \E initOk, created \in BOOLEAN, c \in FreeCopies \cup {NULL},
        ord \in TableSortOrders :
       LET retInit == RetentionInit(initOk)
           retOk   == IF r.pd THEN CreateRetentionModule(retInit, created)
                              ELSE retInit
           pos     == IF c = NULL THEN 0 ELSE ChooseBestRange(ord, r)
       IN
       /\ hwClk' = tsens[o].clk
       /\ pc' = [pc EXCEPT ![t] = "idle"]
       /\ req' = [req EXCEPT ![t] = ReqNone]
       /\ IF pos # 0
            THEN /\ sCopy' = c
                 /\ heapCopy' = [heapCopy EXCEPT ![c] = ord]
                 /\ tsens' = [tsens EXCEPT ![o].attr = <<c, pos>>]
                 /\ hwIdx' = ord[pos]
                 /\ handles' = handles \cup {o}
                 /\ retention' = IF SleepRetention THEN retOk ELSE retention
                 /\ power' = power + 1
                 /\ UNCHANGED <<heap, intEna>>
            ELSE \* err: uninstall frees the copy just allocated (or NULL)
                 /\ sCopy' = NULL
                 /\ intEna' = FALSE
                 /\ retention' = IF SleepRetention THEN "uninit" ELSE retention
                 /\ heap' = heap \ {o}
                 /\ tsens' = [tsens EXCEPT ![o] = CallocObj]
                 /\ UNCHANGED <<hwIdx, handles, power, heapCopy>>
  /\ UNCHANGED <<cur, clk8m, deltaT, sampling, pending, wakeMode, ghost, isrVars>>

\* temperature_sensor_uninstall, lines 188-196: a handle in INIT state;
\* the global table copy is freed while the interrupt is still enabled.
UninstallBegin(t, o) ==
  /\ Ready(t, o) /\ tsens[o].fsm = "INIT"
  /\ FreeGlobalCopy
  /\ pc' = [pc EXCEPT ![t] = "uninstall"]
  /\ cur' = [cur EXCEPT ![t] = o]
  /\ UNCHANGED <<req, heap, tsens, handles, sysVars, hwVars, ghost, isrVars>>

\* Lines 198-222: the interrupt is disabled; a failing esp_intr_free
\* returns its error with the copy already freed and the object, the
\* power reference and the retention module kept.  esp_intr_free does
\* not return while the handler is running on the other core.
UninstallFinish(t) ==
  LET o == cur[t] IN
  /\ TaskMayRun /\ pc[t] = "uninstall"
  /\ isrAt # o
  /\ pc' = [pc EXCEPT ![t] = "idle"]
  /\ \/ /\ tsens[o].isr /\ IntrFreeMayFail
        /\ intEna' = FALSE
        /\ UNCHANGED <<heap, tsens, handles, power, retention>>
     \/ ReleaseObj(o)
  /\ UNCHANGED <<cur, req, sCopy, heapCopy, clk8m, deltaT, hwIdx, hwClk,
                 sampling, pending, wakeMode, ghost, isrVars>>

\* temperature_sensor_enable (lines 239-261).
Enable(t, o) ==
  /\ Ready(t, o) /\ tsens[o].fsm = "INIT"
  /\ clk8m' = IF tsens[o].clk = ClkRcFast THEN clk8m + 1 ELSE clk8m
  /\ sampling' = TRUE
  /\ tsens' = [tsens EXCEPT ![o].fsm = "ENABLE"]
  /\ UNCHANGED <<taskVars, heap, handles, sCopy, heapCopy, power, retention,
                 deltaT, hwIdx, hwClk, intEna, pending, wakeMode, ghost, isrVars>>

\* temperature_sensor_disable (lines 263-281); the interrupt enable and a
\* raw status already latched are left as they are.
Disable(t, o) ==
  /\ Ready(t, o) /\ tsens[o].fsm = "ENABLE"
  /\ sampling' = FALSE
  /\ clk8m' = IF tsens[o].clk = ClkRcFast THEN clk8m - 1 ELSE clk8m
  /\ tsens' = [tsens EXCEPT ![o].fsm = "INIT"]
  /\ UNCHANGED <<taskVars, heap, handles, sCopy, heapCopy, power, retention,
                 deltaT, hwIdx, hwClk, intEna, pending, wakeMode, ghost, isrVars>>

\* temperature_sensor_get_celsius (lines 302-319) with
\* parse_temp_sensor_raw_value (293-300, loads s_deltaT on first use) and
\* s_update_tsens_attribute (225-237, reads the global copy).  The raw read
\* may switch the hardware to another range (range_changed); a value outside
\* the measurable range returns ESP_FAIL before the attribute is refreshed.
GetCelsius(t, o) ==
  /\ Ready(t, o) /\ tsens[o].fsm = "ENABLE"
  /\ \E idx \in Idx, inRange \in BOOLEAN :
       LET pos == IF sCopy = NULL THEN 0
                  ELSE UpdateTsensAttribute(heapCopy[sCopy], idx)
       IN
       /\ hwIdx' = idx
       /\ deltaT' = "loaded"
       /\ IF inRange /\ idx # hwIdx
            THEN /\ fault' = IF sCopy = NULL THEN fault \cup {"null_deref"}
                                             ELSE fault
                 /\ tsens' = IF pos # 0
                               THEN [tsens EXCEPT ![o].attr = <<sCopy, pos>>]
                               ELSE tsens
            ELSE UNCHANGED <<fault, tsens>>
  /\ UNCHANGED <<taskVars, heap, handles, sCopy, heapCopy, power, clk8m,
                 retention, hwClk, sampling, intEna, pending, wakeMode,
                 lastCb, registered, isrVars>>

FaultIfFreed(o) == IF AttrFreed(o) THEN fault \cup {"use_after_free"}
                                   ELSE fault

\* temperature_sensor_set_absolute_threshold (lines 333-346): the Celsius
\* thresholds are converted with the attribute's offset
\* (s_temperature_celsius_2_regval, 323-326); threshold values are not
\* modelled, only the read of the attribute.
SetAbsoluteThreshold(t, o) ==
  /\ Ready(t, o) /\ tsens[o].fsm = "INIT"
  /\ wakeMode' = "abs"
  /\ fault' = FaultIfFreed(o)
  /\ UNCHANGED <<taskVars, memVars, sysVars, hwIdx, hwClk, sampling, intEna,
                 pending, lastCb, registered, isrVars>>

\* temperature_sensor_set_delta_threshold (lines 348-361): the deltas do
\* not depend on the offset.
SetDeltaThreshold(t, o) ==
  /\ Ready(t, o) /\ tsens[o].fsm = "INIT"
  /\ wakeMode' = "delta"
  /\ UNCHANGED <<taskVars, memVars, sysVars, hwIdx, hwClk, sampling, intEna,
                 pending, ghost, isrVars>>

\* temperature_sensor_register_callbacks, lines 363-392: the interrupt is
\* allocated once (a failure is returned, but the rest still runs), then
\* enabled for a callback or disabled for NULL.
RegisterBegin(t, o) ==
  /\ Ready(t, o) /\ tsens[o].fsm = "INIT"
  /\ \E cb \in Callbacks \cup {NULL}, arg \in Args \cup {NULL},
        allocOk \in BOOLEAN :
       /\ tsens' = [tsens EXCEPT ![o].isr = @ \/ allocOk]
       /\ intEna' = (cb # NULL)
       /\ IF cb # NULL
            THEN /\ pc' = [pc EXCEPT ![t] = "reg_clear"]
                 /\ cur' = [cur EXCEPT ![t] = o]
                 /\ req' = [req EXCEPT ![t] = [ReqNone EXCEPT !.cb = cb,
                                                              !.arg = arg]]
                 /\ registered' = registered \cup {<<cb, arg>>}
            ELSE UNCHANGED <<taskVars, registered>>
  /\ UNCHANGED <<heap, handles, sCopy, heapCopy, sysVars, hwIdx, hwClk,
                 sampling, pending, wakeMode, fault, lastCb, isrVars>>

\* Line 393: temperature_sensor_ll_clear_intr.
RegisterClear(t) ==
  /\ TaskMayRun /\ pc[t] = "reg_clear"
  /\ pending' = FALSE
  /\ pc' = [pc EXCEPT ![t] = "reg_cb"]
  /\ UNCHANGED <<cur, req, memVars, sysVars, hwIdx, hwClk, sampling, intEna,
                 wakeMode, ghost, isrVars>>

\* Line 394: tsens->threshold_cbs = cbs->on_threshold.
RegisterSetCb(t) ==
  /\ TaskMayRun /\ pc[t] = "reg_cb"
  /\ tsens' = [tsens EXCEPT ![cur[t]].cb = req[t].cb]
  /\ pc' = [pc EXCEPT ![t] = "reg_arg"]
  /\ UNCHANGED <<cur, req, heap, handles, sCopy, heapCopy, sysVars, hwVars,
                 ghost, isrVars>>

\* Line 395: tsens->cb_user_arg = user_arg; the call returns.
RegisterSetArg(t) ==
  /\ TaskMayRun /\ pc[t] = "reg_arg"
  /\ tsens' = [tsens EXCEPT ![cur[t]].arg = req[t].arg]
  /\ pc' = [pc EXCEPT ![t] = "idle"]
  /\ req' = [req EXCEPT ![t] = ReqNone]
  /\ UNCHANGED <<cur, heap, handles, sCopy, heapCopy, sysVars, hwVars, ghost,
                 isrVars>>

\* Mutant: the handler does not clear the raw interrupt status.
IsrEntryNoClear(o) ==
  /\ IrqRaised /\ isrAt = NULL /\ o \in heap /\ tsens[o].isr
  /\ fault' = FaultIfFreed(o)
  /\ isrAt' = IF tsens[o].cb # NULL THEN o ELSE NULL
  /\ isrCb' = tsens[o].cb
  /\ UNCHANGED <<taskVars, memVars, sysVars, hwVars, lastCb, registered>>

\* temperature_sensor_isr (lines 86-96), registered with arg o: clears
\* the interrupt, converts the raw value with tsens->tsens_attribute
\* (s_temperature_regval_2_celsius, 328-331) and loads threshold_cbs for
\* the NULL test.  With no callback the handler returns here.
IsrEntry(o) ==
  /\ IrqRaised /\ isrAt = NULL /\ o \in heap /\ tsens[o].isr
  /\ pending' = FALSE
  /\ fault' = FaultIfFreed(o)
  /\ isrAt' = IF tsens[o].cb # NULL THEN o ELSE NULL
  /\ isrCb' = tsens[o].cb
  /\ UNCHANGED <<taskVars, memVars, sysVars, hwIdx, hwClk, sampling, intEna,
                 wakeMode, lastCb, registered>>

\* Line 97: the call.  Its target is the pointer tested at line 96 or a
\* reload of threshold_cbs (the compiler may do either), its user_arg a
\* load of cb_user_arg made now; a task on the other core can have
\* stored either field in between.
IsrCall ==
  LET o == isrAt IN
  /\ o # NULL
  /\ \E f \in {isrCb, tsens[o].cb} \ {NULL} :
       lastCb' = <<f, tsens[o].arg>>
  /\ fault' = IF o \in heap THEN fault ELSE fault \cup {"use_after_free"}
  /\ isrAt' = NULL
  /\ isrCb' = NULL
  /\ UNCHANGED <<taskVars, memVars, sysVars, hwVars, registered>>

\* The sensor, while sampling, latches a threshold interrupt.
HwThreshold ==
  /\ sampling /\ ~pending
  /\ pending' = TRUE
  /\ UNCHANGED <<taskVars, memVars, sysVars, hwIdx, hwClk, sampling, intEna,
                 wakeMode, ghost, isrVars>>

-----------------------------------------------------------------------------
Init ==
  /\ pc = [t \in Tasks |-> "idle"]
  /\ cur = [t \in Tasks |-> NULL]
  /\ req = [t \in Tasks |-> ReqNone]
  /\ heap = {}
  /\ tsens = [o \in Objs |-> CallocObj]
  /\ handles = {}
  /\ sCopy = NULL
  /\ heapCopy = [c \in Copies |-> FREED]
  /\ power = 0
  /\ clk8m = 0
  /\ retention = "uninit"
  /\ deltaT = "unset"
  /\ hwIdx = ResetIdx
  /\ hwClk = ClkDefault
  /\ sampling = FALSE
  /\ intEna = FALSE
  /\ pending = FALSE
  /\ wakeMode = "none"
  /\ fault = {}
  /\ lastCb = NULL
  /\ registered = {}
  /\ isrAt = NULL
  /\ isrCb = NULL

Next ==
  \/ \E t \in Tasks :
       \/ InstallBegin(t) \/ InstallFinish(t) \/ UninstallFinish(t)
       \/ RegisterClear(t) \/ RegisterSetCb(t) \/ RegisterSetArg(t)
       \/ \E o \in Objs :
            \/ UninstallBegin(t, o) \/ Enable(t, o) \/ Disable(t, o)
            \/ GetCelsius(t, o) \/ RegisterBegin(t, o)
            \/ SetAbsoluteThreshold(t, o) \/ SetDeltaThreshold(t, o)
  \/ \E o \in Objs : IsrEntry(o)
  \/ IsrCall
  \/ HwThreshold

\* The steps that finish a call a task has begun.
Finish(t) == \/ InstallFinish(t) \/ UninstallFinish(t)
             \/ RegisterClear(t) \/ RegisterSetCb(t) \/ RegisterSetArg(t)

\* A raised, allocated interrupt is dispatched and a handler that has
\* begun runs to its end (weak fairness: both stay enabled until taken).
\* A task inside a driver call runs again
\* between interrupts, which the sensor latches at its sampling period,
\* so a step enabled again and again is taken (strong fairness).  The
\* application starting calls and the sensor latching are not fair.
Fairness == /\ WF_vars(\E o \in Objs : IsrEntry(o))
            /\ WF_vars(IsrCall)
            /\ \A t \in Tasks : SF_vars(Finish(t))

Spec == Init /\ [][Next]_vars /\ Fairness

-----------------------------------------------------------------------------
(* Properties.                                                             *)

Pointer == (Copies \X Idx) \cup {NULL}

TypeOK ==
  /\ pc \in [Tasks -> {"idle", "install", "uninstall",
                       "reg_clear", "reg_cb", "reg_arg"}]
  /\ cur \in [Tasks -> Objs \cup {NULL}]
  /\ heap \subseteq Objs /\ handles \subseteq heap
  /\ tsens \in [Objs -> [fsm : {"INIT", "ENABLE"}, clk : ClkSrcs \cup {NULL},
                         attr : Pointer, isr : BOOLEAN,
                         cb : Callbacks \cup {NULL}, arg : Args \cup {NULL},
                         cfgClk : ClkSrcs \cup {NULL}]]
  /\ sCopy \in Copies \cup {NULL}
  /\ heapCopy \in [Copies -> TableSortOrders \cup {FREED}]
  /\ power \in Nat /\ clk8m \in Nat
  /\ retention \in {"uninit", "inited", "created"}
  /\ hwIdx \in Idx /\ sampling \in BOOLEAN /\ intEna \in BOOLEAN
  /\ pending \in BOOLEAN /\ wakeMode \in {"none", "abs", "delta"}
  /\ fault \subseteq {"use_after_free", "null_deref"}
  /\ isrAt \in Objs \cup {NULL} /\ isrCb \in Callbacks \cup {NULL}

\* temperature_sensor_install with temperature_sensor_choose_best_range:
\* whenever an install succeeds, the attribute it leaves the handle on is
\* the entry of the sorted copy the hardware range was set to, that entry
\* contains the requested range, and no range of the table containing the
\* request has a smaller error_max; a request no range contains never
\* yields an installed handle.
Fits(r) == {k \in Idx : Attrs[k].range_min <= r.min /\ r.max <= Attrs[k].range_max}

\* Every driver call a task has begun returns.  An interrupt raised in the
\* middle of install, uninstall or register_callbacks preempts the task
\* on a single core; temperature_sensor_isr clears the raw status first
\* (line 87), so the interrupt cannot keep the task off the CPU forever.
CallsComplete == \A t \in Tasks : pc[t] # "idle" ~> pc[t] = "idle"

RangeChoiceOptimal ==
  [][\A t \in Tasks :
       (pc[t] = "install" /\ cur[t] \in handles' \ handles) =>
         LET r == req[t]  a == tsens'[cur[t]].attr
             k == heapCopy'[a[1]][a[2]]
         IN /\ Fits(r) # {}
            /\ k = hwIdx' /\ k \in Fits(r)
            /\ \A j \in Fits(r) : Attrs[k].error_max <= Attrs[j].error_max]_vars

\* No ISR, threshold setter or get_celsius ever reads the attribute table
\* through a freed copy or through the NULL global pointer: the copy a
\* handle points into lives as long as anything can still read it.
NoUseAfterFree == fault = {}

\* No sensor installed and no driver call in progress.
Quiescent == handles = {} /\ \A t \in Tasks : pc[t] = "idle"

\* Whenever no sensor is installed and no call is in progress, every
\* install (including its error paths) and uninstall has given back what
\* it took: the object, the table copy, the power and 8 MHz clock
\* references, the retention module and the interrupt enable.
ResourcesReleased ==
  Quiescent => /\ heap = {} /\ sCopy = NULL
               /\ \A c \in Copies : heapCopy[c] = FREED
               /\ power = 0 /\ clk8m = 0 /\ retention = "uninit"
               /\ ~intEna

\* The ISR only ever calls a threshold callback with the user_arg that was
\* registered together with it (lines 391-395 against the ISR at 96-97).
CallbackArgPaired == lastCb = NULL \/ lastCb \in registered

\* The "Already installed" check makes the driver a single instance: at
\* most one installed handle at a time.
SingleInstance == Cardinality(handles) <= 1

\* An installed sensor runs on the clock its configuration asked for, or on
\* the default clock when the configuration leaves it 0 (lines 139-143).
ClkSrcHonoured ==
  \A o \in handles :
    tsens[o].clk = IF tsens[o].cfgClk = NULL THEN ClkDefault ELSE tsens[o].cfgClk

\* The attribute a handle converts with is the range the hardware measures
\* in, after get_celsius has seen the range change (lines 308-317).
AttrTracksHwRange ==
  \A o \in handles :
    tsens[o].attr # NULL /\ ~AttrFreed(o) =>
      Attrs[AttrOf(o)].reg_val = Attrs[hwIdx].reg_val

====
