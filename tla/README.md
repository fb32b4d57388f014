# Model-checking project for esp-idf `esp_driver_tsens` and `esp_driver_sdio`

These TLA+ modules and TLC configurations model the two driver components in this
repository. Only two files are under `src/`:

* `components/esp_driver_tsens/src/temperature_sensor.c`: the complete
  temperature-sensor driver, about 400 lines.
* `components/esp_driver_sdio/include/driver/sdio_slave.h`: the public interface
  of the SDIO-slave driver. It holds declarations and their contracts; the
  implementation is not in this repository.

Models of the temperature sensor are translated from the C source. Models of the SDIO
slave can only follow the header's documented contracts and `spec.md`. Every
definition the header does not pin down is marked `spec_modelled` in
`PROJECT.json`.

## 1. Inventory

### Temperature sensor (`temperature_sensor.c`)

**State.**

* Global state:
  * `s_tsens_attribute_copy`: a heap copy of the SoC range table, sorted by
    accuracy. It doubles as the "installed" flag.
  * `s_deltaT`: the eFuse calibration value. It is lazily loaded, with `INT_MIN`
    meaning "not loaded".
* One heap object per install (`temperature_sensor_obj_t`):
  * `fsm` (INIT/ENABLE), `clk_src`;
  * `tsens_attribute`, a pointer into the global copy;
  * the ISR handle, the threshold callback and its `user_arg`.
* Outside the file, the driver changes:
  * the power reference count (`temperature_sensor_power_acquire/release`);
  * the 8 MHz clock reference count;
  * the sleep-retention module (init/allocate/free/deinit);
  * the sensor hardware: range (`dac`) and auto-range index, clock select,
    sample/wakeup enable, interrupt enable, raw interrupt status, and threshold
    mode and values.

**Operations.**

* `install`, `uninstall`, `enable`, `disable`.
* `get_celsius`, which includes `parse_temp_sensor_raw_value`,
  `read_delta_t_from_efuse` and `s_update_tsens_attribute`.
* `set_absolute_threshold`, `set_delta_threshold`, `register_callbacks`.
* The ISR `temperature_sensor_isr`.
* Helpers: `attribute_table_sort` (qsort with `accuracy_compare`),
  `choose_best_range`, and the Celsius/regval conversions.

**Interactions.**

* Application tasks call the API. No lock is held anywhere in the file.
* The ISR runs when the threshold interrupt is latched and enabled. It reads
  `tsens->tsens_attribute`, `threshold_cbs` and `cb_user_arg`:
  * on single-core chips it preempts the task;
  * on dual-core chips it can run on the other core at the same time.
* `temp_sensor_get_raw_value` (in `esp_hw_support`, outside `src/`) may switch the
  hardware range on any read and reports this through `range_changed`.

**What is hard.**

* Check-then-act in `install` across two tasks.
* Ordering in `uninstall`: the table is freed before the interrupt is disabled.
* Partial failures on every error path: `goto err` into `uninstall`, a failing
  `esp_intr_free`, a failing interrupt allocation.
* The ISR reading two fields that `register_callbacks` writes in separate stores.
* A stale attribute after an early return.
* qsort with a comparator that never returns 0.

**What makes it correct.**

* No read of the attribute table through a freed or NULL pointer.
* Every resource is given back once no sensor is installed.
* At most one installed instance.
* The chosen range is the most accurate one that contains the request.
* The ISR calls a callback only with the argument registered with it (this
  fails on dual-core chips: `tsens_dual_core_callbacks`).
* The configured clock is honoured.
* The attribute in use follows the hardware range.

### SDIO slave (`sdio_slave.h` + `spec.md`)

| Component | State | Operations | Correctness |
|---|---|---|---|
| Buffer Registry | registered buffers, per-buffer state Idle / Queued / Completed | `recv_register_buf`, `recv_unregister_buf`, `recv_get_buf` | a handle resolves iff registered; a queued buffer cannot be unregistered |
| Receive Pipeline | DMA ring of loaded buffers, completion queue, packet boundary | `recv_load_buf`, DMA fill (host), `recv_packet`, `recv` | every completion is handed out exactly once, in ring order; all buffers but the last of a packet are NOT_FINISHED |
| Send Pipeline | bounded send queue (`send_queue_size`), in-flight item, finished queue of `arg`s | `send_queue`, DMA completion, `send_get_finished`, `transmit` | FIFO reclaim, never more than `send_queue_size` queued, every queued `arg` is returned once |
| Host Interrupt/Register Bridge | 64 shared registers, host interrupt enable mask, pending host-to-slave interrupt bits | `read_reg`, `write_reg`, `get/set_host_intena`, `send_host_int`, `clear_host_int`, `wait_int` | writes only to the writable addresses; a host interrupt is observed at most once per raise (test-and-clear) |
| Lifecycle | Uninit / Stopped / Running | `initialize`, `start`, `stop`, `reset`, `reset_hw`, `deinit` | `reset` only when stopped and it returns every buffer to Idle; `stop`/`start` keep data |

The interrupt context produces completions and host interrupts. Application tasks
consume them through queues with timeouts. The spec requires that a timed-out wait
changes nothing, and that the ISR path never blocks.

## 2. Plan and status

| # | Module | Status |
|---|---|---|
| 1 | `TempSensor` (+ `MC_TempSensor`, `MC_TempSensorIsr`): the whole driver, ISR and hardware as actors | done |
| 2 | `TsensThreshold` (+ `MC_TsensThreshold`): threshold conversions across range switches | done |
| 3 | `SdioRecv`: registry and receive pipeline, with liveness | done |
| 4 | `SdioSend` and its abstract FIFO `SendFifo` (+ `MC_SdioSend`) | done |
| 5 | `SdioHost`: register whitelist, intena, interrupts both ways, `wait_int` test-and-clear | done |
| 6 | `SdioLifecycle`, composed with 4-5 in `SdioSlave` (+ `MC_SdioSlave`) and with 3 in `SdioSlaveRecv` | done |

Still to do:

* A two-task `TempSensor` run bounded tightly enough to finish, for the
  install-error-path hazard.
* A run that keeps the single-core `esp_intr_free`-failure read of the freed
  copy as its `NoUseAfterFree` counterexample (see "Not modelled here").
* A single-core pass run of `CallbackArgPaired` (it holds there; see below).
* Larger SDIO bounds, such as three descriptors in the composed receive run.

The project keeps twelve runs. A new question is added by merging it into an
existing run, or by replacing a run that shows less.

## 3. What is built: `TempSensor`

### Correspondence to the code

| Code | Module |
|---|---|
| `s_tsens_attribute_copy` | `sCopy`; heap blocks of copies are `heapCopy` (a sorted table or `FREED`) |
| `tsens->tsens_attribute` | `tsens[o].attr = <<copy, position>>` |
| `heap_caps_calloc` | an object from `Objs \ heap`, initialised to `CallocObj` (all zero) |
| `install` lines 128-147 | `InstallBegin` (checks, calloc, the clk_src test, the allow_pd return) |
| `install` lines 149-186 | `InstallFinish` (retention, power, clock, sort, choose, range; on error the inlined `uninstall`) |
| `sleep_retention_module_init` (lines 153-160), `temperature_sensor_create_retention_module` and its create callback (lines 108-125) | `RetentionInit` and `CreateRetentionModule`: either call may fail, and the driver then only warns |
| `qsort` (line 59) | `SortedOrders`: any entry that no other entry must precede is placed first, recursively. `MC_TempSensor` has an `ASSUME` that checks this equals the set of error_max-sorted permutations |
| `uninstall` | `UninstallBegin` (lines 188-196, frees the copy) and `UninstallFinish` (lines 198-222, interrupt off, `esp_intr_free` which may fail, release, free) |
| `enable` / `disable` / `get_celsius` / `set_*_threshold` | one atomic action each |
| `register_callbacks` | `RegisterBegin` (lines 363-392: allocation, whose failure only changes the return value, and enable), `RegisterClear` (line 393), `RegisterSetCb` (line 394), `RegisterSetArg` (line 395) |
| ISR | `IsrEntry(o)` (lines 86-96: clear, the attribute read, the NULL test of `threshold_cbs`) and `IsrCall` (line 97: the call, with `threshold_cbs` either the value tested or a reload, and `cb_user_arg` loaded then); `isrAt`/`isrCb` hold the handler between the two. The hardware latching a threshold is `HwThreshold` |

Calls that fail a check and change nothing are stuttering steps and are not
separate actions. The calls modelled this way are:

* NULL arguments;
* `INVALID_STATE` returns;
* a failed calloc;
* `Already installed`.

Undefined behaviour is recorded in the history variable `fault`. Two kinds count:

* a read through a pointer into a freed copy;
* a dereference of the NULL global in `s_update_tsens_attribute`.

On an undefined read of an offset, any value of the table may be returned.

Temperatures are abstracted as follows:

* A read picks any hardware range (an auto-range switch) and whether the value is
  inside the measurable range.
* Threshold values are not modelled, only the attribute read they make.

A malloc never returns the block of a copy that a live object still points into.
Because of this, a dangling pointer always designates a `FREED` block and is
detected.

### Scheduling and fairness

* `SingleCore = TRUE`: no task step is taken while an enabled interrupt is latched
  and an ISR is installed, or while the handler is between `IsrEntry` and
  `IsrCall`. This is how a single-core chip (e.g. ESP32-C6) behaves.
* `SingleCore = FALSE`: both ISR steps interleave freely with the task. This is
  a dual-core chip.
* `esp_intr_free` does not return while the handler runs on the other core, so
  uninstall does not free the object between `IsrEntry` and `IsrCall`.

Fairness:

* Weak fairness of both ISR steps. A raised interrupt stays raised until the
  ISR services it, and a handler that has begun is not descheduled.
* Strong fairness of each task's step that finishes a call already begun
  (`Finish`: the end of install and of uninstall, and the three stores of
  register_callbacks). On a single core such a step is enabled only between
  interrupts. The sensor latches at its sampling period, far slower than one
  ISR, so the task gets the CPU again.
* The application starting calls and the sensor latching are not fair.

`CallsComplete` states that every call a task begins returns. It fails if the
ISR does not clear the raw status first (line 87): the interrupt then re-enters
forever and keeps the task off the CPU. The `IsrEntryNoClear` mutant shows this.

### Runs

| Run | cfg | Result | Shows |
|---|---|---|---|
| tsens_single_core | `MC_TempSensor.cfg` | pass, ~140k states, ~40 s | one task on a single-core chip with sleep retention, with `esp_intr_free` allowed to fail (`IntrFreeMayFail = TRUE`). `TypeOK` and `ResourcesReleased` hold: an uninstall that failed at line 201 and is retried still gives everything back. `CallsComplete` holds. The action property `RangeChoiceOptimal` shows that every successful install leaves the handle and the hardware on the most accurate range containing the request, whatever order qsort produced. The cfg's `VIEW DriverView` leaves out the history variables `fault`, `lastCb` and `registered`: no guard reads them and no property of this run mentions them |
| tsens_dual_core_callbacks | `TS_DualCoreCallbacks.cfg` (`MC_TempSensorIsr`) | violation | `CallbackArgPaired`: register (cbA, argA), enable, a threshold latches, disable, register (cbB, NULL). Line 392 enables the latched interrupt; the ISR on the other core tests cbA at line 96; the task clears and stores cbB; the ISR's call at line 97 reloads cbB and passes argA. With `SingleCore = TRUE` the same cfg reports no error: there the clear at line 393 protects the stores |
| tsens_dual_core_uaf | `TS_DualCoreUaf.cfg` | violation | install, register, enable, latch, disable, uninstall frees the copy, then the ISR reads it |
| tsens_install_race | `TS_InstallRace.cfg` | violation | two `InstallBegin`s before either `InstallFinish`; both handles live |
| tsens_pd_leak | `TS_PdLeak.cfg` | violation | `allow_pd` on a chip without retention leaks the object |
| tsens_clk_src | `TS_ClkSrc.cfg` | violation | the requested clock is replaced by the default |
| tsens_stale_range | `TS_StaleRange.cfg` | violation | `get_celsius` switches range and returns ESP_FAIL; the attribute stays on the old range |

### Bounds and why they are enough

* One task, one object block and one copy block. One sensor instance is all a
  correct single-task program can hold.
* The violation runs that need a leak or a race get two of each.
* The full esp32c6 table (five ranges, two pairs with equal `error_max`) is used,
  so qsort yields four orders.
* Requested ranges:
  * `[0,40]`: contained by ranges with error 1 and 2;
  * `[60,90]`: error 2 and 3;
  * `[-50,0]`: no range.
* With these ranges, a wrong comparator or a wrong first-fit changes the choice.
* The ISR runs use two ranges and one request to keep the dual-core interleavings
  within the time limit.
* The single-core run registers `user_arg` NULL only (`Args = {}`), with a
  callback or NULL. The pairing of callback and argument is the dual-core run's
  question, which needs two callbacks.

### Not modelled here

* Threshold values are left to `TsensThreshold` (below).
* `esp_sleep_pd_config`: it is paired with power acquire/release on every path.
* The retention register link list, which is built outside `src/`. Only whether
  its allocation succeeds is modelled.
* The IRAM placement checks (configuration-dependent argument checks that change
  no state).
* Logging.

* `NoUseAfterFree` fails on a single core too once `esp_intr_free` may fail:
  uninstall frees the copy, returns the error at line 201 and leaves the handle
  installed, and a later `set_absolute_threshold` or `get_celsius` reads the
  freed copy. This is a different bug from the dual-core one
  (`tsens_dual_core_uaf`, an ISR between lines 194 and 199). No run keeps this
  trace: the single-core pass run does not check `NoUseAfterFree`, and the run
  cap leaves no room for a separate violation run.

## 4. `TsensThreshold`: threshold conversions

`set_absolute_threshold` converts Celsius to an 8-bit register value with the
offset of the range the handle is on:

    (celsius + OFFSET_FACTOR + DAC_FACTOR*offset) / ADC_FACTOR, cast to uint8_t

`set_delta_threshold` does the same with `delta / ADC_FACTOR`. The ISR converts
the raw reading back to an `int8_t` with the handle's offset at the time it fires.
`get_celsius` moves the handle to the range the hardware switched to.

How the module represents this:

* The LL factors of the esp32c6 (0.4386, 27.88 and 20.52) are constants, scaled
  by 10^4, so the arithmetic is exact.
* Casts truncate toward zero, as C does.
* A cast whose value the type cannot hold is undefined behaviour. It is recorded
  in `fault`, and the result is one of the two values the compiled conversions
  give: the wrapped low bits or the saturated value.
* `event` records the temperature the ISR reported and the thresholds in force
  when it fired.

| Run | cfg | Result | Shows |
|---|---|---|---|
| tsens_threshold_in_range | `MC_TsensThreshold.cfg` | pass, 1 050 states | with thresholds inside the handle's range and no range switch, no conversion is undefined (`NoConversionUB`) and every event reports a temperature within a degree of its threshold (`ThresholdEventsMatchConfig`) |
| tsens_threshold_stale | `TT_StaleThreshold.cfg` | violation | after an auto-range switch the registers still hold values for the old offset: a "higher than 50 °C" event is reported at 21 °C |

Bounds:

* The inputs are the bounds of every range of the table: the extremes of each
  conversion.
* Deltas are 1 °C and 40 °C.

Setting `OutOfRangeInputs` shows that out-of-range thresholds and deltas are
undefined casts. Setting `AutoRange` together with `NoConversionUB` shows that
the ISR's `int8_t` conversion can overflow after a range switch. Neither is kept
as a run: `tsens_threshold_stale` already shows a stale conversion after a
range switch.

## 5. `SdioRecv`: buffer registry and receive pipeline

The implementation of the SDIO slave is not in this repository:

* The application calls (`recv_register_buf`, `recv_unregister_buf`,
  `recv_load_buf`, `recv_packet`/`recv`) follow the contracts in
  `sdio_slave.h`.
* The DMA fill, the host's packets and the completion interrupt follow
  `spec.md` §4.2 and are marked `spec_modelled`.

State:

* `reg`: registered handles.
* `st`: each handle's idle/queued/done state.
* `ring`: the DMA ring.
* `hwDone`: descriptors finished but not yet posted.
* `cq`: the completion queue.
* `content`: a token the DMA writes into each buffer.
* `hostLog` and `appLog`: what the host wrote and what the receive calls handed
  out.

`SdioSlaveRecv` extends `SdioRecv` with the driver lifecycle
(`SdioLifecycle`, section 7):

* receive calls and the interrupt need an initialized driver;
* the host writes and the DMA fills only while the driver is started;
* `RecvReset` (reset/reset_hw, only while stopped) returns every registered
  buffer to the application with no completion pending, and restarts the
  host's packet count. What the host wrote that nobody received is cleared,
  so `hostLog` is cut back to `appLog`.
* `RecvDeinit` releases the registry. It is allowed only when every buffer is
  idle: the header gives no check, and `spec.md` §4.5 calls anything else
  unsafe.

Run `sdio_slave_recv` (`MC_SdioSlaveRecv.cfg` on `SdioSlaveRecv`, pass,
~263k states, ~25 s) checks:

* `ReceivedAsSent`: what the receive calls handed out is a prefix of what the
  host wrote, which covers order, exactly-once, packet boundaries and data not
  overwritten before pickup.
* `RingRegistered`: the DMA writes only into registered descriptors, each at
  most once in the ring.
* `FilledEventuallyReceived`: every filled buffer is eventually given back.

Fairness is weak fairness of:

* the completion interrupt, because hardware raises it while a descriptor is
  done;
* the receive call, because an application task loops on `recv_packet` with
  `portMAX_DELAY`.

The host and the application's register, load and unregister calls are not
fair: the host may stop sending and the application may stop loading.

Bounds:

* Two descriptors.
* Packets of one or two buffers.
* Five fills, so buffers are reused, a two-buffer packet can straddle a
  reload, and a reset can fall between any two steps.

Under the lifecycle, three descriptors with six fills reach more than 12
million states, which is out of reach.

A mutant of `RecvReset` that keeps the completions already posted is caught
by `ReceivedAsSent`.

Deadlock is not checked, because the end state, with the host done and the
application waiting in `recv`, is real.

## 6. `SdioSend` and `SendFifo`: send pipeline and its abstract FIFO

`SendFifo` is what the header promises:

* `send_queue` is accepted only while fewer than `send_queue_size` transfers are
  held;
* `get_finished` returns the oldest held transfer.

`SdioSend` models the parts the header and `spec.md` §4.3 describe:

* the slot semaphore;
* the queued transfers;
* the DMA link, which the host reads in order;
* the done list, which the interrupt moves to the return queue;
* the return queue that `send_get_finished` and `sdio_slave_transmit` take from.

The refinement mapping is `pending <- ret \o done \o link \o sendQ`.

| Run | cfg | Result | Shows |
|---|---|---|---|
| sdio_send_mixed_transmit | `SS_MixedTransmit.cfg` | violation | the transmit call consumes the other task's completion (`TransmitReturnsOwn`) |

`TransmitTimeout` models the header's ESP_ERR_TIMEOUT when the host does not
start the transfer. The transfer stays queued, and its completion is later
the oldest in the return queue. A single task that only calls `transmit`
therefore also breaks `TransmitReturnsOwn`: it queues, times out, queues again,
and the second call returns on the first transfer. This was checked with a
one-task configuration. The kept run shows the shorter mixed-use trace.

The refinement is checked in the composed run `sdio_slave` (section 7),
because `SendFifo` also covers what initialize and deinit do to the queue.
`SS_MixedTransmit.cfg` runs `SdioSend` alone, through `MC_SdioSend`.

## 7. `SdioHost`, `SdioLifecycle` and `SdioSlave`: host bridge and driver lifecycle

`SdioHost` follows the "Host" part of the header. Its state:

* `regs`: the shared registers.
* `intena`: the host interrupt enable.
* `toHost`: the slave-to-host interrupts not yet cleared.
* `hwPend`: the host-to-slave interrupts latched in hardware.
* `evt`: the events the interrupt handler signalled for `wait_int`.
* `waitOn`: the bit each task blocks on.
* `credit` and `dup`: history that matches each take to a raise.

| Code | Action |
|---|---|
| `write_reg` (line 245 whitelist: 0-11, 14-15, 18-19, 24-27, 32-63) | `WriteReg` |
| `set_host_intena` | `SetHostIntena` |
| `send_host_int` | `SendHostInt` |
| `clear_host_int` | `ClearHostInt` |
| `wait_int` | `WaitInt` (block), `WaitTake` (ESP_OK: take and clear in one step), `WaitTimeout` |
| interrupt handler and `event_cb` (`spec_modelled`) | `HostIsr` |
| the host (`spec_modelled`) | `HostRaiseInt`, `HostServe` |

`SdioLifecycle` is the driver state machine: uninit, stopped, running.

`SdioSlave` composes it with `SdioSend` and `SdioHost` through `INSTANCE`:

* `Initialize` gives an empty queue of `send_queue_size` slots and fresh
  interrupt state.
* `Deinit` runs only when stopped with no call in progress. It releases the
  queues and the events.
* `Start` and `Stop` keep the data.
* `Reset` is refused while running. It moves every transfer not yet finished,
  in order, to the return queue. This reads "clear the data still in the
  driver" (header line 93) as "no longer send it", with the arguments still
  returned by `get_finished`.
* The host reads linked transfers only while the driver is started.

The refinement mapping is `pending <- ret \o done \o link \o sendQ` and
`open <- drv # "uninit"`.

Run `sdio_slave` (`MC_SdioSlave.cfg`, pass, ~230k states, ~1 min) checks:

* `SendRefinesFifo`: across start, stop, reset and re-initialization, the send
  side implements the bounded FIFO, and only deinit drops a transfer. A reset
  that discards the unsent transfers is caught.
* `NoDoubleDelivery`: every ESP_OK from `wait_int` matches a distinct host
  raise, even with two tasks waiting on one bit. An event-group wake of every
  waiter is caught.
* `HostIntDelivered` (liveness): every latched host interrupt is signalled
  unless deinit comes first, and a signalled event that a task waits for is
  taken. A handler that signals only the bits already waited for is caught.

Bounds:

* Two tasks. One uses `send_queue` and `get_finished`, the other `transmit`,
  and both may wait for host interrupts.
* A queue of two, with three transfers, so a full queue blocks and a slot is
  reused. Each transfer may also time out in `transmit`.
* One interrupt bit, with up to two raises outstanding.
* Register addresses 0 (writable) and 29 (reserved).

A second interrupt bit takes 13 minutes and adds only handler behaviour that
one bit does not exercise.

Fairness is weak fairness of:

* the interrupt handler, because the hardware keeps the line asserted while a
  bit is latched;
* each task's `WaitTake`, because a task blocked in `wait_int` is made ready
  when its semaphore is given.

Nothing else is fair. Deadlock is checked, and none occurs, because start and
stop are always enabled.

## 8. Not modelled

* **`deinit` while a call is blocked or a buffer is queued.** It is assumed
  away, as the hazard at `sdio_slave.h:74` records.
* **`read_reg` and `get_host_intena`.** Reads that change nothing.
* **Register contents.** Reduced to two values.
* **`sdio_slave_recv_get_buf`.** A lookup that changes nothing.
* **SDIO timing, pins, sending mode, ESD and descriptor register programming.**
  Out of scope in `spec.md`.
* **Temperature sensor: SoC clock, HAL/LL register programming, eFuse
  calibration, interrupt allocator.** They are not under `src/`. Only their
  effects on the driver are modelled: success or failure, a range switch, a
  latched interrupt.
