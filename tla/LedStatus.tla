------------------------------- MODULE LedStatus -------------------------------
(***************************************************************************)
(* mcu/led_status.c: the board state shown on the two status LEDs.  The    *)
(* clock is abstracted to what the code compares: whether now lies before  *)
(* _busy_until, that is, whether the minimum BUSY hold is in effect.       *)
(***************************************************************************)
VARIABLES led,     \* _state
          hold     \* now < _busy_until

ledVars == <<led, hold>>

LedState == {"BOOT", "NO_FPGA", "IDLE", "BUSY", "PROGRAM", "ERROR"}

LedTypeOK == led \in LedState /\ hold \in BOOLEAN

(* led_status_init, with _busy_until = 0 *)
LedInit == led = "BOOT" /\ hold = FALSE

(* An IDLE request is swallowed while a BUSY hold is in effect. *)
Swallowed(state) == state = "IDLE" /\ led = "BUSY" /\ hold

(* led_status_set(state) *)
LedSet(state) ==
    /\ hold' = (hold \/ state = "BUSY")
    /\ led'  = IF Swallowed(state) THEN led ELSE state

(* led_status_task: BUSY falls back to IDLE once its hold is over. *)
LedTask ==
    /\ led' = IF led = "BUSY" /\ ~ hold THEN "IDLE" ELSE led
    /\ UNCHANGED hold

(* Time passes _busy_until. *)
HoldExpires == hold /\ hold' = FALSE /\ UNCHANGED led
================================================================================
