---------------------------- MODULE MotorPointing ----------------------------
(***************************************************************************)
(* How the MD01 driver (md01_driver.py, md01_msg.py) turns a direction on  *)
(* the sky into a position of the mount.  Every direction has two: the     *)
(* plain one, and the one with the dish tipped over, altitude 180 - alt    *)
(* and azimuth az + 180.  The mount has limits, does not turn through      *)
(* azimuth 0, is off by fixed offsets and takes and reports whole pulses.  *)
(* DishDriver abstracts from all this and calls both positions one.        *)
(*                                                                         *)
(* Angles are numbers of a unit of which Half make 180 degrees.  The mount *)
(* is always shown where it has arrived.                                   *)
(***************************************************************************)
EXTENDS Integers, FiniteSets

CONSTANTS Half,     \* 180 degrees
          Pulse,    \* angle of one pulse (0.1 degrees in the code)
          Mounts    \* MD01Config: limits, offsets and short_way

Circle == 2 * Half
Quarter == Half \div 2

\* What the schema of MD01Config lets through (md01_config.py:18-24, 62).
ValidMounts ==
    {m \in [alt : (-Quarter..Quarter) \X (-Quarter..Quarter),
            az : (-Half..(3 * Half)) \X (-Half..(3 * Half)),
            offset : (-Quarter..Quarter) \X (-Circle..Circle), shortWay : BOOLEAN] :
        m.az[1] <= m.az[2]}

ASSUME PointingAssumption ==
    /\ Half \in Nat \ {0} /\ Half % 2 = 0
    /\ Pulse \in 1..Quarter /\ Circle % Pulse = 0
    /\ Mounts \subseteq ValidMounts

\* Directions above the horizon, as the target's coordinates give them.
Directions == (0..Quarter) \X (0..(Circle - 1))

VARIABLES config,   \* the mount, which does not change
          mount,    \* pulses the mount stands at, as the controller counts them
          asked,    \* the direction asked for last, <<>> at first
          was,      \* the position reported before that
          desired,  \* desired_altaz, the position commanded for it
          refused   \* it was refused with XInvalidTransition

pointingVars == <<config, mount, asked, was, desired, refused>>

Abs(x) == IF x < 0 THEN -x ELSE x

-----------------------------------------------------------------------------
(* The protocol: md01_msg.py. *)

\* _encode_position: 360 degrees are added, and part of a pulse is dropped.
Encoded(p) == [i \in 1..2 |-> (p[i] + Circle) \div Pulse]

\* _decode_position
Decoded(pulses) == [i \in 1..2 |-> pulses[i] * Pulse - Circle]

-----------------------------------------------------------------------------
(* The driver: md01_driver.py. *)

OffsetCorr(p) == [i \in 1..2 |-> p[i] + config.offset[i]]
OffsetInvCorr(p) == [i \in 1..2 |-> p[i] - config.offset[i]]

\* _get_md01_altaz
CurrentAltAz == OffsetInvCorr(Decoded(mount))

\* Mutant: the limits are compared with the direction, not with the mount's position.
CanReachUncorrected(p) ==
    /\ p[1] >= config.alt[1] /\ p[1] <= config.alt[2]
    /\ p[2] >= config.az[1] /\ p[2] <= config.az[2]

CanReach(p) ==
    LET q == OffsetCorr(p)
    IN  /\ q[1] >= config.alt[1] /\ q[1] <= config.alt[2]
        /\ q[2] >= config.az[1] /\ q[2] <= config.az[2]

Clamped(x, limits) ==
    IF x < limits[1] THEN limits[1] ELSE IF x > limits[2] THEN limits[2] ELSE x

\* The position _set_md01_altaz sends to the controller.
SetAltAz(p) ==
    LET q == OffsetCorr(p)
    IN  Encoded(<<Clamped(q[1], config.alt), Clamped(q[2], config.az)>>)

Flipped(p) == <<Half - p[1], (p[2] + Half) % Circle>>

\* do_flip
DoFlip(p) ==
    /\ config.shortWay
    /\ CanReach(Flipped(p))
    /\ \/ ~CanReach(p)
       \/ Abs(Flipped(p)[2] - CurrentAltAz[2]) < Abs(p[2] - CurrentAltAz[2])

SelectCommandAltAz(p) == IF DoFlip(p) THEN Flipped(p) ELSE p

\* driver.py, _truncate_to_resolution (resolution is a pulse)
Truncated(x) == (x \div Pulse) * Pulse

\* driver.py, _is_within_pointing_resolution
Within(current, wanted) ==
    /\ Abs(current[1] - Truncated(wanted[1])) <= Pulse
    /\ Abs(((current[2] - Truncated(wanted[2]) + Half) % Circle) - Half) <= Pulse

\* driver.py, get_current_altaz: a position beyond the zenith is not an altitude (AltAz
\* raises ValueError, which ends the polling), and is not compared.
ArrivalSeen(current, wanted) ==
    /\ Abs(current[1]) <= Quarter
    /\ Within(current, wanted)

-----------------------------------------------------------------------------

PointingInit ==
    /\ config \in Mounts
    /\ mount = SetAltAz(<<0, 0>>)
    /\ asked = <<>> /\ desired = <<0, 0>> /\ was = <<0, 0>>
    /\ refused = FALSE

\* _slew, and _track, which is the same
Point(p) ==
    LET command == SelectCommandAltAz(p)
    IN  /\ asked' = p
        /\ was' = CurrentAltAz
        /\ IF CanReach(command)
             THEN /\ mount' = SetAltAz(command)
                  /\ desired' = command
                  /\ refused' = FALSE
             ELSE /\ refused' = TRUE
                  /\ UNCHANGED <<mount, desired>>
        /\ UNCHANGED config

PointingNext == \E p \in Directions : Point(p)

-----------------------------------------------------------------------------

\* The positions that point the dish in a direction.
Pointings(p) == {p} \cup (IF config.shortWay THEN {Flipped(p)} ELSE {})

(* A dish that was told to point in a direction does: the position chosen  *)
(* is one of those of that direction, the mount stands there to a pulse    *)
(* (no limit has cut the command short), and no other position the mount   *)
(* could take was nearer in azimuth.  The next poll recognises the         *)
(* arrival, unless the position is beyond the zenith, where only a         *)
(* negative offset in altitude lets the mount go: there it fails.  A       *)
(* command is refused only if the mount can take none of the positions.    *)
GoesWhereAsked ==
    asked # <<>> =>
      IF refused
      THEN \A q \in Pointings(asked) : ~CanReach(q)
      ELSE /\ desired \in Pointings(asked)
           /\ \/ ArrivalSeen(CurrentAltAz, desired)
              \/ desired[1] > Quarter /\ config.offset[1] < 0
           /\ \A i \in 1..2 : Abs(CurrentAltAz[i] - desired[i]) < Pulse
           /\ \A q \in Pointings(asked) :
                CanReach(q) => Abs(desired[2] - was[2]) <= Abs(q[2] - was[2])
=============================================================================
