-------------------------- MODULE MCProfileInstances --------------------------
(* Instances of ProfileInstances: a service of two profiles on two devices,   *)
(* and the disturbances that meet its loading.                                *)
EXTENDS ProfileInstances, TLC

CONSTANTS car, phone

MCProfiles == 1 .. 2

\* The names of the APIs sort the other way round.
MCMapOrder == <<2, 1>>

On(x, y) == (car :> x) @@ (phone :> y)
Quietly == [running |-> {car, phone}, lives |-> On(1, 1), loads |-> On(1, 0),
            unloads |-> On(0, 0), crashes |-> On(0, 0), losses |-> On(0, 0)]

\* 1. Both devices load the service at the same time.
\* 2. The phone's application has to be launched; the car unloads the service at any time.
\* 3. The car's application crashes and comes back, the phone unloads.
\* 4. The car loads the service again after unloading it.
\* 5. The same with the phone unloading, and both applications coming back.
\* 6. Session requests get lost and questions fail; the phone's application crashes.
MCScenario ==
  {[Quietly EXCEPT !.loads = On(1, 1)],
   [Quietly EXCEPT !.running = {car}, !.lives = On(1, 2), !.unloads = On(1, 0)],
   [Quietly EXCEPT !.lives = On(2, 1), !.unloads = On(0, 1), !.crashes = On(1, 0)],
   [Quietly EXCEPT !.loads = On(2, 0), !.unloads = On(1, 0)],
   [Quietly EXCEPT !.lives = On(2, 2), !.loads = On(2, 0), !.unloads = On(0, 1)],
   [Quietly EXCEPT !.crashes = On(0, 1), !.losses = On(1, 1)]}
=============================================================================
