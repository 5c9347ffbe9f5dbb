----------------------------- MODULE MCTbusRoute -----------------------------
(* Three processes in a line, a - b - c; b's channel to c comes first.       *)
EXTENDS TbusRoute, TLC

CONSTANTS a, b, c

Line == (a :> << <<1, 2>> >>) @@ (b :> << <<2, 4>>, <<2, 1>> >>) @@ (c :> << <<4, 2>> >>)

To(s, d)  == [src |-> s, dst |-> d]
Start     == {To(1, Default), To(4, Default)}
FromAll   == {To(Default, Default), To(All, 4)}
DyeAtB    == (a :> {"none"}) @@ (b :> {"start"}) @@ (c :> {"none"})
OnlyC     == (a :> {}) @@ (b :> {}) @@ (c :> { <<1>> })
==============================================================================
