---------------------------- MODULE MCCustomerStats ----------------------------
(***************************************************************************)
(* Files of three lines and commands of three options, over one name or    *)
(* two of each group; then a customer whose ratio moves by steps of one    *)
(* percent and less.                                                       *)
(***************************************************************************)
EXTENDS CustomerStats, TLC

MCFileNumbers == {"_NVAL"}
MCNumbers == MCFileNumbers \cup {"bf_reset_int"}
MCSwitches == {"synthetic_test", "second_hit_caching_hd", "disable_kc", "floor_customer_loss"}
MCLetters == ("N" :> "_NVAL") @@ ("R" :> "bf_reset_int")
MCDefaults == ("_NVAL" :> 1) @@ ("bf_reset_int" :> 2)

MCWindows == [hit : {0, 489, 490, 500, 509}, all : {1000}]
===============================================================================
