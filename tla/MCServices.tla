----------------------------- MODULE MCServices -----------------------------
(* Three services, of which one keeps memory, in two sizes, one the disk and  *)
(* one connections, two slots for them, a ring of two entries that wraps      *)
(* around, and a table of metrics with a place less than there are names.  Of *)
(* the names asked for one is empty and one goes on after the end of a        *)
(* service's; of those recorded one begins two others and one is cut off.  Two*)
(* slots more than api_init fills, paths that begin one another or are cut    *)
(* off, and a screen of three rows.                                           *)
(*                                                                            *)
(* Of a behaviour one part moves: parts that share no variable cannot disturb *)
(* each other, and moving all would only multiply the states.  The log and    *)
(* the table of metrics, which nothing reads back into another part, are      *)
(* tried apart from the services as well.                                     *)
EXTENDS Services

Service(name, keeps) == [name |-> name, keeps |-> keeps]

MCTable ==
    <<Service(<<"m">>, "memory"), Service(<<"d">>, "disk"), Service(<<"n">>, "connections")>>
MCAskedNames == {<< >>, <<"n", "e">>}
MCMemorySizes == {2, 3}
MCLevels == {1, 3}
MCNames == {<<"n">>, <<"x">>, <<"x", "y", "z">>}
MCValues == {1, 2}

MCMethods == {"GET"}
MCPaths ==
    {<<"a", "s">>, <<"a", "s", "x">>, <<"a">>, <<"a", "t", "y">>, <<"a", "t", "y", "z">>}
MCHandlers == {"own"}
MCBuiltinRoutes ==
    <<Route("GET", <<"a", "s">>, "system"), Route("GET", <<"a", "t">>, "storage"),
      Route("POST", <<"a", "t">>, "control")>>

MCTexts == {<<"a">>, <<"b">>, <<"\n">>}
MCBanner == <<"a", "b", "\n", "b", "\n", "\n", "a", "\n">>
MCNewLine == "\n"
MCCharacters == {"a", "b"}

VARIABLE part       \* the part that moves

MCInit == Init /\ part \in {"services", "log", "metrics", "api", "console"}

MCNext ==
    /\ UNCHANGED part
    /\ \/ /\ part = "services"
          /\ Services \/ Refreshing
          /\ UNCHANGED <<api_vars, console_vars>>
       \/ /\ part = "log"
          /\ init_system \/ (\E r \in Resources : Use(r)) \/ Logging \/ Refreshing
          /\ UNCHANGED <<api_vars, console_vars>>
       \/ /\ part = "metrics"
          /\ Recording \/ Refreshing
          /\ UNCHANGED <<api_vars, console_vars>>
       \/ part = "api" /\ ApiNext /\ UNCHANGED <<system_vars, console_vars>>
       \/ part = "console" /\ ConsoleNext /\ UNCHANGED <<system_vars, api_vars>>

MCSpec == MCInit /\ [][MCNext]_<<vars, part>>
=============================================================================
