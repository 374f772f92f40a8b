---------------------------- MODULE MCCoreOutbox ----------------------------
(***************************************************************************)
(* Small instances of CoreOutbox for TLC.  ann starts a gathering, which   *)
(* may reorder the day, and records an arrival in the session it started;  *)
(* ben signs in on the same device.                                        *)
(***************************************************************************)
EXTENDS CoreOutbox

CONSTANTS ann, ben, start, reorder, arrive, again

MCOwner == [o \in Op |-> ann]

Within(S) == {pair \in Op \X Op : pair \in S}

(* start and reorder share a destination; start creates the session of     *)
(* arrive.  isPrerequisite is symmetric where it is about resources.       *)
MCCreates == Within({<<start, arrive>>, <<again, arrive>>})
MCPrereq == Within({<<start, reorder>>, <<reorder, start>>, <<start, arrive>>,
                    <<start, again>>, <<again, start>>, <<again, arrive>>})
MCGuards == Within({<<start, reorder>>, <<start, arrive>>})
MCArrival == Op \cap {arrive}
MCPromotes == Within({<<start, reorder>>})
MCReplaces == Within({<<again, start>>})
MCStarts == Op \cap {start}
=============================================================================
