-------------------------------- MODULE Rules --------------------------------
(***************************************************************************)
(* The parts that share no state with others, side by side.  In a          *)
(* behaviour only the part that kind names moves.                          *)
(***************************************************************************)
EXTENDS PoolRequests, Decimals, PoolQuery, Nonces, ScriptMemory, GuestMemory, Listings

VARIABLE kind
vars == <<kind, uploadVars, requestVars, decimalVars, queryVars, nonceVars, scriptVars,
          guestVars, listingVars>>

Kinds == {"upload", "request", "decimal", "query", "nonces", "script", "guest", "listing"}

\* What the parts are given that do not move.
AnUpload == CHOOSE u \in CsvUploads : TRUE
ARequest == CHOOSE r \in CreateRequests : TRUE
ACell == CHOOSE a \in CellAsks : TRUE
AQuery == CHOOSE q \in PoolQueries : TRUE
AReader == CHOOSE q \in ListQueries : TRUE

Init ==
    /\ kind \in Kinds
    /\ upload \in (IF kind = "upload" THEN CsvUploads ELSE {AnUpload}) /\ UploadStart
    /\ request \in (IF kind = "request" THEN CreateRequests ELSE {ARequest}) /\ RequestStart
    /\ cellAsk \in (IF kind = "decimal" THEN CellAsks ELSE {ACell}) /\ DecimalStart
    /\ query \in (IF kind = "query" THEN PoolQueries ELSE {AQuery}) /\ QueryStart
    /\ NoncesInit
    /\ ScriptMemoryInit
    /\ GuestInit
    /\ reader \in (IF kind = "listing" THEN ListQueries ELSE {AReader}) /\ ListingsInit

Only(k) ==
    /\ kind = k
    /\ UNCHANGED kind
    /\ k # "upload" => UNCHANGED uploadVars
    /\ k # "request" => UNCHANGED requestVars
    /\ k # "decimal" => UNCHANGED decimalVars
    /\ k # "query" => UNCHANGED queryVars
    /\ k # "nonces" => UNCHANGED nonceVars
    /\ k # "script" => UNCHANGED scriptVars
    /\ k # "guest" => UNCHANGED guestVars
    /\ k # "listing" => UNCHANGED listingVars

Next ==
    \/ Only("upload") /\ UploadNext
    \/ Only("request") /\ RequestNext
    \/ Only("decimal") /\ DecimalNext
    \/ Only("query") /\ QueryNext
    \/ Only("nonces") /\ NoncesNext
    \/ Only("script") /\ ScriptMemoryNext
    \/ Only("guest") /\ GuestNext
    \/ Only("listing") /\ ListingsNext

Spec == Init /\ [][Next]_vars
=============================================================================
