---------------------------- MODULE MCHookInstall ----------------------------
(***************************************************************************)
(* Instances of HookInstall for TLC.                                       *)
(***************************************************************************)
EXTENDS HookInstall

\* The executable imports all three functions, a module loaded later two.
McImports == [exe |-> {"WSASocketW", "WSARecvFrom", "WSASendTo"},
              dll |-> {"WSARecvFrom", "WSASendTo"}]

\* The executable resolves WSARecvFrom dynamically instead of importing it.
McPartial == [McImports EXCEPT !.exe = {"WSASocketW", "WSASendTo"}]

McGroups == << {"WSASocketW", "WSARecvFrom"}, {"WSASendTo"} >>
=============================================================================
