------------------------------ MODULE MCAdminLogin ------------------------------
(***************************************************************************)
(* A proxy that is trusted or not, and a client that is seen through the   *)
(* proxy, which names it in either header, and directly, where a header    *)
(* means nothing; a request for which the proxy sends an empty header, and *)
(* one whose connection is closed already.                                 *)
(***************************************************************************)
EXTENDS AdminLogin, TLC

Proxy == Mapped(<<1, 2>>)
Alice == V4(<<3, 0>>)
Bob == V4(<<2, 1>>)
Request(remote, cf, forwarded) ==
  [remote |-> remote, cfConnectingIP |-> cf, forwardedFor |-> forwarded]

SomeRequests ==
  {Request(Proxy, Alice, Bob), Request(Proxy, NoHeader, Alice),
   Request(Alice, Bob, NoHeader), Request(Proxy, Empty, Alice),
   Request(NoHeader, Alice, NoHeader)}

SomeLists == {{}, {Cidr(V4(<<1, 0>>), 2)}}

LoginSymmetry == Permutations(Logins)
================================================================================
