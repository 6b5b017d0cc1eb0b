------------------------------- MODULE UvErrno -------------------------------
(***************************************************************************)
(* The error codes of libuv (uv/errno.h), which spawn() returns and        *)
(* uv_err_name() turns into a name: the number of the system if it has     *)
(* one, with a negative sign, else a number of libuv's own.                *)
(*                                                                         *)
(* A system is a record: errno, the numbers its <errno.h> defines by name; *)
(* edom, the number of EDOM there; windows and bsd, the kinds of systems   *)
(* the header treats specially.                                            *)
(***************************************************************************)
EXTENDS Integers

\* Never a number of the system.
OwnCodes ==
  [EOF |-> -4095, UNKNOWN |-> -4094,
   EAI_ADDRFAMILY |-> -3000, EAI_AGAIN |-> -3001, EAI_BADFLAGS |-> -3002,
   EAI_CANCELED |-> -3003, EAI_FAIL |-> -3004, EAI_FAMILY |-> -3005, EAI_MEMORY |-> -3006,
   EAI_NODATA |-> -3007, EAI_NONAME |-> -3008, EAI_OVERFLOW |-> -3009, EAI_SERVICE |-> -3010,
   EAI_SOCKTYPE |-> -3011, EAI_BADHINTS |-> -3013, EAI_PROTOCOL |-> -3014]

\* The numbers for what the system does not define, in the order of the header.
FallbackE2bigToEexist ==
  [E2BIG |-> -4093, EACCES |-> -4092, EADDRINUSE |-> -4091, EADDRNOTAVAIL |-> -4090,
   EAFNOSUPPORT |-> -4089, EAGAIN |-> -4088, EALREADY |-> -4084, EBADF |-> -4083,
   EBUSY |-> -4082, ECANCELED |-> -4081, ECHARSET |-> -4080, ECONNABORTED |-> -4079,
   ECONNREFUSED |-> -4078, ECONNRESET |-> -4077, EDESTADDRREQ |-> -4076, EEXIST |-> -4075]

FallbackEfaultToEnonet ==
  [EFAULT |-> -4074, EHOSTUNREACH |-> -4073, EINTR |-> -4072, EINVAL |-> -4071, EIO |-> -4070,
   EISCONN |-> -4069, EISDIR |-> -4068, ELOOP |-> -4067, EMFILE |-> -4066, EMSGSIZE |-> -4065,
   ENAMETOOLONG |-> -4064, ENETDOWN |-> -4063, ENETUNREACH |-> -4062, ENFILE |-> -4061,
   ENOBUFS |-> -4060, ENODEV |-> -4059, ENOENT |-> -4058, ENOMEM |-> -4057, ENONET |-> -4056]

FallbackEnospcToExdev ==
  [ENOSPC |-> -4055, ENOSYS |-> -4054, ENOTCONN |-> -4053, ENOTDIR |-> -4052,
   ENOTEMPTY |-> -4051, ENOTSOCK |-> -4050, ENOTSUP |-> -4049, EPERM |-> -4048,
   EPIPE |-> -4047, EPROTO |-> -4046, EPROTONOSUPPORT |-> -4045, EPROTOTYPE |-> -4044,
   EROFS |-> -4043, ESHUTDOWN |-> -4042, ESPIPE |-> -4041, ESRCH |-> -4040,
   ETIMEDOUT |-> -4039, ETXTBSY |-> -4038, EXDEV |-> -4037]

FallbackEfbigToEsocktnosupport ==
  [EFBIG |-> -4036, ENOPROTOOPT |-> -4035, ERANGE |-> -4034, ENXIO |-> -4033, EMLINK |-> -4032,
   EHOSTDOWN |-> -4031, EREMOTEIO |-> -4030, ENOTTY |-> -4029, EFTYPE |-> -4028,
   EILSEQ |-> -4027, EOVERFLOW |-> -4026, ESOCKTNOSUPPORT |-> -4025]

FallbackNames ==
  DOMAIN FallbackE2bigToEexist \cup DOMAIN FallbackEfaultToEnonet
    \cup DOMAIN FallbackEnospcToExdev \cup DOMAIN FallbackEfbigToEsocktnosupport

Fallback ==
  [name \in FallbackNames |->
     CASE name \in DOMAIN FallbackE2bigToEexist  -> FallbackE2bigToEexist[name]
       [] name \in DOMAIN FallbackEfaultToEnonet -> FallbackEfaultToEnonet[name]
       [] name \in DOMAIN FallbackEnospcToExdev  -> FallbackEnospcToExdev[name]
       [] OTHER                                  -> FallbackEfbigToEsocktnosupport[name]]

\* The names of UV_ERRNO_MAP.
Names == DOMAIN OwnCodes \cup DOMAIN Fallback

\* The names whose numbers are taken from the system.
Given(s) == IF s.windows THEN {} ELSE FallbackNames \cap DOMAIN s.errno

\* UV__ERR: the sign of EDOM decides for all numbers whether they are negated.
ErrAsIs(s, x) == x   \* faulty variant: no sign is changed
Err(s, x) == IF s.edom > 0 THEN -x ELSE x

\* EHOSTDOWN, which has one case more than the other names.
EhostdownCode(s) ==
  IF "EHOSTDOWN" \in Given(s) THEN Err(s, s.errno["EHOSTDOWN"])
  ELSE IF s.bsd THEN -64 ELSE Fallback["EHOSTDOWN"]

\* UV_<name> on system s.
Code(s, name) ==
  IF name \in DOMAIN OwnCodes THEN OwnCodes[name]
  ELSE IF name = "EHOSTDOWN" THEN EhostdownCode(s)
  ELSE IF name \in Given(s) THEN Err(s, s.errno[name]) ELSE Fallback[name]

\* What the header takes for granted of the numbers in a system's <errno.h>.  None is 0, and
\* all have the sign of EDOM; else a code could come out positive or as a success.
SameSign(s) ==
  /\ s.edom \in Int \ {0}
  /\ \A m \in Given(s) : s.errno[m] \in Int \ {0} /\ (s.errno[m] > 0 <=> s.edom > 0)

\* No two are the same, and none is, with either sign, a code of libuv's own or the 64 that
\* stands for EHOSTDOWN where a BSD hides it; else two names could share a code.
LibuvCodes == -4095..-4025 \cup -3014..-3000
Apart(s) ==
  \A m \in Given(s) :
    /\ \A c \in LibuvCodes : s.errno[m] \notin {c, -c}
    /\ s.bsd /\ "EHOSTDOWN" \notin Given(s) => s.errno[m] \notin {64, -64}
    /\ \A n \in Given(s) : s.errno[m] = s.errno[n] => m = n

\* uv_err_name: the names that have this code, one of which is found.
NamesOf(s, r) == {name \in Names : Code(s, name) = r}
=============================================================================
