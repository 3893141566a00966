----------------------------- MODULE ApiErrors ------------------------------
(***************************************************************************)
(* How an exception that leaves a service becomes an HTTP status: Starlette*)
(* takes the handler of the first class of the exception's MRO that has    *)
(* one, and answers 500 when none has.                                     *)
(***************************************************************************)
EXTENDS Naturals, Sequences, SequencesExt

\* Class and base classes, nearest first, up to and without Exception.
Mro(exc) ==
    CASE exc \in {"LLMAuthError", "LLMRateLimitError", "LLMTimeoutError"} -> <<exc, "LLMError", "AIError">>
      [] exc \in {"LLMError", "LLMConfigurationError", "AgentLoopError"}  -> <<exc, "AIError">>
      [] exc \in {"PlaidItemLoginRequiredError", "PlaidRateLimitError"}    -> <<exc, "PlaidServiceError">>
      [] OTHER -> <<exc>>

\* The statuses of register_exception_handlers.
Handlers ==
    [AuthenticationError |-> 401, RateLimitedError |-> 429, NotFoundError |-> 404, ConflictError |-> 409,
     InvalidUploadError |-> 400, StorageConfigurationError |-> 503,
     PlaidItemLoginRequiredError |-> 409, PlaidServiceError |-> 502, PlaidConfigurationError |-> 503,
     LLMRateLimitError |-> 429, LLMTimeoutError |-> 504, LLMError |-> 502,
     LLMConfigurationError |-> 503, AgentLoopError |-> 502]

Status(exc) ==
    LET handled == {i \in DOMAIN Mro(exc) : Mro(exc)[i] \in DOMAIN Handlers}
    IN  IF handled = {} THEN 500 ELSE Handlers[Mro(exc)[Min(handled)]]

Statuses == {200, 500} \cup {Handlers[c] : c \in DOMAIN Handlers}

=============================================================================
