\* chanserv stays loaded: when it is loaded again it comes before os_uevent; sessionlimit leaves its
\* commands, botserv a handler.
SPECIFICATION Spec
CONSTANTS
  Reloaded = {{"cs_role", "bs_g_kick"}, {"os_uevent", "bs_g_kick"}, {"cs_akick", "os_uevent"}}
  MaxHandles = 3
INVARIANTS AttachmentsSound LoadedAnswer CalledWithLiveData
CHECK_DEADLOCK FALSE
