SPECIFICATION HooksSpec
CONSTANTS
  MaxHooks = 3
  HookLists <- MCHookLists
PROPERTIES
  ServicesOutliveHooks
